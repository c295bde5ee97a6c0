----------------------------- MODULE ModelProofs -----------------------------
(***************************************************************************)
(* Proofs about the layer between an agent and its models: the budget gate *)
(* of the model calls, the resilient call itself, and the caches of the    *)
(* registry, the configuration and the voices.                             *)
(***************************************************************************)
EXTENDS MCModels, NumberLemmas, FiniteSetTheorems, TLAPS

(* The running sums of the costs of the calls.                              *)
IsSum(usd, s) ==
    /\ s \in [0..MaxCalls -> Nat] /\ s[0] = 0
    /\ \A n \in 1..MaxCalls : s[n] = s[n - 1] + usd[n]

LEMMA SumExists ==
    ASSUME NEW usd \in [CallIds -> Nat]
    PROVE  \E s : IsSum(usd, s)
<1> DEFINE S == {n \in 0..MaxCalls : \E s \in [0..n -> Nat] :
                    s[0] = 0 /\ \A m \in 1..n : s[m] = s[m - 1] + usd[m]}
<1>1. MaxCalls \in Nat
  BY BudgetAssumption
<1>2. 0 \in S
  <2> DEFINE s == [n \in 0..0 |-> 0]
  <2>1. s \in [0..0 -> Nat] /\ s[0] = 0 /\ \A m \in 1..0 : s[m] = s[m - 1] + usd[m]
    OBVIOUS
  <2>2. 0 \in 0..MaxCalls
    BY <1>1
  <2> HIDE DEF s
  <2>3. \E r \in [0..0 -> Nat] : r[0] = 0 /\ \A m \in 1..0 : r[m] = r[m - 1] + usd[m]
    BY <2>1
  <2> QED
    BY <2>2, <2>3
<1>3. ASSUME NEW n \in 1..MaxCalls, n - 1 \in S PROVE n \in S
  <2>1. PICK s \in [0..(n - 1) -> Nat] : s[0] = 0 /\ \A m \in 1..(n - 1) : s[m] = s[m - 1] + usd[m]
    BY <1>3
  <2> DEFINE t == [m \in 0..n |-> IF m = n THEN s[n - 1] + usd[n] ELSE s[m]]
  <2>2. usd[n] \in Nat /\ s[n - 1] \in Nat
    BY <1>1 DEF CallIds
  <2>3. t \in [0..n -> Nat] /\ t[0] = 0
    BY <1>1, <2>1, <2>2
  <2>4. \A m \in 1..n : t[m] = t[m - 1] + usd[m]
    BY <1>1, <2>1
  <2> HIDE DEF t
  <2>5. \E r \in [0..n -> Nat] : r[0] = 0 /\ \A m \in 1..n : r[m] = r[m - 1] + usd[m]
    BY <2>3, <2>4
  <2>6. n \in 0..MaxCalls
    BY <1>1
  <2> QED
    BY <2>5, <2>6
<1>4. MaxCalls \in S
  <2> HIDE DEF S
  <2>1. 0..MaxCalls \subseteq S
    BY <1>1, <1>2, <1>3, UpTo
  <2> QED
    BY <1>1, <2>1
<1> QED
  BY <1>4 DEF IsSum

LEMMA SumUnique ==
    ASSUME NEW usd \in [CallIds -> Nat], NEW s, IsSum(usd, s)
    PROVE  SumOf(usd) = s[MaxCalls]
<1> DEFINE Unfold(f) == [n \in 0..MaxCalls |-> IF n = 0 THEN 0 ELSE f[n - 1] + usd[n]]
           sum == CHOOSE f : f = Unfold(f)
<1>1. MaxCalls \in Nat
  BY BudgetAssumption
<1>2. s = Unfold(s)
  <2>1. \A n \in 0..MaxCalls : s[n] = IF n = 0 THEN 0 ELSE s[n - 1] + usd[n]
    BY <1>1 DEF IsSum
  <2> QED
    BY <2>1 DEF IsSum
<1>3. sum = Unfold(sum)
  <2> HIDE DEF Unfold
  <2> QED
    BY <1>2
<1>4. SumOf(usd) = sum[MaxCalls]
  BY DEF SumOf
<1> HIDE DEF sum
<1> DEFINE S == {n \in 0..MaxCalls : sum[n] = s[n]}
<1>5. 0 \in S
  BY <1>1, <1>3 DEF IsSum
<1>6. ASSUME NEW n \in 1..MaxCalls, n - 1 \in S PROVE n \in S
  <2>1. sum[n] = sum[n - 1] + usd[n]
    BY <1>1, <1>3
  <2> QED
    BY <1>1, <1>6, <2>1 DEF IsSum
<1>7. MaxCalls \in S
  <2> HIDE DEF S
  <2>1. 0..MaxCalls \subseteq S
    BY <1>1, <1>5, <1>6, UpTo
  <2> QED
    BY <1>1, <2>1
<1> QED
  BY <1>4, <1>7

LEMMA SumIsNat == ASSUME NEW usd \in [CallIds -> Nat] PROVE SumOf(usd) \in Nat
BY SumExists, SumUnique, BudgetAssumption DEF IsSum

(* One call that costs something else moves the sum by the difference.      *)
LEMMA SumChange ==
    ASSUME NEW usd \in [CallIds -> Nat], NEW new \in [CallIds -> Nat], NEW c \in CallIds,
           \A d \in CallIds \ {c} : new[d] = usd[d]
    PROVE  SumOf(new) = SumOf(usd) + new[c] - usd[c]
<1>1. MaxCalls \in Nat /\ c \in 1..MaxCalls
  BY BudgetAssumption DEF CallIds
<1>2. PICK s : IsSum(usd, s)
  BY SumExists
<1>3. PICK t : IsSum(new, t)
  BY SumExists
<1>4. usd[c] \in Nat /\ new[c] \in Nat
  OBVIOUS
<1> DEFINE S == {n \in 0..MaxCalls : t[n] = IF n < c THEN s[n] ELSE s[n] + new[c] - usd[c]}
<1>5. 0 \in S
  BY <1>1, <1>2, <1>3 DEF IsSum
<1>6. ASSUME NEW n \in 1..MaxCalls, n - 1 \in S PROVE n \in S
  <2>1. /\ t[n] = t[n - 1] + new[n] /\ s[n] = s[n - 1] + usd[n]
        /\ s[n - 1] \in Nat /\ t[n - 1] \in Nat /\ usd[n] \in Nat /\ new[n] \in Nat
    BY <1>1, <1>2, <1>3 DEF IsSum, CallIds
  <2>2. t[n - 1] = IF n - 1 < c THEN s[n - 1] ELSE s[n - 1] + new[c] - usd[c]
    BY <1>6
  <2>3. CASE n = c
    BY <1>1, <1>4, <2>1, <2>2, <2>3
  <2>4. CASE n # c
    <3>1. new[n] = usd[n]
      BY <2>4 DEF CallIds
    <3> QED
      BY <1>1, <1>4, <2>1, <2>2, <2>4, <3>1
  <2> QED
    BY <2>3, <2>4
<1>7. MaxCalls \in S
  <2> HIDE DEF S
  <2>1. 0..MaxCalls \subseteq S
    BY <1>1, <1>5, <1>6, UpTo
  <2> QED
    BY <1>1, <2>1
<1>8. t[MaxCalls] = s[MaxCalls] + new[c] - usd[c]
  BY <1>1, <1>7
<1> QED
  BY <1>2, <1>3, <1>8, SumUnique

(* Cheaper calls sum up to less, and each call costs no more than all.      *)
LEMMA SumMonotone ==
    ASSUME NEW usd \in [CallIds -> Nat], NEW new \in [CallIds -> Nat],
           \A c \in CallIds : usd[c] <= new[c]
    PROVE  SumOf(usd) <= SumOf(new)
<1>1. MaxCalls \in Nat
  BY BudgetAssumption
<1>2. PICK s : IsSum(usd, s)
  BY SumExists
<1>3. PICK t : IsSum(new, t)
  BY SumExists
<1> DEFINE S == {n \in 0..MaxCalls : s[n] <= t[n]}
<1>5. 0 \in S
  BY <1>1, <1>2, <1>3 DEF IsSum
<1>6. ASSUME NEW n \in 1..MaxCalls, n - 1 \in S PROVE n \in S
  <2>1. /\ t[n] = t[n - 1] + new[n] /\ s[n] = s[n - 1] + usd[n]
        /\ s[n - 1] \in Nat /\ t[n - 1] \in Nat /\ usd[n] \in Nat /\ new[n] \in Nat
    BY <1>1, <1>2, <1>3 DEF IsSum, CallIds
  <2>2. usd[n] <= new[n] /\ s[n - 1] <= t[n - 1]
    BY <1>6 DEF CallIds
  <2> QED
    BY <2>1, <2>2
<1>7. MaxCalls \in S
  <2> HIDE DEF S
  <2>1. 0..MaxCalls \subseteq S
    BY <1>1, <1>5, <1>6, UpTo
  <2> QED
    BY <1>1, <2>1
<1> QED
  BY <1>2, <1>3, <1>7, SumUnique

LEMMA SumCoversEach ==
    ASSUME NEW usd \in [CallIds -> Nat], NEW c \in CallIds
    PROVE  usd[c] <= SumOf(usd)
<1> DEFINE less == [usd EXCEPT ![c] = 0]
<1>1. less \in [CallIds -> Nat] /\ less[c] = 0 /\ \A d \in CallIds \ {c} : less[d] = usd[d]
  OBVIOUS
<1> HIDE DEF less
<1>2. SumOf(less) = SumOf(usd) + less[c] - usd[c]
  BY <1>1, SumChange
<1>3. SumOf(less) \in Nat /\ SumOf(usd) \in Nat /\ usd[c] \in Nat
  BY <1>1, SumIsNat
<1> QED
  BY <1>1, <1>2, <1>3

LEMMA SumOfNothing ==
    ASSUME NEW usd \in [CallIds -> Nat], \A c \in CallIds : usd[c] = 0
    PROVE  SumOf(usd) = 0
<1> DEFINE s == [n \in 0..MaxCalls |-> 0]
<1>1. IsSum(usd, s) /\ s[MaxCalls] = 0
  BY BudgetAssumption DEF IsSum, CallIds
<1> HIDE DEF s
<1> QED
  BY <1>1, SumUnique
-----------------------------------------------------------------------------
(* While a slot's model works on a call, the closure's consultation is that *)
(* call, its hold is what the ledger has for it, and no other slot works on *)
(* it: so record releases exactly what consult charged.                     *)
Held(entry, hold) ==
    /\ entry.action \in {"allow", "warn"} /\ entry.period \in Periods
    /\ entry.usd = entry.projected
    /\ hold = [usd |-> entry.usd, period |-> entry.period]

InFlight ==
    \A s \in Slots : calling[s] # 0 =>
        /\ pending[s] = calling[s] /\ Held(ledger[calling[s]], charged[calling[s]])
        /\ \A t \in Slots : calling[t] = calling[s] => t = s

(* A call that was not consulted has no entry.                              *)
Unused == \A c \in CallIds : ledger[c].action = "none" => ledger[c] = NoEntry

BudgetInv == BudgetTypeOK /\ InFlight /\ Unused /\ SpendIsLedger /\ CapHolds

Actions == {"allow", "warn", "block"}
Entries == [action : {"none"} \cup Actions, period : Periods \cup {0},
            projected : Costs \cup {0}, usd : Costs \cup {0}]

(* What the ledger counts for a period and these decisions.                 *)
Share(x, k, actions) == IF x.period = k /\ x.action \in actions THEN x.usd ELSE 0
Counted(l, k, actions) == [c \in CallIds |-> Share(l[c], k, actions)]

LEMMA BudgetNumbers ==
    /\ Costs \subseteq Nat /\ Cap \in Nat /\ Soft \in Nat /\ 0 \notin CallIds /\ CallIds \subseteq Nat
    /\ Periods \subseteq Nat /\ 1 \in Periods
BY BudgetAssumption DEF CallIds, Periods

LEMMA EntryUsd == ASSUME NEW l \in [CallIds -> Entries], NEW c \in CallIds PROVE l[c].usd \in Nat
<1>1. l[c] \in Entries
  OBVIOUS
<1>2. l[c].usd \in Costs \cup {0}
  BY <1>1 DEF Entries
<1>3. \A x \in Costs \cup {0} : x \in Nat
  BY BudgetAssumption
<1> QED
  BY <1>2, <1>3

LEMMA CountedType ==
    ASSUME NEW l \in [CallIds -> Entries], NEW k, NEW actions
    PROVE  Counted(l, k, actions) \in [CallIds -> Nat]
<1>1. \A c \in CallIds : l[c].usd \in Nat
  BY EntryUsd
<1> QED
  BY <1>1 DEF Counted, Share

LEMMA TotalIsSum == \A k, actions : Total(k, actions) = SumOf(Counted(ledger, k, actions))
BY DEF Total, Counted, Share

LEMMA TotalType ==
    ASSUME ledger \in [CallIds -> Entries], NEW k, NEW actions
    PROVE  Total(k, actions) \in Nat
BY TotalIsSum, CountedType, SumIsNat

(* One entry of the ledger changes.                                         *)
LEMMA CountedChange ==
    ASSUME NEW l \in [CallIds -> Entries], NEW m \in [CallIds -> Entries], NEW c \in CallIds,
           \A d \in CallIds \ {c} : m[d] = l[d], NEW k, NEW actions
    PROVE  SumOf(Counted(m, k, actions)) =
                SumOf(Counted(l, k, actions)) + Share(m[c], k, actions) - Share(l[c], k, actions)
<1> DEFINE old == Counted(l, k, actions)
           new == Counted(m, k, actions)
<1>1. old \in [CallIds -> Nat] /\ new \in [CallIds -> Nat]
  BY CountedType
<1>2. \A d \in CallIds \ {c} : new[d] = old[d]
  BY DEF Counted
<1>3. old[c] = Share(l[c], k, actions) /\ new[c] = Share(m[c], k, actions)
  BY DEF Counted
<1> HIDE DEF old, new
<1>4. SumOf(new) = SumOf(old) + new[c] - old[c]
  BY <1>1, <1>2, SumChange
<1> QED
  BY <1>3, <1>4 DEF old, new

LEMMA TotalCoversEach ==
    ASSUME ledger \in [CallIds -> Entries], NEW c \in CallIds, NEW k, NEW actions,
           ledger[c].period = k, ledger[c].action \in actions
    PROVE  ledger[c].usd <= Total(k, actions)
<1>1. Counted(ledger, k, actions)[c] = ledger[c].usd
  BY DEF Counted, Share
<1> QED
  BY <1>1, CountedType, SumCoversEach, TotalIsSum

(* What was let through costs no more than all that was consulted.          *)
LEMMA TotalMonotone ==
    ASSUME ledger \in [CallIds -> Entries], NEW k
    PROVE  Total(k, {"allow", "warn"}) <= Total(k, Actions)
<1> DEFINE some == Counted(ledger, k, {"allow", "warn"})
           all == Counted(ledger, k, Actions)
<1>1. some \in [CallIds -> Nat] /\ all \in [CallIds -> Nat]
  BY CountedType
<1>2. \A c \in CallIds : some[c] <= all[c]
  <2> SUFFICES ASSUME NEW c \in CallIds PROVE some[c] <= all[c]
    OBVIOUS
  <2>1. ledger[c].usd \in Nat
    BY EntryUsd
  <2> QED
    BY <2>1 DEF Counted, Share, Actions
<1>3. Total(k, {"allow", "warn"}) = SumOf(some) /\ Total(k, Actions) = SumOf(all)
  BY TotalIsSum
<1> HIDE DEF some, all
<1> QED
  BY <1>1, <1>2, <1>3, SumMonotone

LEMMA BudgetInit == Init => BudgetInv
<1> SUFFICES ASSUME Init PROVE BudgetInv
  OBVIOUS
<1>1. BudgetTypeOK /\ InFlight /\ Unused
  BY BudgetNumbers DEF Init, BudgetTypeOK, InFlight, Unused, NoHold, NoEntry
<1>2. \A k, actions : "none" \notin actions => Total(k, actions) = 0
  <2> SUFFICES ASSUME NEW k, NEW actions, "none" \notin actions PROVE Total(k, actions) = 0
    OBVIOUS
  <2>1. ledger = [c \in CallIds |-> NoEntry] /\ Share(NoEntry, k, actions) = 0
    BY DEF Init, NoEntry, Share
  <2>2. /\ Counted(ledger, k, actions) \in [CallIds -> Nat]
        /\ \A c \in CallIds : Counted(ledger, k, actions)[c] = 0
    BY <2>1 DEF Counted
  <2> QED
    BY <2>2, TotalIsSum, SumOfNothing
<1>3. SpendIsLedger /\ CapHolds
  BY <1>2 DEF SpendIsLedger, CapHolds, Init
<1> QED
  BY <1>1, <1>3 DEF BudgetInv

(* A consultation adds its projection to both sides; one that is let        *)
(* through found room below the cap.                                        *)
LEMMA BudgetBefore ==
    ASSUME BudgetInv, NEW s \in Slots, NEW c \in CallIds, NEW p \in Costs, Before(s, c, p)
    PROVE  BudgetInv'
<1>0. PICK e : e = [action |-> Decide(p), period |-> period, projected |-> p, usd |-> p]
  OBVIOUS
<1>1. /\ ledger \in [CallIds -> Entries] /\ period \in Periods /\ spend \in [Periods -> Nat]
      /\ p \in Nat /\ ledger[c].action = "none"
  BY BudgetNumbers DEF BudgetInv, BudgetTypeOK, Before, Used, Entries, Actions
<1>2. /\ e \in Entries /\ e.action = Decide(p) /\ e.period = period /\ e.usd = p /\ e.projected = p
      /\ Decide(p) \in Actions
  BY <1>0, <1>1 DEF Decide, Entries, Actions
<1>3. ledger' = [ledger EXCEPT ![c] = e]
  BY <1>0 DEF Before, Consult
<1>4. ledger' \in [CallIds -> Entries] /\ spend' = [spend EXCEPT ![period] = @ + p]
      /\ spend' \in [Periods -> Nat]
  BY <1>1, <1>2, <1>3 DEF Before, Consult
<1>5. BudgetTypeOK'
  <2>1. charged' = [charged EXCEPT ![c] = [usd |-> p, period |-> period]] /\ period' = period
    BY DEF Before, Consult
  <2>2. charged' \in [CallIds -> [usd : Costs \cup {0}, period : Periods \cup {0}]]
    BY <1>1, <2>1 DEF BudgetInv, BudgetTypeOK
  <2>3. pending' \in [Slots -> {0} \cup CallIds] /\ calling' \in [Slots -> {0} \cup CallIds]
    BY DEF BudgetInv, BudgetTypeOK, Before
  <2> QED
    BY <1>1, <1>4, <2>1, <2>2, <2>3 DEF BudgetTypeOK, Entries, Actions
<1>6. \A k, actions : Total(k, actions)' = Total(k, actions) +
          (IF period = k /\ Decide(p) \in actions THEN p ELSE 0) - (IF "none" \in actions /\ ledger[c].period = k
                                                                    THEN ledger[c].usd ELSE 0)
  <2> SUFFICES ASSUME NEW k, NEW actions
               PROVE  Total(k, actions)' = Total(k, actions) +
                        (IF period = k /\ Decide(p) \in actions THEN p ELSE 0)
                        - (IF "none" \in actions /\ ledger[c].period = k THEN ledger[c].usd ELSE 0)
    OBVIOUS
  <2>1. Total(k, actions) = SumOf(Counted(ledger, k, actions))
        /\ Total(k, actions)' = SumOf(Counted(ledger', k, actions))
    BY DEF Total, Counted, Share
  <2>2. SumOf(Counted(ledger', k, actions)) =
            SumOf(Counted(ledger, k, actions)) + Share(e, k, actions) - Share(ledger[c], k, actions)
    <3>1. /\ ledger' \in [CallIds -> Entries] /\ ledger'[c] = e
          /\ \A d \in CallIds \ {c} : ledger'[d] = ledger[d]
      BY <1>1, <1>3, <1>4
    <3> QED
      BY <1>1, <3>1, CountedChange
  <2>3. Share(ledger[c], k, actions) = IF "none" \in actions /\ ledger[c].period = k THEN ledger[c].usd ELSE 0
    BY <1>1 DEF Share
  <2>4. Share(e, k, actions) = IF period = k /\ Decide(p) \in actions THEN p ELSE 0
    BY <1>2 DEF Share
  <2> QED
    BY <2>1, <2>2, <2>3, <2>4
<1>7. \A k : Total(k, Actions)' = Total(k, Actions) + (IF period = k THEN p ELSE 0)
  <2> SUFFICES ASSUME NEW k PROVE Total(k, Actions)' = Total(k, Actions) + (IF period = k THEN p ELSE 0)
    OBVIOUS
  <2>1. "none" \notin Actions
    BY DEF Actions
  <2>2. Total(k, Actions)' = Total(k, Actions) + (IF period = k /\ Decide(p) \in Actions THEN p ELSE 0) - 0
    BY <1>6, <2>1
  <2> QED
    BY <1>1, <1>2, <2>2, TotalType
<1>8. SpendIsLedger'
  <2> SUFFICES ASSUME NEW k \in Periods PROVE spend'[k] = Total(k, Actions)'
    BY DEF SpendIsLedger, Actions
  <2>1. spend[k] = Total(k, Actions)
    BY DEF BudgetInv, SpendIsLedger, Actions
  <2>2. spend'[k] = spend[k] + (IF period = k THEN p ELSE 0)
    BY <1>1, <1>4
  <2> QED
    BY <1>7, <2>1, <2>2
<1>9. InFlight'
  <2>1. \A t \in Slots : calling[t] # 0 => calling[t] # c /\ calling[t] \in CallIds
    BY <1>1 DEF BudgetInv, InFlight, Held, BudgetTypeOK
  <2>2. /\ \A d \in CallIds \ {c} : ledger'[d] = ledger[d] /\ charged'[d] = charged[d]
        /\ ledger'[c] = e /\ charged'[c] = [usd |-> p, period |-> period]
    BY <1>1, <1>3 DEF Before, Consult, BudgetInv, BudgetTypeOK
  <2>3. CASE Decide(p) = "block"
    <3>1. calling' = calling /\ calling[s] = 0 /\ \A t \in Slots : t # s => pending'[t] = pending[t]
      BY <2>3 DEF Before, BudgetInv, BudgetTypeOK
    <3> SUFFICES ASSUME NEW t \in Slots, calling'[t] # 0
                 PROVE  /\ pending'[t] = calling'[t]
                        /\ Held(ledger'[calling'[t]], charged'[calling'[t]])
                        /\ \A u \in Slots : calling'[u] = calling'[t] => u = t
      BY DEF InFlight, Held, Periods
    <3>2. t # s /\ calling'[t] = calling[t] /\ calling[t] \in CallIds \ {c}
      BY <2>1, <3>1
    <3> QED
      BY <2>2, <3>1, <3>2 DEF BudgetInv, InFlight
  <2>4. CASE Decide(p) # "block"
    <3>1. /\ calling' = [calling EXCEPT ![s] = c] /\ pending' = [pending EXCEPT ![s] = c]
          /\ calling \in [Slots -> {0} \cup CallIds] /\ pending \in [Slots -> {0} \cup CallIds]
      BY <2>4 DEF Before, BudgetInv, BudgetTypeOK
    <3>2. Decide(p) \in {"allow", "warn"} /\ c # 0
      BY <1>2, <2>4, BudgetNumbers DEF Actions
    <3> SUFFICES ASSUME NEW t \in Slots, calling'[t] # 0
                 PROVE  /\ pending'[t] = calling'[t]
                        /\ Held(ledger'[calling'[t]], charged'[calling'[t]])
                        /\ \A u \in Slots : calling'[u] = calling'[t] => u = t
      BY DEF InFlight, Held, Periods
    <3>3. CASE t = s
      BY <1>1, <1>2, <2>1, <2>2, <3>1, <3>2, <3>3 DEF Held
    <3>4. CASE t # s
      <4>1. calling'[t] = calling[t] /\ calling[t] # c /\ calling[t] \in CallIds \ {c} /\ pending'[t] = pending[t]
        BY <2>1, <3>1, <3>4
      <4>2. \A u \in Slots : calling'[u] = calling'[t] => u = t
        BY <3>1, <3>4, <4>1 DEF BudgetInv, InFlight
      <4> QED
        BY <2>2, <4>1, <4>2 DEF BudgetInv, InFlight
    <3> QED
      BY <3>3, <3>4
  <2> QED
    BY <2>3, <2>4
<1>10. CapHolds'
  <2> SUFFICES ASSUME Cap > 0, \A d \in CallIds : ledger'[d].usd <= ledger'[d].projected, NEW k \in Periods
               PROVE  Total(k, {"allow", "warn"})' < Cap
    BY DEF CapHolds, Periods, CallIds
  <2>1. \A d \in CallIds : ledger[d].usd <= ledger[d].projected
    <3> SUFFICES ASSUME NEW d \in CallIds PROVE ledger[d].usd <= ledger[d].projected
      OBVIOUS
    <3>1. CASE d # c
      BY <1>1, <1>3, <3>1
    <3>2. CASE d = c
      BY <1>1, <3>2 DEF BudgetInv, Unused, NoEntry
    <3> QED
      BY <3>1, <3>2
  <2>2. Total(k, {"allow", "warn"}) < Cap
    BY <2>1, BudgetNumbers DEF BudgetInv, CapHolds
  <2>3. Total(k, {"allow", "warn"})' =
            Total(k, {"allow", "warn"}) + (IF period = k /\ Decide(p) \in {"allow", "warn"} THEN p ELSE 0) - 0
    BY <1>6
  <2>4. Total(k, {"allow", "warn"}) <= spend[k]
    BY <1>1, TotalMonotone DEF BudgetInv, SpendIsLedger, Actions
  <2>5. Total(k, {"allow", "warn"}) \in Nat /\ spend[k] \in Nat
    BY <1>1, TotalType
  <2>6. CASE period = k /\ Decide(p) \in {"allow", "warn"}
    <3>1. ~(spend[period] + p >= Cap)
      BY <2>6, BudgetNumbers DEF Decide
    <3> QED
      BY <1>1, <2>3, <2>4, <2>5, <2>6, <3>1, BudgetNumbers
  <2>7. CASE ~(period = k /\ Decide(p) \in {"allow", "warn"})
    BY <2>2, <2>3, <2>5, <2>7
  <2> QED
    BY <2>6, <2>7
<1>11. Unused'
  BY <1>1, <1>2, <1>3 DEF Unused, BudgetInv, CallIds, NoEntry, Actions
<1> QED
  BY <1>5, <1>8, <1>9, <1>10, <1>11 DEF BudgetInv

(* A settled call replaces its projection, in the period that asked for it, *)
(* by what it cost: the floor at zero of record never bites.                *)
LEMMA BudgetSettles ==
    ASSUME BudgetInv, NEW s \in Slots, NEW a \in Costs, AfterWithUsage(s, a)
    PROVE  BudgetInv'
<1>0. PICK c \in CallIds : calling[s] = c /\ pending[s] = c
  BY DEF BudgetInv, BudgetTypeOK, InFlight, AfterWithUsage
<1>1. /\ ledger \in [CallIds -> Entries] /\ period \in Periods /\ spend \in [Periods -> Nat]
      /\ charged \in [CallIds -> [usd : Costs \cup {0}, period : Periods \cup {0}]]
      /\ a \in Nat /\ c # 0
  BY BudgetNumbers DEF BudgetInv, BudgetTypeOK, Entries, Actions
<1>2. PICK k : k = ledger[c].period
  OBVIOUS
<1>3. PICK usd : usd = ledger[c].usd
  OBVIOUS
<1>4. /\ ledger[c].action \in {"allow", "warn"} /\ k \in Periods /\ usd = ledger[c].projected /\ usd \in Nat
      /\ charged[c].usd = usd /\ charged[c].period = k
  <2>1. Held(ledger[c], charged[c])
    BY <1>0, <1>1 DEF BudgetInv, InFlight
  <2>2. charged[c] = [usd |-> usd, period |-> k]
    BY <1>2, <1>3, <2>1 DEF Held
  <2>3. charged[c].usd = usd /\ charged[c].period = k
    BY <2>2
  <2>4. usd \in Nat
    BY <1>1, <1>3, EntryUsd
  <2> QED
    BY <1>2, <1>3, <2>1, <2>3, <2>4 DEF Held
<1>5. PICK e : e = [ledger[c] EXCEPT !.usd = a]
  OBVIOUS
<1>6. /\ e \in Entries /\ e.usd = a /\ e.period = k /\ e.action = ledger[c].action /\ e.projected = usd
      /\ ledger[c] \in Entries
  BY <1>1, <1>2, <1>4, <1>5 DEF Entries
<1>7. ledger' = [ledger EXCEPT ![c] = e] /\ ledger' \in [CallIds -> Entries] /\ ledger'[c] = e
      /\ \A d \in CallIds \ {c} : ledger'[d] = ledger[d]
  BY <1>0, <1>1, <1>5, <1>6 DEF AfterWithUsage
<1>8. \A j, actions : Total(j, actions)' =
          Total(j, actions) + (IF j = k /\ ledger[c].action \in actions THEN a ELSE 0)
                            - (IF j = k /\ ledger[c].action \in actions THEN usd ELSE 0)
  <2> SUFFICES ASSUME NEW j, NEW actions
               PROVE  Total(j, actions)' =
                        Total(j, actions) + (IF j = k /\ ledger[c].action \in actions THEN a ELSE 0)
                                          - (IF j = k /\ ledger[c].action \in actions THEN usd ELSE 0)
    OBVIOUS
  <2>1. Total(j, actions) = SumOf(Counted(ledger, j, actions))
        /\ Total(j, actions)' = SumOf(Counted(ledger', j, actions))
    BY DEF Total, Counted, Share
  <2>2. SumOf(Counted(ledger', j, actions)) =
            SumOf(Counted(ledger, j, actions)) + Share(e, j, actions) - Share(ledger[c], j, actions)
    <3>1. /\ ledger' \in [CallIds -> Entries] /\ ledger'[c] = e
          /\ \A d \in CallIds \ {c} : ledger'[d] = ledger[d]
      BY <1>7
    <3> QED
      BY <1>1, <3>1, CountedChange, SMTT(60)
  <2>3. Share(ledger[c], j, actions) = IF j = k /\ ledger[c].action \in actions THEN usd ELSE 0
    BY <1>2, <1>3 DEF Share
  <2>4. Share(e, j, actions) = IF j = k /\ ledger[c].action \in actions THEN a ELSE 0
    BY <1>6 DEF Share
  <2> QED
    BY <2>1, <2>2, <2>3, <2>4
<1>9. \A j \in Periods : spend[j] = Total(j, Actions) /\ Total(j, Actions) \in Nat
  BY <1>1, TotalType DEF BudgetInv, SpendIsLedger, Actions
<1>10. usd <= spend[k]
  <2>1. usd <= Total(k, Actions)
    BY <1>1, <1>2, <1>3, <1>4, TotalCoversEach, ZenonT(60) DEF Actions
  <2> QED
    BY <1>4, <1>9, <2>1
<1>11. spend' = [spend EXCEPT ![k] = @ + a - usd] /\ spend' \in [Periods -> Nat]
  <2>1. spend[k] + a - usd \in Nat
    BY <1>1, <1>4, <1>10
  <2>2. spend' = [spend EXCEPT ![k] = AtLeastZero(spend[k] + a - usd)]
    BY <1>0, <1>1, <1>4 DEF AfterWithUsage, Record
  <2>3. AtLeastZero(spend[k] + a - usd) = spend[k] + a - usd
    BY <2>1 DEF AtLeastZero
  <2> QED
    BY <1>1, <1>4, <2>1, <2>2, <2>3
<1>12. SpendIsLedger'
  <2> SUFFICES ASSUME NEW j \in Periods PROVE spend'[j] = Total(j, Actions)'
    BY DEF SpendIsLedger, Actions, Periods
  <2>1. ledger[c].action \in Actions
    BY <1>4 DEF Actions
  <2>2. Total(j, Actions)' = Total(j, Actions) + (IF j = k THEN a ELSE 0) - (IF j = k THEN usd ELSE 0)
    BY <1>8, <2>1
  <2> QED
    BY <1>1, <1>4, <1>9, <1>11, <2>2
<1>13. /\ charged' = [charged EXCEPT ![c] = NoHold] /\ pending' = [pending EXCEPT ![s] = 0]
       /\ calling' = [calling EXCEPT ![s] = 0] /\ period' = period
  BY <1>0 DEF AfterWithUsage, Record
<1>14. BudgetTypeOK'
  <2>1. charged' \in [CallIds -> [usd : Costs \cup {0}, period : Periods \cup {0}]]
    BY <1>1, <1>13 DEF NoHold
  <2>2. pending' \in [Slots -> {0} \cup CallIds] /\ calling' \in [Slots -> {0} \cup CallIds]
    BY <1>13 DEF BudgetInv, BudgetTypeOK
  <2> QED
    BY <1>1, <1>7, <1>11, <1>13, <2>1, <2>2 DEF BudgetTypeOK, Entries, Actions
<1>15. InFlight'
  <2> SUFFICES ASSUME NEW t \in Slots, calling'[t] # 0
               PROVE  /\ pending'[t] = calling'[t] /\ Held(ledger'[calling'[t]], charged'[calling'[t]])
                      /\ \A u \in Slots : calling'[u] = calling'[t] => u = t
    BY DEF InFlight, Held, Periods
  <2>1. t # s /\ calling'[t] = calling[t] /\ pending'[t] = pending[t] /\ calling[t] \in CallIds
    BY <1>13 DEF BudgetInv, BudgetTypeOK
  <2>2. calling[t] # c
    BY <1>0, <1>1, <2>1 DEF BudgetInv, InFlight
  <2>3. ledger'[calling[t]] = ledger[calling[t]] /\ charged'[calling[t]] = charged[calling[t]]
    BY <1>1, <1>7, <1>13, <2>1, <2>2
  <2>4. \A u \in Slots : calling'[u] = calling'[t] => u = t
    BY <1>13, <2>1 DEF BudgetInv, BudgetTypeOK, InFlight
  <2> QED
    BY <2>1, <2>2, <2>3, <2>4 DEF BudgetInv, InFlight
<1>16. Unused'
  BY <1>4, <1>6, <1>7 DEF Unused, BudgetInv, CallIds, NoEntry
<1>17. CapHolds'
  <2> SUFFICES ASSUME Cap > 0, \A d \in CallIds : ledger'[d].usd <= ledger'[d].projected, NEW j \in Periods
               PROVE  Total(j, {"allow", "warn"})' < Cap
    BY DEF CapHolds, Periods, CallIds
  <2>1. \A d \in CallIds : ledger[d].usd <= ledger[d].projected
    <3> SUFFICES ASSUME NEW d \in CallIds PROVE ledger[d].usd <= ledger[d].projected
      OBVIOUS
    <3>1. CASE d # c
      BY <1>7, <3>1
    <3>2. CASE d = c
      <4>1. ledger[c].usd = usd /\ ledger[c].projected = usd /\ usd <= usd
        BY <1>3, <1>4
      <4> QED
        BY <3>2, <4>1
    <3> QED
      BY <3>1, <3>2
  <2>2. Total(j, {"allow", "warn"}) < Cap
    BY <2>1, BudgetNumbers DEF BudgetInv, CapHolds
  <2>3. a <= usd
    BY <1>6, <1>7
  <2>4. Total(j, {"allow", "warn"})' =
            Total(j, {"allow", "warn"}) + (IF j = k THEN a ELSE 0) - (IF j = k THEN usd ELSE 0)
    BY <1>4, <1>8
  <2>5. Total(j, {"allow", "warn"}) \in Nat
    BY <1>1, TotalType
  <2> QED
    BY <1>1, <1>4, <2>2, <2>3, <2>4, <2>5, BudgetNumbers
<1> QED
  BY <1>12, <1>14, <1>15, <1>16, <1>17 DEF BudgetInv

(* What leaves the ledger and the spend alone leaves the sums alone.        *)
LEMMA BudgetRests ==
    ASSUME BudgetInv, UNCHANGED <<spend, charged, ledger>>, period' \in Periods,
           pending' \in [Slots -> {0} \cup CallIds], calling' \in [Slots -> {0} \cup CallIds],
           \A s \in Slots : calling'[s] # 0 => calling'[s] = calling[s] /\ pending'[s] = pending[s]
    PROVE  BudgetInv'
<1>1. \A k, actions : Total(k, actions)' = Total(k, actions)
  BY DEF Total
<1>2. SpendIsLedger' /\ CapHolds'
  BY <1>1 DEF BudgetInv, SpendIsLedger, CapHolds, Periods, CallIds
<1>3. BudgetTypeOK' /\ Unused'
  BY DEF BudgetInv, BudgetTypeOK, Unused, Periods, CallIds, NoEntry
<1>4. InFlight'
  BY DEF BudgetInv, InFlight, Held, Periods
<1> QED
  BY <1>2, <1>3, <1>4 DEF BudgetInv

LEMMA BudgetStep == BudgetInv /\ [Next]_vars => BudgetInv'
<1> SUFFICES ASSUME BudgetInv, [Next]_vars PROVE BudgetInv'
  OBVIOUS
<1>0. /\ period \in Periods /\ pending \in [Slots -> {0} \cup CallIds]
      /\ calling \in [Slots -> {0} \cup CallIds]
  BY DEF BudgetInv, BudgetTypeOK
<1>1. ASSUME NEW s \in Slots, AfterWithoutUsage(s) PROVE BudgetInv'
  BY <1>0, <1>1, BudgetRests DEF AfterWithoutUsage
<1>2. ASSUME NEW s \in Slots, CallLost(s) PROVE BudgetInv'
  BY <1>0, <1>2, BudgetRests DEF CallLost
<1>3. CASE PeriodEnds
  <2>1. period' \in Periods
    BY <1>0, <1>3, BudgetAssumption DEF PeriodEnds, Periods
  <2> QED
    BY <1>0, <1>3, <2>1, BudgetRests DEF PeriodEnds
<1>4. CASE UNCHANGED vars
  BY <1>0, <1>4, BudgetRests DEF vars
<1> QED
  BY <1>1, <1>2, <1>3, <1>4, BudgetBefore, BudgetSettles DEF Next

(* The spend of a period is what its calls cost.                            *)
THEOREM SpendIsTheLedger == Spec => []SpendIsLedger
BY BudgetInit, BudgetStep, PTL DEF Spec, BudgetInv

(* The calls let through in one period stay below the cap, however the      *)
(* slots interleave, as long as none costs more than it was projected to.   *)
THEOREM CapIsHeld == Spec => []CapHolds
BY BudgetInit, BudgetStep, PTL DEF Spec, BudgetInv
-----------------------------------------------------------------------------
(* The configuration: every copy of the policy that a process holds or a    *)
(* request is about to cache or serve was stored, or stands for a document  *)
(* that was not there.                                                      *)
Served == {d \in ConfigDocs : d \in history \/ (d = DefaultConfig /\ None \in history)}

ThreadStates(served) ==
    {Resting}
        \cup [op : {"read"}, at : Processes, doc : served \cup {None}, fill : {FALSE}]
        \cup [op : {"read"}, at : Processes, doc : served, fill : {TRUE}]
        \cup [op : {"write"}, at : Processes, field : Fields, doc : ConfigDocs]

ConfigInv ==
    /\ stored \in ConfigDocs \cup {None, Damaged}
    /\ stored # Damaged => stored \in history
    /\ cached \in [Processes -> Served \cup {None}] /\ lastGood \in [Processes -> Served \cup {None}]
    /\ thread \in [Threads -> ThreadStates(Served)]

LEMMA ThreadShapes ==
    ASSUME NEW S, NEW r \in ThreadStates(S)
    PROVE  /\ r.op = "read" => /\ r.at \in Processes /\ r.doc \in S \cup {None} /\ r.fill \in BOOLEAN
                               /\ r.fill => r.doc \in S
           /\ r.op = "write" => r.at \in Processes /\ r.field \in Fields /\ r.doc \in ConfigDocs
<1>1. CASE r = Resting
  BY <1>1 DEF Resting
<1>2. CASE r \in [op : {"read"}, at : Processes, doc : S \cup {None}, fill : {FALSE}]
  BY <1>2
<1>3. CASE r \in [op : {"read"}, at : Processes, doc : S, fill : {TRUE}]
  BY <1>3
<1>4. CASE r \in [op : {"write"}, at : Processes, field : Fields, doc : ConfigDocs]
  BY <1>4
<1> QED
  BY <1>1, <1>2, <1>3, <1>4 DEF ThreadStates

LEMMA ConfigValues == DefaultConfig \in ConfigDocs /\ [f \in Fields |-> 1] \in ConfigDocs
BY DEF DefaultConfig, ConfigDocs

LEMMA ConfigStarts == ConfigInit => ConfigInv
<1> SUFFICES ASSUME ConfigInit PROVE ConfigInv
  OBVIOUS
<1>1. stored \in ConfigDocs \cup {None, Damaged} /\ stored \in history
  BY ConfigValues DEF ConfigInit
<1> QED
  BY <1>1 DEF ConfigInit, ConfigInv, ThreadStates

(* What get_platform_config answers.                                        *)
LEMMA AnsweredConfig ==
    ASSUME ConfigInv, NEW i \in Processes
    PROVE  /\ GetPlatformConfig(i) \in Served \cup {None}
           /\ Fills(i) => GetPlatformConfig(i) \in Served
<1>1. cached[i] \in Served \cup {None} /\ lastGood[i] \in Served \cup {None}
  BY DEF ConfigInv
<1>2. stored # Damaged /\ stored = None => DefaultConfig \in Served
  BY ConfigValues DEF ConfigInv, Served
<1>3. stored # Damaged /\ stored # None => stored \in Served
  BY DEF ConfigInv, Served
<1> QED
  BY <1>1, <1>2, <1>3 DEF GetPlatformConfig, Fills

(* Storing more documents only adds to what may be served.                  *)
LEMMA ServedGrows ==
    ASSUME ConfigInv, history \subseteq history',
           stored' \in ConfigDocs \cup {None, Damaged}, stored' # Damaged => stored' \in history',
           cached' \in [Processes -> Served' \cup {None}], lastGood' \in [Processes -> Served' \cup {None}],
           thread' \in [Threads -> ThreadStates(Served)]
    PROVE  ConfigInv'
<1>1. Served \subseteq Served'
  BY DEF Served, ConfigDocs, Fields, DefaultConfig
<1>2. ThreadStates(Served) \subseteq ThreadStates(Served')
  BY <1>1 DEF ThreadStates
<1>3. thread' \in [Threads -> ThreadStates(Served')]
  BY <1>2
<1>4. ThreadStates(Served') = ThreadStates(Served)'
  BY DEF ThreadStates, Resting, ConfigDocs, Fields
<1> QED
  BY <1>3, <1>4 DEF ConfigInv, ConfigDocs, Fields, Damaged

LEMMA CacheIsServed ==
    ASSUME ConfigInv, NEW i \in Processes, NEW d \in Served, CacheSet(i, d)
    PROVE  cached' \in [Processes -> Served \cup {None}] /\ lastGood' \in [Processes -> Served \cup {None}]
BY DEF CacheSet, ConfigInv

LEMMA ConfigKeeps ==
    ASSUME ConfigInv, [ConfigNext]_configVars
    PROVE  ConfigInv'
<1>0. /\ cached \in [Processes -> Served \cup {None}] /\ lastGood \in [Processes -> Served \cup {None}]
      /\ thread \in [Threads -> ThreadStates(Served)]
      /\ stored \in ConfigDocs \cup {None, Damaged} /\ (stored # Damaged => stored \in history)
  BY DEF ConfigInv
<1>1. ASSUME UNCHANGED <<stored, history>>,
             cached' \in [Processes -> Served \cup {None}], lastGood' \in [Processes -> Served \cup {None}],
             thread' \in [Threads -> ThreadStates(Served)]
      PROVE  ConfigInv'
  <2>1. Served' = Served
    BY <1>1 DEF Served, ConfigDocs, Fields, DefaultConfig
  <2> QED
    BY <1>0, <1>1, <2>1, ServedGrows
<1>2. Resting \in ThreadStates(Served)
  BY DEF ThreadStates
<1>3. ASSUME NEW t \in Threads, NEW i \in Processes, ReadConfig(t, i) PROVE ConfigInv'
  <2>1. PICK d : d = GetPlatformConfig(i)
    OBVIOUS
  <2>2. d \in Served \cup {None} /\ (Fills(i) => d \in Served)
    BY <2>1, AnsweredConfig
  <2>3. PICK r : r = [op |-> "read", at |-> i, doc |-> d, fill |-> Fills(i)]
    OBVIOUS
  <2>4. r \in ThreadStates(Served)
    <3>1. CASE Fills(i)
      <4>1. r = [op |-> "read", at |-> i, doc |-> d, fill |-> TRUE]
        BY <2>3, <3>1, Zenon DEF Fills
      <4> QED
        BY <2>2, <3>1, <4>1 DEF ThreadStates
    <3>2. CASE ~Fills(i)
      <4>1. r = [op |-> "read", at |-> i, doc |-> d, fill |-> FALSE]
        BY <2>3, <3>2, Zenon DEF Fills
      <4> QED
        BY <2>2, <4>1 DEF ThreadStates
    <3> QED
      BY <3>1, <3>2
  <2>5. thread' = [thread EXCEPT ![t] = r] /\ UNCHANGED <<stored, cached, lastGood, history>>
    BY <1>3, <2>1, <2>3 DEF ReadConfig
  <2> QED
    BY <1>0, <1>1, <2>4, <2>5
<1>4. ASSUME NEW t \in Threads, ServeConfig(t) PROVE ConfigInv'
  <2>1. thread' \in [Threads -> ThreadStates(Served)]
    BY <1>0, <1>2, <1>4 DEF ServeConfig
  <2>2. thread[t].at \in Processes /\ (thread[t].fill => thread[t].doc \in Served)
    BY <1>0, <1>4, ThreadShapes DEF ServeConfig
  <2>3. CASE thread[t].fill
    <3>1. thread[t].at \in Processes /\ thread[t].doc \in Served
      BY <2>2, <2>3
    <3>2. CacheSet(thread[t].at, thread[t].doc)
      BY <1>4, <2>3 DEF ServeConfig
    <3>3. cached' \in [Processes -> Served \cup {None}] /\ lastGood' \in [Processes -> Served \cup {None}]
      BY <3>1, <3>2, CacheIsServed
    <3> QED
      BY <1>1, <1>4, <2>1, <3>3 DEF ServeConfig
  <2>4. CASE ~thread[t].fill
    BY <1>0, <1>1, <1>4, <2>1, <2>4 DEF ServeConfig
  <2> QED
    BY <2>3, <2>4
<1>5. ASSUME NEW t \in Threads, NEW i \in Processes, NEW field \in Fields, NEW value \in 0..1,
             WriteConfig(t, i, field, value)
      PROVE  ConfigInv'
  <2>1. PICK d : d = GetPlatformConfig(i)
    OBVIOUS
  <2>2. d \in Served /\ d \in ConfigDocs
    BY <1>5, <2>1, AnsweredConfig DEF WriteConfig, Served
  <2>3. PICK r : r = [op |-> "write", at |-> i, field |-> field, doc |-> [d EXCEPT ![field] = value]]
    OBVIOUS
  <2>4. r \in ThreadStates(Served)
    BY <2>2, <2>3 DEF ThreadStates, ConfigDocs
  <2>5. thread' = [thread EXCEPT ![t] = r] /\ UNCHANGED <<stored, history>>
    BY <1>5, <2>1, <2>3 DEF WriteConfig
  <2>6. cached' \in [Processes -> Served \cup {None}] /\ lastGood' \in [Processes -> Served \cup {None}]
    BY <1>0, <1>5, <2>1, <2>2, CacheIsServed DEF WriteConfig
  <2> QED
    BY <1>0, <1>1, <2>4, <2>5, <2>6
<1>6. ASSUME NEW t \in Threads, UpdateConfig(t) PROVE ConfigInv'
  <2>1. thread[t].at \in Processes /\ thread[t].doc \in ConfigDocs
    BY <1>0, <1>6, ThreadShapes DEF UpdateConfig
  <2>2. thread' \in [Threads -> ThreadStates(Served)]
    BY <1>0, <1>2, <1>6 DEF UpdateConfig
  <2>3. CASE UNCHANGED <<stored, history, asked, cached, lastGood>>
    BY <1>0, <1>1, <2>2, <2>3
  <2>4. CASE /\ stored' = thread[t].doc /\ history' = history \cup {thread[t].doc}
             /\ CacheSet(thread[t].at, thread[t].doc)
    <3>1. PICK d : d = thread[t].doc
      OBVIOUS
    <3>2. d \in ConfigDocs /\ thread[t].at \in Processes /\ stored' = d /\ history' = history \cup {d}
      BY <2>1, <2>4, <3>1
    <3>3. d \in Served' /\ Served \subseteq Served'
      BY <3>2 DEF Served, ConfigDocs, Fields, DefaultConfig
    <3>4. cached' \in [Processes -> Served' \cup {None}] /\ lastGood' \in [Processes -> Served' \cup {None}]
      BY <1>0, <2>4, <3>1, <3>3 DEF CacheSet
    <3> QED
      BY <2>2, <3>2, <3>4, ServedGrows
  <2> QED
    BY <1>6, <2>3, <2>4 DEF UpdateConfig
<1>7. ASSUME NEW i \in Processes, CacheExpires(i) PROVE ConfigInv'
  BY <1>0, <1>1, <1>7 DEF CacheExpires
<1>8. ASSUME NEW i \in Processes, ProcessRestarts(i) PROVE ConfigInv'
  BY <1>0, <1>1, <1>2, <1>8 DEF ProcessRestarts
<1>9. CASE StoreFlips \/ UNCHANGED configVars
  BY <1>0, <1>1, <1>9 DEF StoreFlips, configVars
<1>10. CASE DocumentDamaged
  <2>1. Served' = Served
    BY <1>10 DEF DocumentDamaged, Served, ConfigDocs, Fields, DefaultConfig
  <2> QED
    BY <1>0, <1>10, <2>1, ServedGrows DEF DocumentDamaged
<1> QED
  BY <1>3, <1>4, <1>5, <1>6, <1>7, <1>8, <1>9, <1>10 DEF ConfigNext

LEMMA ConfigServes == ConfigInv => ConfigTypeOK /\ ServedWasStored
<1> SUFFICES ASSUME ConfigInv PROVE ConfigTypeOK /\ ServedWasStored
  OBVIOUS
<1>1. ConfigTypeOK
  BY DEF ConfigInv, ConfigTypeOK, Served
<1>2. ServedWasStored
  <2> SUFFICES ASSUME NEW t \in Threads, thread[t].op = "read", thread[t].doc # None
               PROVE  thread[t].doc \in Served
    BY DEF ServedWasStored, Served
  <2>1. thread[t] \in ThreadStates(Served)
    BY DEF ConfigInv
  <2> QED
    BY <2>1, ThreadShapes
<1> QED
  BY <1>1, <1>2
-----------------------------------------------------------------------------
(* Read-aloud: an object of the audio bucket is what its key asks for, what *)
(* was once written stays, and a request that was stored before it began    *)
(* never reaches the provider.                                              *)
AudioOf(key) ==
    SynthesisInput([text |-> key.text, provider |-> key.provider, voice |-> key.voice[1], lang |-> key.lang,
                    rate |-> key.rate, prompt |-> key.voice[2]])

SpeechSound(x, known, bucket) ==
    /\ DOMAIN x = {"at", "req", "audio", "known", "cost"}
    /\ x.at \in {"lookup", "calling", "writing", "answered", "refused", "failed", "browser"}
    /\ x.at \in {"writing", "answered"} => x.audio = SynthesisInput(x.req)
    /\ x.at \in {"lookup", "writing"} => bucket
    /\ x.known => x.req \in known /\ x.cost = 0 /\ x.at \notin {"calling", "writing"}

VoiceInv ==
    /\ \A o \in audioStore : o.audio = AudioOf(o.key)
    /\ \A r \in kept : StoredAt(CacheKey(r)) # {}
    /\ kept # {} => audioBucket
    /\ DOMAIN speech = Speakers
    /\ \A s \in Speakers : speech[s] # None => SpeechSound(speech[s], kept, audioBucket)

LEMMA KeyTellsAudio == \A r : AudioOf(CacheKey(r)) = SynthesisInput(r)
BY DEF AudioOf, CacheKey, SynthesisInput

LEMMA VoiceStarts == VoiceInit => VoiceInv
BY DEF VoiceInit, VoiceInv

(* One request moves on; what was kept stays.                               *)
LEMMA SpeechMoves ==
    ASSUME VoiceInv, NEW s \in Speakers, NEW x, speech' = [speech EXCEPT ![s] = x],
           SpeechSound(x, kept, audioBucket), UNCHANGED <<audioStore, kept, audioBucket>>
    PROVE  VoiceInv'
BY DEF VoiceInv, SpeechSound, StoredAt, CacheKey, AudioOf, SynthesisInput, NormalizeLang,
       DeriveLangFromVoice, Or

LEMMA SpokenStep ==
    ASSUME VoiceInv, [VoiceNext]_voiceVars
    PROVE  VoiceInv'
<1>0. ASSUME UNCHANGED <<audioBucket, audioStore, kept, speech>> PROVE VoiceInv'
  BY <1>0 DEF VoiceInv, SpeechSound, StoredAt, CacheKey, AudioOf, SynthesisInput, NormalizeLang,
              DeriveLangFromVoice, Or
<1>1. ASSUME NEW s \in Speakers, GetConfig(s) PROVE VoiceInv'
  BY <1>0, <1>1 DEF GetConfig
<1>2. ASSUME NEW p, EditPersona(p) PROVE VoiceInv'
  BY <1>0, <1>2 DEF EditPersona
<1>3. ASSUME NEW s \in Speakers, NEW text, NEW sends, Synthesize(s, text, sends) PROVE VoiceInv'
  <2>1. PICK req : req = SpokenRequest(s, text, sends)
    OBVIOUS
  <2>2. PICK at : at = IF ~ResolveVoice(persona).enabled THEN "refused"
                       ELSE IF req.provider = None THEN "failed"
                       ELSE IF req.provider = "browser" THEN "browser"
                       ELSE IF audioBucket THEN "lookup" ELSE "calling"
    OBVIOUS
  <2>3. PICK x : x = [at |-> at, req |-> req, audio |-> None, cost |-> 0, known |-> req \in kept]
    OBVIOUS
  <2>4. speech' = [speech EXCEPT ![s] = x] /\ UNCHANGED <<audioStore, kept, audioBucket>>
    BY <1>3, <2>1, <2>2, <2>3 DEF Synthesize
  <2>5. /\ DOMAIN x = {"at", "req", "audio", "known", "cost"} /\ x.at = at /\ x.req = req /\ x.cost = 0
    BY <2>3
  <2>6. x.known => req \in kept
    BY <2>3, Zenon
  <2>7. /\ at \in {"refused", "failed", "browser", "lookup", "calling"}
        /\ at = "lookup" => audioBucket
        /\ at = "calling" => ~audioBucket
    BY <2>2
  <2>8. SpeechSound(x, kept, audioBucket)
    BY <2>5, <2>6, <2>7 DEF SpeechSound, VoiceInv
  <2> QED
    BY <2>4, <2>8, SpeechMoves
<1>4. ASSUME NEW s \in Speakers, LookupSync(s) PROVE VoiceInv'
  <2> DEFINE y == speech[s]
  <2>1. SpeechSound(y, kept, audioBucket) /\ y.at = "lookup"
    BY <1>4 DEF LookupSync, VoiceInv
  <2>2. UNCHANGED <<audioStore, kept, audioBucket>>
    BY <1>4 DEF LookupSync
  <2>3. CASE \E o \in StoredAt(CacheKey(y.req)) :
                 speech' = [speech EXCEPT ![s].at = "answered", ![s].audio = o.audio]
    <3>1. PICK o \in StoredAt(CacheKey(y.req)) :
                 speech' = [speech EXCEPT ![s].at = "answered", ![s].audio = o.audio]
      BY <2>3
    <3>2. o.audio = SynthesisInput(y.req)
      BY KeyTellsAudio DEF VoiceInv, StoredAt
    <3>3. PICK x : x = [y EXCEPT !.at = "answered", !.audio = o.audio]
      OBVIOUS
    <3>4. speech' = [speech EXCEPT ![s] = x]
      BY <3>1, <3>3 DEF VoiceInv
    <3>5. /\ DOMAIN x = {"at", "req", "audio", "known", "cost"} /\ x.at = "answered" /\ x.req = y.req
          /\ x.cost = y.cost /\ x.known = y.known /\ x.audio = o.audio
      BY <2>1, <3>3 DEF SpeechSound
    <3>6. SpeechSound(x, kept, audioBucket)
      BY <2>1, <3>2, <3>5 DEF SpeechSound
    <3> QED
      BY <2>2, <3>4, <3>6, SpeechMoves
  <2>4. CASE StoredAt(CacheKey(y.req)) = {} /\ speech' = [speech EXCEPT ![s].at = "calling"]
    <3>3. PICK x : x = [y EXCEPT !.at = "calling"]
      OBVIOUS
    <3>4. speech' = [speech EXCEPT ![s] = x]
      BY <2>4, <3>3 DEF VoiceInv
    <3>5. /\ DOMAIN x = {"at", "req", "audio", "known", "cost"} /\ x.at = "calling" /\ x.req = y.req
          /\ x.known = y.known
      BY <2>1, <3>3 DEF SpeechSound
    <3>6. ~y.known
      BY <2>1, <2>4 DEF SpeechSound, VoiceInv
    <3>7. SpeechSound(x, kept, audioBucket)
      BY <3>5, <3>6 DEF SpeechSound
    <3> QED
      BY <2>2, <3>4, <3>7, SpeechMoves
  <2>5. CASE speech' = [speech EXCEPT ![s].at = "failed"]
    <3>3. PICK x : x = [y EXCEPT !.at = "failed"]
      OBVIOUS
    <3>4. speech' = [speech EXCEPT ![s] = x]
      BY <2>5, <3>3 DEF VoiceInv
    <3>5. /\ DOMAIN x = {"at", "req", "audio", "known", "cost"} /\ x.at = "failed" /\ x.req = y.req
          /\ x.known = y.known /\ x.cost = y.cost
      BY <2>1, <3>3 DEF SpeechSound
    <3>6. SpeechSound(x, kept, audioBucket)
      BY <2>1, <3>5 DEF SpeechSound
    <3> QED
      BY <2>2, <3>4, <3>6, SpeechMoves
  <2> QED
    BY <1>4, <2>3, <2>4, <2>5 DEF LookupSync
<1>5. ASSUME NEW s \in Speakers, ProviderSynthesizes(s) PROVE VoiceInv'
  <2> DEFINE y == speech[s]
  <2>1. SpeechSound(y, kept, audioBucket) /\ y.at = "calling"
    BY <1>5 DEF ProviderSynthesizes, VoiceInv
  <2>2. UNCHANGED <<audioStore, kept, audioBucket>>
    BY <1>5 DEF ProviderSynthesizes
  <2>3. ~y.known
    BY <2>1 DEF SpeechSound
  <2>4. CASE speech' = [speech EXCEPT ![s].at = IF audioBucket THEN "writing" ELSE "answered",
                                      ![s].audio = SynthesisInput(y.req), ![s].cost = TtsCost(y.req.provider)]
    <3>1. PICK at : at = IF audioBucket THEN "writing" ELSE "answered"
      OBVIOUS
    <3>2. PICK x : x = [y EXCEPT !.at = at, !.audio = SynthesisInput(y.req), !.cost = TtsCost(y.req.provider)]
      OBVIOUS
    <3>3. speech' = [speech EXCEPT ![s] = x]
      BY <2>4, <3>1, <3>2 DEF VoiceInv
    <3>4. /\ DOMAIN x = {"at", "req", "audio", "known", "cost"} /\ x.at = at /\ x.req = y.req
          /\ x.known = y.known /\ x.audio = SynthesisInput(y.req)
      BY <2>1, <3>2 DEF SpeechSound
    <3>5. SpeechSound(x, kept, audioBucket)
      BY <2>3, <3>1, <3>4 DEF SpeechSound
    <3> QED
      BY <2>2, <3>3, <3>5, SpeechMoves
  <2>5. CASE speech' = [speech EXCEPT ![s].at = "failed"]
    <3>2. PICK x : x = [y EXCEPT !.at = "failed"]
      OBVIOUS
    <3>3. speech' = [speech EXCEPT ![s] = x]
      BY <2>5, <3>2 DEF VoiceInv
    <3>4. /\ DOMAIN x = {"at", "req", "audio", "known", "cost"} /\ x.at = "failed" /\ x.known = y.known
      BY <2>1, <3>2 DEF SpeechSound
    <3>5. SpeechSound(x, kept, audioBucket)
      BY <2>3, <3>4 DEF SpeechSound
    <3> QED
      BY <2>2, <3>3, <3>5, SpeechMoves
  <2> QED
    BY <1>5, <2>4, <2>5 DEF ProviderSynthesizes
<1>6. ASSUME NEW s \in Speakers, CacheWrite(s) PROVE VoiceInv'
  <2> DEFINE y == speech[s]
  <2>1. SpeechSound(y, kept, audioBucket) /\ y.at = "writing"
    BY <1>6 DEF CacheWrite, VoiceInv
  <2>2. PICK x : x = [y EXCEPT !.at = "answered"]
    OBVIOUS
  <2>3. speech' = [speech EXCEPT ![s] = x]
    BY <1>6, <2>2 DEF CacheWrite, VoiceInv
  <2>4. /\ DOMAIN x = {"at", "req", "audio", "known", "cost"} /\ x.at = "answered" /\ x.req = y.req
        /\ x.known = y.known /\ x.audio = SynthesisInput(y.req) /\ ~x.known
    BY <2>1, <2>2 DEF SpeechSound
  <2>5. CASE UNCHANGED <<audioStore, kept>>
    <3>1. SpeechSound(x, kept, audioBucket)
      BY <2>4 DEF SpeechSound
    <3> QED
      BY <1>6, <2>3, <2>5, <3>1, SpeechMoves DEF CacheWrite
  <2>6. CASE audioStore' = WriteSync(y.req, y.audio) /\ kept' = kept \cup {y.req}
    <3>1. PICK o : o = [key |-> CacheKey(y.req), audio |-> y.audio]
      OBVIOUS
    <3>2. o.key = CacheKey(y.req) /\ o.audio = AudioOf(o.key)
      BY <2>1, <3>1, KeyTellsAudio DEF SpeechSound
    <3>3. audioStore' = (audioStore \ StoredAt(CacheKey(y.req))) \cup {o}
      BY <2>6, <3>1 DEF WriteSync
    <3>4. \A q \in audioStore' : q.audio = AudioOf(q.key)
      BY <3>2, <3>3 DEF VoiceInv
    <3>5. \A r \in kept' : \E q \in audioStore' : q.key = CacheKey(r)
      <4> SUFFICES ASSUME NEW r \in kept' PROVE \E q \in audioStore' : q.key = CacheKey(r)
        OBVIOUS
      <4>1. CASE CacheKey(r) = CacheKey(y.req)
        BY <3>2, <3>3, <4>1
      <4>2. CASE CacheKey(r) # CacheKey(y.req)
        <5>1. r \in kept
          BY <2>6, <4>2
        <5>2. PICK q \in audioStore : q.key = CacheKey(r)
          BY <5>1 DEF VoiceInv, StoredAt
        <5> QED
          BY <3>3, <4>2, <5>2 DEF StoredAt
      <4> QED
        BY <4>1, <4>2
    <3>6. audioBucket' = audioBucket /\ audioBucket
      BY <1>6, <2>1 DEF CacheWrite, SpeechSound
    <3>7. \A t \in Speakers : speech'[t] # None => SpeechSound(speech'[t], kept', audioBucket)
      <4> SUFFICES ASSUME NEW t \in Speakers, speech'[t] # None
                   PROVE  SpeechSound(speech'[t], kept', audioBucket)
        OBVIOUS
      <4>1. CASE t = s
        BY <2>3, <2>4, <4>1 DEF SpeechSound, VoiceInv
      <4>2. CASE t # s
        <5>1. speech'[t] = speech[t]
          BY <2>3, <4>2 DEF VoiceInv
        <5>2. SpeechSound(speech[t], kept, audioBucket)
          BY <5>1 DEF VoiceInv
        <5> QED
          BY <2>6, <5>1, <5>2 DEF SpeechSound
      <4> QED
        BY <4>1, <4>2
    <3>8. \A r \in kept' : StoredAt(CacheKey(r))' # {}
      BY <3>5 DEF StoredAt, CacheKey
    <3> QED
      BY <2>3, <3>4, <3>6, <3>7, <3>8
      DEF VoiceInv, SpeechSound, StoredAt, CacheKey, AudioOf, SynthesisInput, NormalizeLang,
          DeriveLangFromVoice, Or
  <2> QED
    BY <1>6, <2>5, <2>6 DEF CacheWrite
<1> QED
  BY <1>0, <1>1, <1>2, <1>3, <1>4, <1>5, <1>6 DEF VoiceNext, voiceVars

LEMMA SpokenSound == VoiceInv => SpokenAsAsked /\ ReplayIsFree
BY DEF VoiceInv, SpeechSound, SpokenAsAsked, ReplayIsFree
-----------------------------------------------------------------------------
(* The registry: a recorded probe that passed was live in the configuration *)
(* of its fingerprint, which was taken before the probe was awaited.        *)
Prints == [provider : ProviderDocs, model : [provider : Providers, enabled : BOOLEAN, tools : BOOLEAN]]

WorkSound(x) ==
    /\ x.op = "delete provider" => x.id \in Providers
    /\ x.op = "upsert model" => x.id \in DynModels /\ x.doc \in ModelDocs
    /\ x.op \in {"delete model", "delete readiness", "root"} => x.id \in DynModels
    /\ x.op = "probe" => x.id \in DynModels /\ x.mode \in Modes /\ x.print \in Prints

RegistryTypes ==
    /\ providers \in [Providers -> ProviderDocs \cup {None}]
    /\ models \in [DynModels -> ModelDocs \cup {None}]
    /\ checks \in [DynModels -> [Modes -> Recorded \cup {None}]]
    /\ root \in {"smart"} \cup DynModels /\ rootSeen \in {"smart"} \cup DynModels
    /\ passed \in [Modes -> SUBSET Prints]
    /\ DOMAIN work = Workers /\ \A w \in Workers : WorkSound(work[w])

PassedIsLive ==
    \A m \in DynModels, mode \in Modes :
        (checks[m][mode] # None /\ checks[m][mode].ok) => checks[m][mode].print \in passed[mode]

RegistryInv == RegistryTypes /\ PassedIsLive

LEMMA RegistryStarts == RegistryInit => RegistryInv
<1> SUFFICES ASSUME RegistryInit PROVE RegistryInv
  OBVIOUS
<1>1. WorkSound(Idle)
  BY DEF WorkSound, Idle
<1>2. RegistryTypes
  BY <1>1 DEF RegistryInit, RegistryTypes
<1>3. PassedIsLive
  BY DEF RegistryInit, PassedIsLive
<1> QED
  BY <1>2, <1>3 DEF RegistryInv

(* A worker that takes up something else.                                   *)
LEMMA WorkMoves ==
    ASSUME RegistryInv, NEW w \in Workers, NEW x, work' = [work EXCEPT ![w] = x], WorkSound(x)
    PROVE  DOMAIN work' = Workers /\ \A v \in Workers : WorkSound(work'[v])
BY DEF RegistryInv, RegistryTypes, WorkSound

LEMMA WorkEnds ==
    ASSUME RegistryInv, NEW w \in Workers, End(w)
    PROVE  DOMAIN work' = Workers /\ \A v \in Workers : WorkSound(work'[v])
BY WorkMoves DEF End, WorkSound, Idle

(* The documents and the history of probes stay.                            *)
LEMMA RegistryKeeps ==
    ASSUME RegistryInv, UNCHANGED <<providers, models, checks, passed>>,
           root' \in {"smart"} \cup DynModels, rootSeen' \in {"smart"} \cup DynModels,
           DOMAIN work' = Workers /\ \A v \in Workers : WorkSound(work'[v])
    PROVE  RegistryInv'
<1>1. RegistryTypes'
  BY DEF RegistryInv, RegistryTypes, WorkSound, ProviderDocs, ModelDocs, Recorded, Modes, Prints
<1>2. PassedIsLive'
  BY DEF RegistryInv, PassedIsLive, Modes
<1> QED
  BY <1>1, <1>2 DEF RegistryInv

LEMMA RegistrySteps ==
    ASSUME RegistryInv, [RegistryNext]_registryVars
    PROVE  RegistryInv'
<1>0. /\ providers \in [Providers -> ProviderDocs \cup {None}] /\ models \in [DynModels -> ModelDocs \cup {None}]
      /\ checks \in [DynModels -> [Modes -> Recorded \cup {None}]]
      /\ root \in {"smart"} \cup DynModels /\ rootSeen \in {"smart"} \cup DynModels
      /\ passed \in [Modes -> SUBSET Prints]
      /\ DOMAIN work = Workers /\ \A w \in Workers : WorkSound(work[w])
  BY DEF RegistryInv, RegistryTypes
<1>1. ASSUME NEW w \in Workers, NEW x, Begin(w, x), WorkSound(x), UNCHANGED <<docVars, rootVars, passed>>
      PROVE  RegistryInv'
  BY <1>0, <1>1, RegistryKeeps, WorkMoves DEF Begin, docVars, rootVars
<1>2. ASSUME NEW w \in Workers, NEW p \in Providers, NEW doc \in ProviderBodies, UpsertProvider(w, p, doc)
      PROVE  RegistryInv'
  <2>1. providers' \in [Providers -> ProviderDocs \cup {None}]
    BY <1>0, <1>2, RegistryAssumption DEF UpsertProvider
  <2>2. RegistryTypes'
    BY <1>0, <1>2, <2>1 DEF UpsertProvider, RegistryTypes, WorkSound, ProviderDocs, ModelDocs, Recorded, Modes,
                            Prints, rootVars
  <2>3. PassedIsLive'
    BY <1>2 DEF UpsertProvider, RegistryInv, PassedIsLive, Modes
  <2> QED
    BY <2>2, <2>3 DEF RegistryInv
<1>3. ASSUME NEW w \in Workers, NEW p \in Providers, DeleteProvider(w, p) PROVE RegistryInv'
  <2>1. WorkSound([op |-> "delete provider", id |-> p])
    BY DEF WorkSound
  <2> QED
    BY <1>1, <1>3, <2>1 DEF DeleteProvider
<1>4. ASSUME NEW w \in Workers, NEW m \in DynModels, NEW doc \in ModelBodies, UpsertModel(w, m, doc)
      PROVE  RegistryInv'
  <2>1. WorkSound([op |-> "upsert model", id |-> m, doc |-> doc])
    BY RegistryAssumption DEF WorkSound
  <2> QED
    BY <1>1, <1>4, <2>1 DEF UpsertModel
<1>5. ASSUME NEW w \in Workers, NEW m \in DynModels, DeleteModel(w, m) PROVE RegistryInv'
  <2>1. WorkSound([op |-> "delete model", id |-> m])
    BY DEF WorkSound
  <2> QED
    BY <1>1, <1>5, <2>1 DEF DeleteModel
<1>6. ASSUME NEW w \in Workers, NEW d, NEW s, UpdateSettings(w, d, s) PROVE RegistryInv'
  <2>1. WorkSound([op |-> "settings", doc |-> [platformDefault |-> d, smart |-> s]])
    BY DEF WorkSound
  <2> QED
    BY <1>1, <1>6, <2>1 DEF UpdateSettings
<1>7. ASSUME NEW w \in Workers, CommitDocument(w) PROVE RegistryInv'
  <2>0. WorkSound(work[w]) /\ UNCHANGED <<root, rootSeen, passed>>
    BY <1>0, <1>7 DEF CommitDocument, rootVars
  <2>1. CASE /\ work[w].op = "delete provider" /\ providers' = [providers EXCEPT ![work[w].id] = None]
             /\ End(w) /\ UNCHANGED <<models, checks, settings>>
    <3>1. providers' \in [Providers -> ProviderDocs \cup {None}]
      BY <1>0, <2>1
    <3>2. DOMAIN work' = Workers /\ \A v \in Workers : WorkSound(work'[v])
      BY <2>1, WorkEnds
    <3>3. RegistryTypes'
      BY <1>0, <2>0, <2>1, <3>1, <3>2 DEF RegistryTypes, WorkSound, ProviderDocs, ModelDocs, Recorded, Modes, Prints
    <3>4. PassedIsLive'
      BY <2>0, <2>1 DEF RegistryInv, PassedIsLive, Modes
    <3> QED
      BY <3>3, <3>4 DEF RegistryInv
  <2>2. CASE /\ work[w].op = "upsert model" /\ models' = [models EXCEPT ![work[w].id] = work[w].doc]
             /\ End(w) /\ UNCHANGED <<providers, checks, settings>>
    <3>1. models' \in [DynModels -> ModelDocs \cup {None}]
      BY <1>0, <2>0, <2>2 DEF WorkSound
    <3>2. DOMAIN work' = Workers /\ \A v \in Workers : WorkSound(work'[v])
      BY <2>2, WorkEnds
    <3>3. RegistryTypes'
      BY <1>0, <2>0, <2>2, <3>1, <3>2 DEF RegistryTypes, WorkSound, ProviderDocs, ModelDocs, Recorded, Modes, Prints
    <3>4. PassedIsLive'
      BY <2>0, <2>2 DEF RegistryInv, PassedIsLive, Modes
    <3> QED
      BY <3>3, <3>4 DEF RegistryInv
  <2>3. CASE /\ work[w].op = "delete model" /\ models' = [models EXCEPT ![work[w].id] = None]
             /\ work' = [work EXCEPT ![w] = [op |-> "delete readiness", id |-> work[w].id]]
             /\ UNCHANGED <<providers, checks, settings>>
    <3>1. models' \in [DynModels -> ModelDocs \cup {None}]
      BY <1>0, <2>3
    <3>2. DOMAIN work' = Workers /\ \A v \in Workers : WorkSound(work'[v])
      <4>1. PICK x : x = [op |-> "delete readiness", id |-> work[w].id]
        OBVIOUS
      <4>2. WorkSound(x)
        BY <2>0, <2>3, <4>1 DEF WorkSound
      <4> QED
        BY <2>3, <4>1, <4>2, WorkMoves
    <3>3. RegistryTypes'
      BY <1>0, <2>0, <2>3, <3>1, <3>2 DEF RegistryTypes, WorkSound, ProviderDocs, ModelDocs, Recorded, Modes, Prints
    <3>4. PassedIsLive'
      BY <2>0, <2>3 DEF RegistryInv, PassedIsLive, Modes
    <3> QED
      BY <3>3, <3>4 DEF RegistryInv
  <2>4. CASE /\ work[w].op = "delete readiness"
             /\ checks' = [checks EXCEPT ![work[w].id] = [mode \in Modes |-> None]]
             /\ End(w) /\ UNCHANGED <<providers, models, settings>>
    <3>1. checks' \in [DynModels -> [Modes -> Recorded \cup {None}]]
      BY <1>0, <2>4
    <3>2. DOMAIN work' = Workers /\ \A v \in Workers : WorkSound(work'[v])
      BY <2>4, WorkEnds
    <3>3. RegistryTypes'
      BY <1>0, <2>0, <2>4, <3>1, <3>2 DEF RegistryTypes, WorkSound, ProviderDocs, ModelDocs, Recorded, Modes, Prints
    <3>4. PassedIsLive'
      BY <1>0, <2>0, <2>4 DEF RegistryInv, PassedIsLive, Modes
    <3> QED
      BY <3>3, <3>4 DEF RegistryInv
  <2>5. CASE /\ work[w].op = "settings" /\ End(w) /\ UNCHANGED <<providers, models, checks>>
    BY <1>0, <2>0, <2>5, WorkEnds, RegistryKeeps
  <2> QED
    BY <1>7, <2>1, <2>2, <2>3, <2>4, <2>5 DEF CommitDocument
<1>8. ASSUME NEW w \in Workers, NEW m \in DynModels, NEW mode \in Modes, TestModel(w, m, mode)
      PROVE  RegistryInv'
  <2>1. PICK print : print = Fingerprint(models[m], providers[models[m].provider])
    OBVIOUS
  <2>2. models[m] \in ModelDocs /\ models[m].provider \in Providers
        /\ providers[models[m].provider] \in ProviderDocs
    BY <1>0, <1>8 DEF TestModel, ModelDocs
  <2>3. print \in Prints
    BY <2>1, <2>2 DEF Fingerprint, Prints, ModelDocs
  <2>4. WorkSound([op |-> "probe", id |-> m, mode |-> mode, print |-> print])
    BY <2>3 DEF WorkSound
  <2> QED
    BY <1>1, <1>8, <2>1, <2>4 DEF TestModel
<1>9. ASSUME NEW w \in Workers, NEW ok \in BOOLEAN, ProbeEnds(w, ok) PROVE RegistryInv'
  <2>1. PICK m \in DynModels : m = work[w].id
    BY <1>0, <1>9 DEF ProbeEnds, WorkSound
  <2>2. PICK mode \in Modes : mode = work[w].mode
    BY <1>0, <1>9 DEF ProbeEnds, WorkSound
  <2>3. PICK print \in Prints : print = work[w].print
    BY <1>0, <1>9 DEF ProbeEnds, WorkSound
  <2>4. PICK record : record = [ok |-> ok, fresh |-> TRUE, print |-> print]
    OBVIOUS
  <2>5. record \in Recorded /\ record.ok = ok /\ record.print = print
    BY <2>3, <2>4 DEF Recorded, Prints
  <2>6. checks' = [checks EXCEPT ![m][mode] = record]
    BY <1>9, <2>1, <2>2, <2>3, <2>4 DEF ProbeEnds
  <2>7. /\ checks' \in [DynModels -> [Modes -> Recorded \cup {None}]] /\ checks'[m][mode] = record
        /\ \A n \in DynModels, k \in Modes : (n # m \/ k # mode) => checks'[n][k] = checks[n][k]
    BY <1>0, <2>5, <2>6
  <2>8. /\ passed' \in [Modes -> SUBSET Prints] /\ \A k \in Modes : passed[k] \subseteq passed'[k]
        /\ ok => print \in passed'[mode]
    BY <1>0, <1>9, <2>2, <2>3 DEF ProbeEnds
  <2>9. DOMAIN work' = Workers /\ \A v \in Workers : WorkSound(work'[v])
    BY <1>9, WorkEnds DEF ProbeEnds
  <2>10. UNCHANGED <<providers, models, root, rootSeen>>
    BY <1>9 DEF ProbeEnds, rootVars
  <2>11. RegistryTypes'
    BY <1>0, <2>7, <2>8, <2>9, <2>10 DEF RegistryTypes, WorkSound, ProviderDocs, ModelDocs, Recorded, Modes, Prints
  <2>12. PassedIsLive'
    <3> SUFFICES ASSUME NEW n \in DynModels, NEW k \in Modes, checks'[n][k] # None, checks'[n][k].ok
                 PROVE  checks'[n][k].print \in passed'[k]
      BY DEF PassedIsLive, Modes
    <3>1. CASE n = m /\ k = mode
      BY <2>5, <2>7, <2>8, <3>1
    <3>2. CASE n # m \/ k # mode
      BY <2>7, <2>8, <3>2 DEF RegistryInv, PassedIsLive
    <3> QED
      BY <3>1, <3>2
  <2> QED
    BY <2>11, <2>12 DEF RegistryInv
<1>10. ASSUME NEW m \in DynModels, ProbeAges(m) PROVE RegistryInv'
  <2> DEFINE aged(mode) == IF checks[m][mode] = None THEN None ELSE [checks[m][mode] EXCEPT !.fresh = FALSE]
  <2>1. \A mode \in Modes : /\ aged(mode) \in Recorded \cup {None}
                            /\ checks[m][mode] = None => aged(mode) = None
                            /\ checks[m][mode] # None => /\ aged(mode).ok = checks[m][mode].ok
                                                         /\ aged(mode).print = checks[m][mode].print
    <3> SUFFICES ASSUME NEW mode \in Modes
                 PROVE  /\ aged(mode) \in Recorded \cup {None}
                        /\ checks[m][mode] = None => aged(mode) = None
                        /\ checks[m][mode] # None => /\ aged(mode).ok = checks[m][mode].ok
                                                     /\ aged(mode).print = checks[m][mode].print
      OBVIOUS
    <3>1. PICK c : c = checks[m][mode]
      OBVIOUS
    <3>2. CASE c = None
      BY <3>1, <3>2
    <3>3. CASE c # None
      <4>1. c \in Recorded
        BY <1>0, <3>1, <3>3
      <4>2. PICK d : d = [c EXCEPT !.fresh = FALSE]
        OBVIOUS
      <4>3. d \in Recorded /\ d.ok = c.ok /\ d.print = c.print
        BY <4>1, <4>2 DEF Recorded
      <4>4. aged(mode) = d
        BY <3>1, <3>3, <4>2
      <4> HIDE DEF aged
      <4> QED
        BY <3>1, <3>3, <4>3, <4>4
    <3> QED
      BY <3>2, <3>3
  <2>2. checks' = [checks EXCEPT ![m] = [mode \in Modes |-> aged(mode)]]
    BY <1>10 DEF ProbeAges
  <2> HIDE DEF aged
  <2>3. checks' \in [DynModels -> [Modes -> Recorded \cup {None}]]
    BY <1>0, <2>1, <2>2
  <2>4. UNCHANGED <<providers, models, passed, root, rootSeen, work>>
    BY <1>10 DEF ProbeAges, rootVars
  <2>5. RegistryTypes'
    BY <1>0, <2>3, <2>4 DEF RegistryTypes, WorkSound, ProviderDocs, ModelDocs, Recorded, Modes, Prints
  <2>6. PassedIsLive'
    <3> SUFFICES ASSUME NEW n \in DynModels, NEW k \in Modes, checks'[n][k] # None, checks'[n][k].ok
                 PROVE  checks'[n][k].print \in passed[k]
      BY <2>4 DEF PassedIsLive, Modes
    <3>1. CASE n = m
      BY <1>0, <2>1, <2>2, <3>1 DEF RegistryInv, PassedIsLive
    <3>2. CASE n # m
      BY <1>0, <2>2, <3>2 DEF RegistryInv, PassedIsLive
    <3> QED
      BY <3>1, <3>2
  <2> QED
    BY <2>5, <2>6 DEF RegistryInv
<1>11. ASSUME NEW w \in Workers, NEW m \in DynModels, UseRootModel(w, m) PROVE RegistryInv'
  <2>1. WorkSound([op |-> "root", id |-> m])
    BY DEF WorkSound
  <2> QED
    BY <1>1, <1>11, <2>1 DEF UseRootModel
<1>12. ASSUME NEW w \in Workers, RootWritten(w) PROVE RegistryInv'
  <2>1. root' \in {"smart"} \cup DynModels /\ rootSeen' \in {"smart"} \cup DynModels
    BY <1>0, <1>12 DEF RootWritten, WorkSound
  <2> QED
    BY <1>12, <2>1, WorkEnds, RegistryKeeps DEF RootWritten, docVars
<1>13. CASE RootRefreshed \/ UNCHANGED registryVars
  BY <1>0, <1>13, RegistryKeeps DEF RootRefreshed, registryVars, docVars
<1>14. ASSUME NEW w \in Workers, NEW ref, NEW link, BuildGate(w, ref, link) PROVE RegistryInv'
  <2>1. PICK x : x = [op |-> "build", ref |-> ref, link |-> link, from |-> ResidencyOf(ref)]
    OBVIOUS
  <2>2. WorkSound(x)
    BY <2>1 DEF WorkSound
  <2> QED
    BY <1>1, <1>14, <2>1, <2>2 DEF BuildGate
<1>15. ASSUME NEW w \in Workers, BuildPrimary(w) PROVE RegistryInv'
  <2>1. PICK x : /\ work' = [work EXCEPT ![w] = x]
                 /\ \/ x = Idle
                    \/ x = [op |-> "link", link |-> work[w].link, from |-> work[w].from,
                            chain |-> {ResidencyOf(work[w].ref)}]
    BY <1>15 DEF BuildPrimary
  <2>3. x.op \in {"idle", "link"}
    <3>1. CASE x = Idle
      BY <3>1 DEF Idle
    <3>2. CASE x # Idle
      BY <2>1, <3>2
    <3> QED
      BY <3>1, <3>2
  <2>2. WorkSound(x)
    BY <2>3 DEF WorkSound
  <2> QED
    BY <1>0, <1>15, <2>1, <2>2, WorkMoves, RegistryKeeps DEF BuildPrimary, docVars, rootVars
<1>16. ASSUME NEW w \in Workers, BuildLink(w) PROVE RegistryInv'
  <2>1. PICK x, chain : /\ work' = [work EXCEPT ![w] = x]
                        /\ x = Idle \/ x = [op |-> "built", from |-> work[w].from, chain |-> chain]
    BY <1>16 DEF BuildLink
  <2>3. x.op \in {"idle", "built"}
    <3>1. CASE x = Idle
      BY <3>1 DEF Idle
    <3>2. CASE x # Idle
      BY <2>1, <3>2
    <3> QED
      BY <3>1, <3>2
  <2>2. WorkSound(x)
    BY <2>3 DEF WorkSound
  <2> QED
    BY <1>0, <1>16, <2>1, <2>2, WorkMoves, RegistryKeeps DEF BuildLink, docVars, rootVars
<1>17. ASSUME NEW w \in Workers, BuildDone(w) PROVE RegistryInv'
  BY <1>0, <1>17, WorkEnds, RegistryKeeps DEF BuildDone, docVars, rootVars
<1> QED
  BY <1>2, <1>3, <1>4, <1>5, <1>6, <1>7, <1>8, <1>9, <1>10, <1>11, <1>12, <1>13, <1>14, <1>15, <1>16, <1>17
  DEF RegistryNext

LEMMA RegistrySound == RegistryInv => RegistryTypeOK /\ ReadyIsTested
<1> SUFFICES ASSUME RegistryInv PROVE RegistryTypeOK /\ ReadyIsTested
  OBVIOUS
<1>1. RegistryTypeOK
  BY DEF RegistryInv, RegistryTypes, RegistryTypeOK
<1>2. ReadyIsTested
  <2> SUFFICES ASSUME NEW m \in DynModels, Ready(m), NEW mode \in Modes
               PROVE  Fingerprint(models[m], providers[models[m].provider]) \in passed[mode]
    BY DEF ReadyIsTested
  <2>1. /\ checks[m][mode] # None /\ checks[m][mode].ok
        /\ checks[m][mode].print = Fingerprint(models[m], providers[models[m].provider])
    BY DEF Ready
  <2> QED
    BY <2>1 DEF RegistryInv, PassedIsLive
<1> QED
  BY <1>1, <1>2
-----------------------------------------------------------------------------
(* The resilient call: what a call has shown it showed in the attempt it is *)
(* at, and it is only ever moved to another attempt before it shows any.    *)
LlmTypes ==
    /\ stage \in [LlmCalls -> {"new", "calling", "backoff", "done", "failed", "gone"}]
    /\ DOMAIN member = LlmCalls /\ DOMAIN attempt = LlmCalls
    /\ \A c \in LlmCalls : member[c] \in 1..Length(c) /\ attempt[c] \in 0..MaxRetries
    /\ visible \in [LlmCalls -> BOOLEAN] /\ benched \in [LlmProviders -> BOOLEAN]
    /\ failures \in [LlmProviders -> Nat]
    /\ DOMAIN answers = LlmCalls /\ DOMAIN raised = LlmCalls

CallSound(c) ==
    /\ answers[c] = {} \/ answers[c] = {<<member[c], attempt[c]>>}
    /\ c \in ToolCalls => ~visible[c]
    /\ visible[c] => answers[c] # {}
    /\ stage[c] = "new" \/ (stage[c] \in {"calling", "backoff"} /\ ~visible[c]) => answers[c] = {}
    /\ stage[c] = "failed" =>
        /\ raised[c] # NoClass
        /\ (answers[c] = {} /\ raised[c].fallbackable) => member[c] = Length(c)

LlmInv == LlmTypes /\ \A c \in LlmCalls : CallSound(c)

LEMMA ChainHasMembers == \A c : Length(c) \in Nat \ {0}
BY LlmAssumption DEF Length

(* classify gives every exception a class, never the absent one.            *)
LEMMA EveryErrorHasClass ==
    ASSUME NEW exc \in Exceptions
    PROVE  /\ Classify(exc) # NoClass
           /\ Classify(exc).transient \in BOOLEAN /\ Classify(exc).fallbackable \in BOOLEAN
<1>1. \A kind \in Kinds \ {"opaque"} : /\ ClassifyStatus(kind).code # "none"
                                         /\ ClassifyStatus(kind).transient \in BOOLEAN
                                         /\ ClassifyStatus(kind).fallbackable \in BOOLEAN
  BY DEF Kinds, ClassifyStatus
<1> DEFINE known == {i \in DOMAIN exc : exc[i] # "opaque"}
<1>2. CASE known = {}
  BY <1>2 DEF Classify, NoClass
<1>3. CASE known # {}
  <2>1. known \in SUBSET Nat /\ \A i \in known : exc[i] \in Kinds \ {"opaque"}
    BY DEF Exceptions
  <2>2. \E i \in known : \A j \in known : i <= j
    <3> HIDE DEF known
    <3> QED
      BY <1>3, <2>1, NatLeast
  <2>3. PICK i \in known : i = CHOOSE k \in known : \A j \in known : k <= j
    BY <2>2
  <2>4. Classify(exc) = ClassifyStatus(exc[i])
    BY <1>3, <2>3 DEF Classify
  <2>5. exc[i] \in Kinds \ {"opaque"}
    BY <2>1, <2>3
  <2> QED
    BY <1>1, <2>4, <2>5 DEF NoClass
<1> QED
  BY <1>2, <1>3

(* The walk down the chain lands on a member, whatever is benched.          *)
LEMMA WalkLands ==
    ASSUME NEW c \in LlmCalls, NEW from \in 1..Length(c), NEW bench
    PROVE  Landing(c, from, bench) \in from..Length(c)
<1>0. Length(c) \in Nat
  BY ChainHasMembers
<1>1. CASE c \in ToolCalls
  BY <1>0, <1>1 DEF Landing
<1>2. CASE c \notin ToolCalls
  <2> DEFINE open == {i \in from..Length(c) : i = Length(c) \/ ~bench[ChainProviders[i]]}
  <2>1. open \in SUBSET Nat /\ open # {} /\ open \subseteq from..Length(c)
    BY <1>0
  <2>2. Landing(c, from, bench) = CHOOSE i \in open : \A j \in open : i <= j
    BY <1>2 DEF Landing
  <2> HIDE DEF open
  <2>3. \E i \in open : \A j \in open : i <= j
    BY <2>1, NatLeast
  <2> QED
    BY <2>1, <2>2, <2>3
<1> QED
  BY <1>1, <1>2

LEMMA CallLands ==
    ASSUME LlmInv, NEW c \in LlmCalls, NEW from \in 1..Length(c), NEW bench, NEW class,
           CallFrom(c, from, bench, class), answers[c] = {}, answers' = answers,
           failures' \in [LlmProviders -> Nat], benched' \in [LlmProviders -> BOOLEAN]
    PROVE  LlmInv'
<1>1. PICK i \in 1..Length(c) : i = Landing(c, from, bench)
  BY WalkLands, ChainHasMembers
<1>2. /\ attempt' = [attempt EXCEPT ![c] = 0] /\ visible' = [visible EXCEPT ![c] = FALSE]
      /\ member' = [member EXCEPT ![c] = i] /\ stage' = [stage EXCEPT ![c] = "calling"]
      /\ raised' = raised
  BY <1>1, ChainHasMembers DEF CallFrom
<1>3. LlmTypes'
  BY <1>1, <1>2, LlmAssumption DEF LlmInv, LlmTypes, LlmCalls, LlmProviders, Length
<1>4. ASSUME NEW d \in LlmCalls PROVE CallSound(d)'
  BY <1>2 DEF LlmInv, LlmTypes, CallSound, Length, NoClass
<1> QED
  BY <1>3, <1>4 DEF LlmInv, LlmCalls

LEMMA LlmStarts == LlmInit => LlmInv
BY ChainHasMembers, LlmAssumption DEF LlmInit, LlmInv, LlmTypes, CallSound

LEMMA HealthIsRecorded ==
    ASSUME LlmInv, NEW c \in LlmCalls, RecordFailure(c) \/ RecordSuccess(c)
    PROVE  failures' \in [LlmProviders -> Nat] /\ benched' \in [LlmProviders -> BOOLEAN]
<1>1. c \notin ToolCalls => ProviderOf(c) \in LlmProviders
  BY DEF LlmInv, LlmTypes, ProviderOf, LlmProviders, LlmCalls, Length
<1>2. failures \in [LlmProviders -> Nat] /\ benched \in [LlmProviders -> BOOLEAN]
  BY DEF LlmInv, LlmTypes
<1>3. CASE c \in ToolCalls
  BY <1>2, <1>3 DEF RecordFailure, RecordSuccess
<1>4. CASE c \notin ToolCalls /\ RecordFailure(c)
  <2>1. PICK p \in LlmProviders : p = ProviderOf(c)
    BY <1>1, <1>4
  <2>2. PICK b \in BOOLEAN : b = (benched[p] \/ failures[p] + 1 >= Threshold)
    BY <1>2
  <2>3. failures' = [failures EXCEPT ![p] = @ + 1]
    BY <1>4, <2>1 DEF RecordFailure
  <2>4. benched' = [benched EXCEPT ![p] = b]
    BY <1>4, <2>1, <2>2, Zenon DEF RecordFailure
  <2> QED
    BY <1>2, <2>3, <2>4
<1>5. CASE c \notin ToolCalls /\ RecordSuccess(c)
  <2>1. PICK p \in LlmProviders : p = ProviderOf(c)
    BY <1>1, <1>5
  <2>2. failures' = [failures EXCEPT ![p] = 0] /\ benched' = [benched EXCEPT ![p] = FALSE]
    BY <1>5, <2>1 DEF RecordSuccess
  <2> QED
    BY <1>2, <2>2
<1>6. RecordFailure(c) \/ RecordSuccess(c)
  OBVIOUS
<1> QED
  BY <1>3, <1>4, <1>5, <1>6, Zenon

LEMMA CallGivesUp ==
    ASSUME LlmInv, NEW c \in LlmCalls, NEW class, GiveUp(c, class), answers' = answers, class # NoClass,
           (answers[c] = {} /\ class.fallbackable) => member[c] = Length(c),
           failures' \in [LlmProviders -> Nat], benched' \in [LlmProviders -> BOOLEAN]
    PROVE  LlmInv'
<1>1. LlmTypes'
  BY DEF LlmInv, LlmTypes, GiveUp, LlmCalls, LlmProviders, Length
<1>2. ASSUME NEW d \in LlmCalls PROVE CallSound(d)'
  BY DEF LlmInv, LlmTypes, CallSound, GiveUp, Length, NoClass
<1> QED
  BY <1>1, <1>2 DEF LlmInv, LlmCalls

LEMMA CallFails ==
    ASSUME LlmInv, NEW c \in LlmCalls, NEW exc \in Exceptions, CallRaises(c, exc)
    PROVE  LlmInv'
<1>1. PICK class : class = Classify(exc)
  OBVIOUS
<1>2. /\ class # NoClass /\ class.transient \in BOOLEAN /\ class.fallbackable \in BOOLEAN
  BY <1>1, EveryErrorHasClass
<1>3. stage[c] = "calling" /\ OnError(c, class) /\ answers' = answers
  BY <1>1 DEF CallRaises
<1>4. CallSound(c) /\ member[c] \in 1..Length(c) /\ attempt[c] \in 0..MaxRetries
  BY DEF LlmInv, LlmTypes
<1>5. CASE visible[c]
  <2>1. RecordFailure(c) /\ GiveUp(c, class)
    BY <1>3, <1>5 DEF OnError
  <2> QED
    BY <1>2, <1>3, <1>4, <2>1, <1>5, HealthIsRecorded, CallGivesUp DEF CallSound
<1>6. CASE ~visible[c] /\ class.transient /\ attempt[c] < MaxRetries
  <2>1. Retry(c)
    BY <1>3, <1>6 DEF OnError
  <2>2. LlmTypes'
    <3>1. attempt[c] + 1 \in 0..MaxRetries
      BY <1>4, <1>6, LlmAssumption
    <3>2. \A d \in LlmCalls : member'[d] \in 1..Length(d) /\ attempt'[d] \in 0..MaxRetries
      BY <2>1, <3>1 DEF LlmInv, LlmTypes, Retry
    <3>3. stage' \in [LlmCalls -> {"new", "calling", "backoff", "done", "failed", "gone"}]
      BY <2>1 DEF LlmInv, LlmTypes, Retry
    <3>4. visible' \in [LlmCalls -> BOOLEAN] /\ DOMAIN attempt' = LlmCalls
      BY <2>1 DEF LlmInv, LlmTypes, Retry
    <3>5. UNCHANGED <<member, failures, benched, answers, raised>>
      BY <1>3, <2>1 DEF Retry
    <3> QED
      BY <3>2, <3>3, <3>4, <3>5 DEF LlmInv, LlmTypes, LlmCalls, LlmProviders, Length
  <2>3. ASSUME NEW d \in LlmCalls PROVE CallSound(d)'
    BY <1>3, <1>4, <1>6, <2>1 DEF LlmInv, LlmTypes, CallSound, Retry, Length, NoClass
  <2> QED
    BY <2>2, <2>3 DEF LlmInv, LlmCalls
<1>7. CASE ~visible[c] /\ ~(class.transient /\ attempt[c] < MaxRetries)
              /\ class.fallbackable /\ member[c] < Length(c)
  <2>1. PICK b : b = benched'
    OBVIOUS
  <2>2. RecordFailure(c) /\ CallFrom(c, member[c] + 1, b, class)
    BY <1>3, <1>7, <2>1 DEF OnError
  <2>3. member[c] + 1 \in 1..Length(c)
    BY <1>4, <1>7, ChainHasMembers
  <2>4. answers[c] = {}
    BY <1>3, <1>4, <1>7 DEF CallSound
  <2> QED
    BY <1>3, <2>2, <2>3, <2>4, HealthIsRecorded, CallLands
<1>8. CASE ~visible[c] /\ ~(class.transient /\ attempt[c] < MaxRetries)
              /\ ~(class.fallbackable /\ member[c] < Length(c))
  <2>1. GiveUp(c, class)
    BY <1>3, <1>8 DEF OnError
  <2>2. failures' \in [LlmProviders -> Nat] /\ benched' \in [LlmProviders -> BOOLEAN]
    <3>1. CASE class.fallbackable
      BY <1>3, <1>8, <3>1, HealthIsRecorded DEF OnError
    <3>2. CASE ~class.fallbackable
      BY <1>3, <1>8, <3>2 DEF OnError, LlmInv, LlmTypes
    <3> QED
      BY <3>1, <3>2
  <2>3. class.fallbackable => member[c] = Length(c)
    BY <1>4, <1>8, ChainHasMembers
  <2> QED
    BY <1>2, <1>3, <2>1, <2>2, <2>3, CallGivesUp
<1> QED
  BY <1>5, <1>6, <1>7, <1>8

LEMMA CallKeeps ==
    ASSUME LlmInv, [LlmNext]_llmVars
    PROVE  LlmInv'
<1>1. ASSUME NEW c \in LlmCalls, StartCall(c) PROVE LlmInv'
  <2>1. CallFrom(c, 1, benched, NoClass) /\ answers' = answers /\ failures' = failures /\ benched' = benched
    BY <1>1 DEF StartCall
  <2>2. answers[c] = {}
    BY <1>1 DEF LlmInv, LlmTypes, CallSound, StartCall
  <2> QED
    BY <2>1, <2>2, CallLands, ChainHasMembers DEF LlmInv, LlmTypes
<1>2. ASSUME NEW c \in LlmCalls, NEW v \in BOOLEAN, PassResponse(c, v) PROVE LlmInv'
  <2>1. PICK b \in BOOLEAN : b = (visible[c] \/ v)
    BY DEF LlmInv, LlmTypes
  <2>2. visible' = [visible EXCEPT ![c] = b]
    BY <1>2, <2>1, Zenon DEF PassResponse
  <2>3. /\ c \in AgentCalls /\ c \notin ToolCalls /\ stage[c] = "calling"
        /\ UNCHANGED <<stage, member, attempt, failures, benched, raised>>
    BY <1>2, LlmAssumption DEF PassResponse
  <2>4. DOMAIN answers = LlmCalls /\ CallSound(c)
    BY DEF LlmInv, LlmTypes
  <2>5. /\ DOMAIN answers' = LlmCalls
        /\ \A d \in LlmCalls : answers'[d] = IF d = c /\ v THEN {<<member[c], attempt[c]>>} ELSE answers[d]
    <3>1. CASE v
      <4>1. answers[c] \cup {<<member[c], attempt[c]>>} = {<<member[c], attempt[c]>>}
        BY <2>4 DEF CallSound
      <4>2. answers' = [answers EXCEPT ![c] = {<<member[c], attempt[c]>>}]
        BY <1>2, <3>1, <4>1 DEF PassResponse
      <4> QED
        BY <2>4, <3>1, <4>2
    <3>2. CASE ~v
      BY <1>2, <2>4, <3>2 DEF PassResponse
    <3> QED
      BY <3>1, <3>2
  <2>6. LlmTypes'
    BY <2>2, <2>3, <2>4, <2>5 DEF LlmInv, LlmTypes, LlmCalls, LlmProviders, Length
  <2>7. ASSUME NEW d \in LlmCalls PROVE CallSound(d)'
    <3>1. CASE v
      BY <2>1, <2>2, <2>3, <2>5, <3>1 DEF LlmInv, LlmTypes, CallSound, Length, NoClass
    <3>2. CASE ~v
      BY <2>1, <2>2, <2>3, <2>5, <3>2 DEF LlmInv, LlmTypes, CallSound, Length, NoClass
    <3> QED
      BY <3>1, <3>2
  <2> QED
    BY <2>6, <2>7 DEF LlmInv, LlmCalls
<1>3. ASSUME NEW c \in LlmCalls, CallSucceeds(c) PROVE LlmInv'
  <2>1. failures' \in [LlmProviders -> Nat] /\ benched' \in [LlmProviders -> BOOLEAN]
    BY <1>3, HealthIsRecorded DEF CallSucceeds
  <2>2. LlmTypes'
    BY <1>3, <2>1 DEF CallSucceeds, LlmInv, LlmTypes, LlmCalls, LlmProviders, Length
  <2>3. ASSUME NEW d \in LlmCalls PROVE CallSound(d)'
    BY <1>3 DEF CallSucceeds, LlmInv, LlmTypes, CallSound, Length, NoClass
  <2> QED
    BY <2>2, <2>3 DEF LlmInv, LlmCalls
<1>4. ASSUME NEW c \in LlmCalls, BackoffEnds(c) \/ CallCancelled(c) PROVE LlmInv'
  <2>1. LlmTypes'
    BY <1>4 DEF BackoffEnds, CallCancelled, LlmInv, LlmTypes, LlmCalls, LlmProviders, Length
  <2>2. ASSUME NEW d \in LlmCalls PROVE CallSound(d)'
    BY <1>4 DEF BackoffEnds, CallCancelled, LlmInv, LlmTypes, CallSound, Length, NoClass
  <2> QED
    BY <2>1, <2>2 DEF LlmInv, LlmCalls
<1>5. ASSUME NEW p \in LlmProviders, CooldownEnds(p) PROVE LlmInv'
  BY <1>5 DEF CooldownEnds, LlmInv, LlmTypes, LlmCalls, LlmProviders, CallSound, Length, NoClass
<1>6. CASE UNCHANGED llmVars
  BY <1>6 DEF llmVars, LlmInv, LlmTypes, LlmCalls, LlmProviders, CallSound, Length, NoClass
<1> QED
  BY <1>1, <1>2, <1>3, <1>4, <1>5, <1>6, CallFails DEF LlmNext

LEMMA CallsAreSound == LlmInv => LlmTypeOK /\ AnsweredOnce /\ GaveUpForCause
<1> SUFFICES ASSUME LlmInv PROVE LlmTypeOK /\ AnsweredOnce /\ GaveUpForCause
  OBVIOUS
<1>1. LlmTypeOK /\ GaveUpForCause
  BY DEF LlmInv, LlmTypes, CallSound, LlmTypeOK, GaveUpForCause
<1>2. \A x : Cardinality({}) = 0 /\ Cardinality({x}) = 1
  BY FS_EmptySet, FS_Singleton
<1>3. ASSUME NEW c \in LlmCalls PROVE Cardinality(answers[c]) <= 1
  <2>1. CASE answers[c] = {}
    BY <1>2, <2>1
  <2>2. CASE answers[c] = {<<member[c], attempt[c]>>}
    <3>1. Cardinality(answers[c]) = 1
      BY <1>2, <2>2, Zenon
    <3> QED
      BY <3>1
  <2> QED
    BY <2>1, <2>2 DEF LlmInv, CallSound
<1> QED
  BY <1>1, <1>3 DEF AnsweredOnce

(* A call shows the output of one attempt only.                             *)
THEOREM OutputIsShownOnce == LlmSpec => []AnsweredOnce
<1>1. LlmInv /\ [LlmNext]_llmVars => LlmInv'
  BY CallKeeps
<1> QED
  BY <1>1, LlmStarts, CallsAreSound, PTL DEF LlmSpec

(* A call gives up for a cause of its own, never for others' failures.      *)
THEOREM GivesUpForCause == LlmSpec => []GaveUpForCause
<1>1. LlmInv /\ [LlmNext]_llmVars => LlmInv'
  BY CallKeeps
<1> QED
  BY <1>1, LlmStarts, CallsAreSound, PTL DEF LlmSpec
-----------------------------------------------------------------------------
(* Histories: what the sanitizer has made of the first n parts.             *)
IsWalk(h, s) ==
    /\ s[0] = Unsanitized
    /\ \A n \in 1..Len(h) : s[n] = SanitizePart(s[n - 1], h[n])

LEMMA WalkExists ==
    ASSUME NEW h \in Seq(Parts), NEW s,
           s = CHOOSE f : f = [n \in 0..Len(h) |->
                                 IF n = 0 THEN Unsanitized ELSE SanitizePart(f[n - 1], h[n])]
    PROVE  IsWalk(h, s)
<1> DEFINE step(f, n) == IF n = 0 THEN Unsanitized ELSE SanitizePart(f[n - 1], h[n])
           S == {k \in 0..Len(h) : \E f : f = [n \in 0..k |-> step(f, n)]}
<1>0. Len(h) \in Nat
  OBVIOUS
<1>1. 0 \in S
  <2> DEFINE f == [n \in 0..0 |-> Unsanitized]
  <2>1. \A n \in 0..0 : step(f, n) = Unsanitized
    OBVIOUS
  <2>2. f = [n \in 0..0 |-> step(f, n)]
    BY <2>1
  <2> HIDE DEF f
  <2> QED
    BY <1>0, <2>2
<1>2. ASSUME NEW k \in 1..Len(h), k - 1 \in S PROVE k \in S
  <2>1. PICK f : f = [n \in 0..(k - 1) |-> step(f, n)]
    BY <1>2
  <2> DEFINE g == [n \in 0..k |-> IF n = k THEN SanitizePart(f[k - 1], h[k]) ELSE f[n]]
  <2>2. \A n \in 0..k : g[n] = step(g, n)
    <3> SUFFICES ASSUME NEW n \in 0..k PROVE g[n] = step(g, n)
      OBVIOUS
    <3>1. CASE n = k
      <4>1. g[n - 1] = f[k - 1]
        BY <1>0, <3>1
      <4> QED
        BY <1>0, <3>1, <4>1
    <3>2. CASE n # k
      <4>1. n \in 0..(k - 1) /\ g[n] = f[n]
        BY <1>0, <3>2
      <4>2. n # 0 => g[n - 1] = f[n - 1]
        BY <1>0, <3>2
      <4>3. f[n] = step(f, n)
        BY <2>1, <4>1
      <4> QED
        BY <4>1, <4>2, <4>3
    <3> QED
      BY <3>1, <3>2
  <2>3. g = [n \in 0..k |-> step(g, n)]
    BY <2>2
  <2> HIDE DEF g
  <2> QED
    BY <2>3
<1>3. 0..Len(h) \subseteq S
  <2> HIDE DEF S
  <2> QED
    BY <1>0, <1>1, <1>2, UpTo
<1>4. s = [n \in 0..Len(h) |-> step(s, n)]
  <2>1. \E f : f = [n \in 0..Len(h) |-> step(f, n)]
    BY <1>0, <1>3
  <2> QED
    BY <2>1
<1>5. s[0] = Unsanitized
  BY <1>0, <1>4
<1>6. ASSUME NEW n \in 1..Len(h) PROVE s[n] = SanitizePart(s[n - 1], h[n])
  BY <1>0, <1>4
<1> QED
  BY <1>5, <1>6 DEF IsWalk

(* After n parts: every call kept has an identifier of its own, taken from  *)
(* the history or made up; what waits is a kept call without a response.    *)
Kept == [kind : {"call", "response", "text"}, name : ToolNames \cup {"none"}, id : Nat]

WalkTypes(x, n) ==
    /\ DOMAIN x = {"kept", "counter", "pending"}
    /\ x.kept \in Seq(Kept) /\ x.counter \in 0..n
    /\ x.pending \in [ToolNames -> Seq(Nat)]

CallsKept(K, h, n, counter) ==
    \A i \in CallsOf(K) :
        /\ K[i].id # 0 /\ K[i].id < Made(counter)
        /\ K[i].id <= MaxNative => \E k \in CallsOf(h) : k <= n /\ h[k].id = K[i].id
        /\ \A j \in CallsOf(K) : K[i].id = K[j].id => i = j

ResponsesKept(K) ==
    \A i \in ResponsesOf(K) :
        /\ \E j \in CallsOf(K) : j < i /\ K[j].id = K[i].id /\ K[j].name = K[i].name
        /\ \A j \in ResponsesOf(K) : K[i].id = K[j].id => i = j

Waits(w, K, name, a) ==
    /\ \E j \in CallsOf(K) : K[j].id = w[name][a] /\ K[j].name = name
    /\ \A i \in ResponsesOf(K) : K[i].id # w[name][a]
    /\ \A b \in 1..Len(w[name]) : w[name][a] = w[name][b] => a = b

Waiting(w, K) == \A name \in ToolNames : \A a \in 1..Len(w[name]) : Waits(w, K, name, a)

WalkSound(x, h, n) ==
    /\ WalkTypes(x, n) /\ CallsKept(x.kept, h, n, x.counter)
    /\ ResponsesKept(x.kept) /\ Waiting(x.pending, x.kept)

LEMMA WalkStarts == \A h : WalkSound(Unsanitized, h, 0)
BY DEF WalkSound, WalkTypes, CallsKept, ResponsesKept, Waiting, Unsanitized, CallsOf, ResponsesOf

(* K2 is K and one more part.                                               *)
Grown(K, p, K2) ==
    /\ K \in Seq(Kept) /\ K2 \in Seq(Kept) /\ Len(K) \in Nat /\ p \in Kept
    /\ \A i \in 1..Len(K) : K2[i] = K[i] /\ K[i] \in Kept
    /\ K2[Len(K) + 1] = p
    /\ CallsOf(K) \subseteq 1..Len(K) /\ ResponsesOf(K) \subseteq 1..Len(K)
    /\ CallsOf(K2) = CallsOf(K) \cup IF p.kind = "call" THEN {Len(K) + 1} ELSE {}
    /\ ResponsesOf(K2) = ResponsesOf(K) \cup IF p.kind = "response" THEN {Len(K) + 1} ELSE {}

LEMMA KeptGrows ==
    ASSUME NEW K \in Seq(Kept), NEW p \in Kept, NEW K2, K2 = Append(K, p)
    PROVE  Grown(K, p, K2)
<1>1. /\ K2 \in Seq(Kept) /\ Len(K) \in Nat /\ Len(K2) = Len(K) + 1
      /\ \A i \in 1..Len(K) : K2[i] = K[i] /\ K[i] \in Kept
      /\ K2[Len(K) + 1] = p
      /\ DOMAIN K = 1..Len(K) /\ DOMAIN K2 = 1..(Len(K) + 1)
  OBVIOUS
<1>2. CallsOf(K2) = CallsOf(K) \cup IF p.kind = "call" THEN {Len(K) + 1} ELSE {}
  BY <1>1 DEF CallsOf
<1>3. ResponsesOf(K2) = ResponsesOf(K) \cup IF p.kind = "response" THEN {Len(K) + 1} ELSE {}
  BY <1>1 DEF ResponsesOf
<1>4. CallsOf(K) \subseteq 1..Len(K) /\ ResponsesOf(K) \subseteq 1..Len(K)
  BY <1>1 DEF CallsOf, ResponsesOf
<1> QED
  BY <1>1, <1>2, <1>3, <1>4 DEF Grown

LEMMA HistoryIsSequence ==
    ASSUME NEW h \in Histories
    PROVE  /\ h \in Seq(Parts) /\ Len(h) \in Nat /\ DOMAIN h = 1..Len(h)
           /\ \A i, j \in CallsOf(h) : (h[i].id = h[j].id /\ h[i].id # 0) => i = j
<1>1. PICK k \in 0..MaxParts : h \in [1..k -> Parts]
  BY DEF Histories
<1>2. k \in Nat /\ h \in Seq(Parts) /\ Len(h) = k
  BY <1>1, LlmAssumption
<1> QED
  BY <1>1, <1>2 DEF Histories

(* What another part leaves of the calls, the responses and the waiting.    *)
LEMMA CallsStay ==
    ASSUME NEW K, NEW h, NEW n \in Nat, NEW m, NEW p, NEW K2,
           CallsKept(K, h, n - 1, m), Grown(K, p, K2), p.kind # "call", CallsOf(h) \subseteq Nat
    PROVE  CallsKept(K2, h, n, m)
<1> SUFFICES ASSUME NEW i \in CallsOf(K2)
             PROVE  /\ K2[i].id # 0 /\ K2[i].id < Made(m)
                    /\ K2[i].id <= MaxNative => \E k \in CallsOf(h) : k <= n /\ h[k].id = K2[i].id
                    /\ \A j \in CallsOf(K2) : K2[i].id = K2[j].id => i = j
  BY DEF CallsKept
<1>1. i \in CallsOf(K) /\ K2[i] = K[i] /\ \A j \in CallsOf(K2) : j \in CallsOf(K) /\ K2[j] = K[j]
  BY DEF Grown
<1>2. \A k \in CallsOf(h) : k <= n - 1 => k <= n
  OBVIOUS
<1> QED
  BY <1>1, <1>2 DEF CallsKept

LEMMA ResponsesStay ==
    ASSUME NEW K, NEW p, NEW K2, ResponsesKept(K), Grown(K, p, K2), p.kind # "response"
    PROVE  ResponsesKept(K2)
<1> SUFFICES ASSUME NEW i \in ResponsesOf(K2)
             PROVE  /\ \E j \in CallsOf(K2) : j < i /\ K2[j].id = K2[i].id /\ K2[j].name = K2[i].name
                    /\ \A j \in ResponsesOf(K2) : K2[i].id = K2[j].id => i = j
  BY DEF ResponsesKept
<1>1. i \in ResponsesOf(K) /\ K2[i] = K[i]
  BY DEF Grown
<1>2. \A j \in ResponsesOf(K2) : j \in ResponsesOf(K) /\ K2[j] = K[j]
  BY DEF Grown
<1>3. \A j \in CallsOf(K) : j \in CallsOf(K2) /\ K2[j] = K[j]
  BY DEF Grown
<1> QED
  BY <1>1, <1>2, <1>3 DEF ResponsesKept

LEMMA WaitingStays ==
    ASSUME NEW K, NEW p, NEW K2, NEW w, NEW name, NEW a, Waits(w, K, name, a), Grown(K, p, K2),
           p.kind = "response" => p.id # w[name][a]
    PROVE  Waits(w, K2, name, a)
<1>1. \A j \in ResponsesOf(K2) : (j \in ResponsesOf(K) /\ K2[j] = K[j]) \/ (K2[j] = p /\ p.kind = "response")
  BY DEF Grown
<1>2. \A j \in CallsOf(K) : j \in CallsOf(K2) /\ K2[j] = K[j]
  BY DEF Grown
<1> QED
  BY <1>1, <1>2 DEF Waits

(* A call: its identifier is new, since the provider does not reuse one and *)
(* the counter has moved on.                                                *)
NewCall(h, n, m, K, id) ==
    /\ id # 0 /\ id < Made(m + 1)
    /\ id <= MaxNative => n \in CallsOf(h) /\ h[n].id = id
    /\ \A i \in CallsOf(K) : K[i].id # id

LEMMA CallIsNew ==
    ASSUME NEW h \in Histories, NEW n \in 1..Len(h), NEW m \in Nat, NEW K \in Seq(Kept),
           CallsKept(K, h, n - 1, m), h[n].kind = "call",
           NEW id \in Nat, id = IF h[n].id = 0 THEN Made(m) ELSE h[n].id
    PROVE  NewCall(h, n, m, K, id)
<1>1. MaxNative \in Nat /\ h[n] \in Parts /\ h[n].id \in 0..MaxNative /\ Made(m) = MaxNative + 1 + m
      /\ Made(m + 1) = MaxNative + 1 + (m + 1)
  BY LlmAssumption, HistoryIsSequence DEF Parts, Made
<1>2. n \in CallsOf(h) /\ \A k \in CallsOf(h) : k \in Nat
  BY HistoryIsSequence DEF CallsOf
<1>3. id # 0 /\ id < Made(m + 1) /\ (id <= MaxNative => h[n].id = id)
  BY <1>1
<1>4. ASSUME NEW i \in CallsOf(K), K[i].id = id PROVE FALSE
  <2>1. K[i].id < Made(m)
    BY DEF CallsKept
  <2>2. h[n].id # 0 /\ id = h[n].id /\ id <= MaxNative
    BY <1>1, <1>4, <2>1
  <2>3. PICK k \in CallsOf(h) : k <= n - 1 /\ h[k].id = id
    BY <1>4, <2>2 DEF CallsKept
  <2>4. k = n
    BY <1>2, <2>2, <2>3, HistoryIsSequence
  <2> QED
    BY <1>2, <2>3, <2>4
<1> QED
  BY <1>2, <1>3, <1>4 DEF NewCall

LEMMA CallsGrow ==
    ASSUME NEW K, NEW h, NEW n \in Nat, NEW m \in Nat, NEW p, NEW K2,
           CallsKept(K, h, n - 1, m), Grown(K, p, K2), p.kind = "call", CallsOf(h) \subseteq Nat,
           NewCall(h, n, m, K, p.id)
    PROVE  CallsKept(K2, h, n, m + 1)
<1> SUFFICES ASSUME NEW i \in CallsOf(K2)
             PROVE  /\ K2[i].id # 0 /\ K2[i].id < Made(m + 1)
                    /\ K2[i].id <= MaxNative => \E k \in CallsOf(h) : k <= n /\ h[k].id = K2[i].id
                    /\ \A j \in CallsOf(K2) : K2[i].id = K2[j].id => i = j
  BY DEF CallsKept
<1>1. \A j \in CallsOf(K2) : (j \in CallsOf(K) /\ K2[j] = K[j]) \/ (j = Len(K) + 1 /\ K2[j] = p)
  BY DEF Grown
<1>2. \A k \in CallsOf(h) : k <= n - 1 => k <= n
  OBVIOUS
<1>3. CASE i \in CallsOf(K) /\ K2[i] = K[i]
  <2>1. /\ K[i].id # 0 /\ K[i].id < Made(m) /\ K[i].id \in Nat
        /\ K[i].id <= MaxNative => \E k \in CallsOf(h) : k <= n - 1 /\ h[k].id = K[i].id
        /\ \A j \in CallsOf(K) : K[i].id = K[j].id => i = j
    <3>1. K[i] \in Kept
      BY <1>3 DEF Grown
    <3> QED
      BY <1>3, <3>1 DEF CallsKept, Kept
  <2>2. K[i].id < Made(m + 1)
    BY <2>1, LlmAssumption DEF Made
  <2> QED
    BY <1>1, <1>2, <1>3, <2>1, <2>2 DEF NewCall
<1>4. CASE i = Len(K) + 1 /\ K2[i] = p
  BY <1>1, <1>4 DEF NewCall
<1> QED
  BY <1>1, <1>3, <1>4

LEMMA WaitingGrows ==
    ASSUME NEW K, NEW p, NEW K2, NEW w \in [ToolNames -> Seq(Nat)], NEW name \in ToolNames, NEW id \in Nat,
           Waiting(w, K), ResponsesKept(K), Grown(K, p, K2), p.kind = "call" /\ p.name = name /\ p.id = id,
           NEW w2, w2 = [w EXCEPT ![name] = Append(@, id)],
           \A i \in CallsOf(K) : K[i].id # id
    PROVE  Waiting(w2, K2)
<1> SUFFICES ASSUME NEW t \in ToolNames, NEW a \in 1..Len(w2[t]) PROVE Waits(w2, K2, t, a)
  BY DEF Waiting
<1>1. CASE t # name
  <2>1. w2[t] = w[t]
    BY <1>1
  <2>2. Waits(w, K2, t, a)
    BY <2>1, WaitingStays DEF Waiting
  <2> QED
    BY <2>1, <2>2 DEF Waits
<1>2. CASE t = name
  <2>1. PICK v \in Seq(Nat) : v = w[name]
    OBVIOUS
  <2>2. w2[t] = Append(v, id)
    BY <1>2, <2>1
  <2>3. /\ Len(v) \in Nat /\ Len(w2[t]) = Len(v) + 1 /\ w2[t][Len(v) + 1] = id
        /\ \A b \in 1..Len(v) : w2[t][b] = v[b]
    <3>1. PICK u : u = Append(v, id)
      OBVIOUS
    <3>2. Len(v) \in Nat /\ Len(u) = Len(v) + 1 /\ u[Len(v) + 1] = id /\ \A b \in 1..Len(v) : u[b] = v[b]
      BY <3>1
    <3> QED
      BY <2>2, <3>1, <3>2
  <2>4. \A b \in 1..Len(v) : Waits(w, K2, t, b) /\ v[b] # id
    <3> SUFFICES ASSUME NEW b \in 1..Len(v) PROVE Waits(w, K2, t, b) /\ v[b] # id
      OBVIOUS
    <3>1. Waits(w, K, t, b) /\ w[t][b] = v[b]
      BY <1>2, <2>1 DEF Waiting
    <3>2. v[b] # id
      BY <3>1 DEF Waits
    <3>3. p.kind = "response" => p.id # w[t][b]
      BY <3>1, <3>2
    <3>4. Waits(w, K2, t, b)
      BY <3>1, <3>3, WaitingStays
    <3> QED
      BY <3>2, <3>4
  <2>5. CASE a \in 1..Len(v)
    <3>1. Waits(w, K2, t, a) /\ w2[t][a] = v[a] /\ v[a] # id
      BY <2>3, <2>4, <2>5
    <3>2. \A b \in 1..Len(w2[t]) : b \in 1..Len(v) \/ b = Len(v) + 1
      BY <2>3
    <3> QED
      BY <1>2, <2>1, <2>3, <3>1, <3>2 DEF Waits
  <2>6. CASE a = Len(v) + 1
    <3>1. Len(K) + 1 \in CallsOf(K2) /\ K2[Len(K) + 1] = p
      BY DEF Grown
    <3>2. ASSUME NEW i \in ResponsesOf(K2) PROVE K2[i].id # id
      <4>1. i \in ResponsesOf(K) /\ K2[i] = K[i]
        BY DEF Grown
      <4> QED
        BY <4>1 DEF ResponsesKept
    <3>3. \A b \in 1..Len(v) : w2[t][b] # id
      BY <2>3, <2>4
    <3>4. \A b \in 1..Len(w2[t]) : b \in 1..Len(v) \/ b = Len(v) + 1
      BY <2>3
    <3> QED
      BY <1>2, <2>3, <2>6, <3>1, <3>2, <3>3, <3>4 DEF Waits
  <2> QED
    BY <2>3, <2>5, <2>6
<1> QED
  BY <1>1, <1>2

(* A response: it takes the oldest identifier waiting, which no other       *)
(* response has and nothing else waits for.                                 *)
Taken(w, name, w2) == \A t \in ToolNames : w2[t] = IF t = name THEN Tail(w[t]) ELSE w[t]

LEMMA ResponseTakes ==
    ASSUME NEW K, NEW p, NEW K2, NEW w \in [ToolNames -> Seq(Nat)], NEW name \in ToolNames,
           NEW h, NEW n, NEW m, CallsKept(K, h, n, m),
           Waiting(w, K), ResponsesKept(K), Grown(K, p, K2), w[name] # <<>>,
           p.kind = "response" /\ p.name = name /\ p.id = Head(w[name]),
           NEW w2, Taken(w, name, w2)
    PROVE  Waiting(w2, K2) /\ ResponsesKept(K2)
<1>1. PICK v \in Seq(Nat) : v = w[name]
  OBVIOUS
<1>2. /\ Len(v) \in Nat \ {0} /\ Head(v) = v[1] /\ Len(Tail(v)) = Len(v) - 1
      /\ \A b \in 1..(Len(v) - 1) : Tail(v)[b] = v[b + 1]
  BY <1>1
<1> DEFINE last == Len(v) - 1
<1>a. /\ last \in Nat /\ Len(v) = last + 1 /\ Len(Tail(v)) = last
      /\ \A b \in 1..last : b \in Nat /\ b + 1 \in 1..Len(v) /\ Tail(v)[b] = v[b + 1]
  BY <1>2
<1> HIDE DEF last
<1>3. Waits(w, K, name, 1) /\ p.id = v[1]
  BY <1>1, <1>2 DEF Waiting
<1>4. PICK c \in CallsOf(K) : K[c].id = p.id /\ K[c].name = name
  BY <1>1, <1>3 DEF Waits
<1>5. \A i \in ResponsesOf(K) : K[i].id # p.id
  BY <1>1, <1>3 DEF Waits
<1>6. ResponsesKept(K2)
  <2> SUFFICES ASSUME NEW i \in ResponsesOf(K2)
               PROVE  /\ \E j \in CallsOf(K2) : j < i /\ K2[j].id = K2[i].id /\ K2[j].name = K2[i].name
                      /\ \A j \in ResponsesOf(K2) : K2[i].id = K2[j].id => i = j
    BY DEF ResponsesKept
  <2>1. \A j \in ResponsesOf(K2) : (j \in ResponsesOf(K) /\ K2[j] = K[j]) \/ (j = Len(K) + 1 /\ K2[j] = p)
    BY DEF Grown
  <2>2. \A j \in CallsOf(K) : j \in CallsOf(K2) /\ K2[j] = K[j] /\ j < Len(K) + 1
    BY DEF Grown
  <2>3. CASE i \in ResponsesOf(K) /\ K2[i] = K[i]
    <3>1. PICK j \in CallsOf(K) : j < i /\ K[j].id = K[i].id /\ K[j].name = K[i].name
      BY <2>3 DEF ResponsesKept
    <3>2. ASSUME NEW k \in ResponsesOf(K2), K2[i].id = K2[k].id PROVE i = k
      <4>1. k \in ResponsesOf(K) /\ K2[k] = K[k]
        BY <1>5, <2>1, <2>3, <3>2
      <4> QED
        BY <2>3, <3>2, <4>1 DEF ResponsesKept
    <3> QED
      BY <2>2, <2>3, <3>1, <3>2
  <2>4. CASE i = Len(K) + 1 /\ K2[i] = p
    <3>1. c \in CallsOf(K2) /\ c < i /\ K2[c].id = K2[i].id /\ K2[c].name = K2[i].name
      BY <1>4, <2>2, <2>4
    <3>2. \A k \in ResponsesOf(K2) : K2[i].id = K2[k].id => i = k
      BY <1>5, <2>1, <2>4
    <3> QED
      BY <3>1, <3>2
  <2> QED
    BY <2>1, <2>3, <2>4
<1>7. Waiting(w2, K2)
  <2> SUFFICES ASSUME NEW t \in ToolNames, NEW a \in 1..Len(w2[t]) PROVE Waits(w2, K2, t, a)
    BY DEF Waiting
  <2>1. CASE t # name
    <3>1. w2[t] = w[t]
      BY <2>1 DEF Taken
    <3>2. Waits(w, K, t, a)
      BY <3>1 DEF Waiting
    <3>3. w[t][a] # p.id
      BY <1>4, <2>1, <3>2 DEF Waits, CallsKept
    <3>4. Waits(w, K2, t, a)
      BY <3>2, <3>3, WaitingStays
    <3> QED
      BY <3>1, <3>4 DEF Waits
  <2>2. CASE t = name
    <3>1. Len(w2[t]) = last /\ \A b \in 1..last : w2[t][b] = v[b + 1]
      <4>1. w2[t] = Tail(v)
        BY <1>1, <2>2 DEF Taken
      <4> QED
        BY <1>a, <4>1, Zenon
    <3>2. a \in 1..last /\ a + 1 \in 1..Len(v) /\ w2[t][a] = v[a + 1]
      BY <1>a, <3>1
    <3>3. Waits(w, K, t, a + 1)
      BY <1>1, <2>2, <3>2 DEF Waiting
    <3>4. v[a + 1] # p.id
      BY <1>1, <1>2, <1>3, <3>2 DEF Waits
    <3>5. Waits(w, K2, t, a + 1)
      BY <1>1, <2>2, <3>3, <3>4, WaitingStays
    <3>6. ASSUME NEW b \in 1..Len(w2[t]), w2[t][a] = w2[t][b] PROVE a = b
      <4>1. b \in 1..last /\ b + 1 \in 1..Len(v) /\ w2[t][b] = v[b + 1]
        BY <1>a, <3>1
      <4>2. a + 1 = b + 1
        BY <1>1, <2>2, <3>2, <3>3, <3>6, <4>1 DEF Waits
      <4> QED
        BY <3>2, <4>1, <4>2
    <3> QED
      BY <1>1, <2>2, <3>2, <3>5, <3>6 DEF Waits
  <2> QED
    BY <2>1, <2>2
<1> QED
  BY <1>6, <1>7

LEMMA WalkMoves ==
    ASSUME NEW h \in Histories, NEW n \in 1..Len(h), NEW x, WalkSound(x, h, n - 1)
    PROVE  WalkSound(SanitizePart(x, h[n]), h, n)
<1>1. h \in Seq(Parts) /\ Len(h) \in Nat /\ n \in DOMAIN h /\ n \in Nat /\ CallsOf(h) \subseteq Nat
  BY HistoryIsSequence DEF CallsOf
<1>2. PICK q \in Parts : q = h[n]
  BY <1>1
<1>3. PICK y : y = SanitizePart(x, q)
  OBVIOUS
<1>4. WalkTypes(x, n - 1)
  BY DEF WalkSound
<1>5. PICK K \in Seq(Kept), w \in [ToolNames -> Seq(Nat)], m \in 0..(n - 1) :
            K = x.kept /\ w = x.pending /\ m = x.counter
  BY <1>4 DEF WalkTypes
<1>6. CallsKept(K, h, n - 1, m) /\ ResponsesKept(K) /\ Waiting(w, K)
  BY <1>5 DEF WalkSound
<1>8. CASE q.kind = "call"
  <2>1. PICK id \in Nat : id = IF q.id = 0 THEN Made(m) ELSE q.id
    BY <1>2, LlmAssumption DEF Parts, Made
  <2>2. PICK p : p = [kind |-> "call", name |-> q.name, id |-> id]
    OBVIOUS
  <2>3. p \in Kept /\ p.kind = "call" /\ p.name = q.name /\ p.id = id /\ q.name \in ToolNames
    BY <1>2, <1>8, <2>1, <2>2 DEF Parts, Kept
  <2>4. [q EXCEPT !.id = id] = p
    BY <1>2, <1>8, <2>2 DEF Parts
  <2>5. PICK K2 : K2 = Append(K, p)
    OBVIOUS
  <2>6. PICK w2 : w2 = [w EXCEPT ![q.name] = Append(@, id)]
    OBVIOUS
  <2>7. y = [kept |-> K2, counter |-> m + 1, pending |-> w2]
    BY <1>3, <1>5, <1>8, <2>1, <2>4, <2>5, <2>6 DEF SanitizePart
  <2>8. Grown(K, p, K2)
    BY <2>3, <2>5, KeptGrows
  <2>9. NewCall(h, n, m, K, id)
    BY <1>2, <1>6, <1>8, <2>1, CallIsNew
  <2>10. CallsKept(K2, h, n, m + 1)
    <3>1. NewCall(h, n, m, K, p.id)
      BY <2>3, <2>9
    <3>2. m \in Nat
      BY <1>1
    <3> QED
      BY <1>1, <1>6, <2>3, <2>8, <3>1, <3>2, CallsGrow
  <2>11. ResponsesKept(K2)
    BY <1>6, <2>3, <2>8, ResponsesStay
  <2>12. Waiting(w2, K2)
    BY <1>6, <2>1, <2>3, <2>6, <2>8, <2>9, WaitingGrows DEF NewCall
  <2>13. WalkTypes(y, n)
    <3>1. w2 \in [ToolNames -> Seq(Nat)]
      BY <2>1, <2>3, <2>6
    <3> QED
      BY <1>1, <1>5, <2>7, <2>8, <3>1 DEF WalkTypes, Grown
  <2> QED
    BY <1>2, <1>3, <2>7, <2>10, <2>11, <2>12, <2>13 DEF WalkSound
<1>9. CASE q.kind = "response" /\ x.pending[q.name] # <<>>
  <2>1. q.name \in ToolNames
    BY <1>2, <1>9 DEF Parts
  <2>2. w[q.name] # <<>> /\ w[q.name] \in Seq(Nat) /\ Head(w[q.name]) \in Nat
    BY <1>5, <1>9, <2>1
  <2>3. PICK p : p = [kind |-> "response", name |-> q.name, id |-> Head(w[q.name])]
    OBVIOUS
  <2>4. p \in Kept /\ p.kind = "response" /\ p.name = q.name /\ p.id = Head(w[q.name])
    BY <2>1, <2>2, <2>3 DEF Kept
  <2>5. [q EXCEPT !.id = Head(w[q.name])] = p
    BY <1>2, <1>9, <2>3 DEF Parts
  <2>6. PICK K2 : K2 = Append(K, p)
    OBVIOUS
  <2>7. PICK w2 : w2 = [w EXCEPT ![q.name] = Tail(@)]
    OBVIOUS
  <2>8. /\ DOMAIN y = {"kept", "counter", "pending"}
        /\ y.kept = K2 /\ y.counter = m /\ y.pending = w2
    <3>1. x.pending[q.name] = w[q.name] /\ x.pending[q.name] # <<>>
      BY <1>5, <1>9
    <3>2. K2 = Append(x.kept, [q EXCEPT !.id = Head(x.pending[q.name])])
      BY <1>5, <2>5, <2>6, <3>1, Zenon
    <3>3. w2 = [x.pending EXCEPT ![q.name] = Tail(@)]
      BY <1>5, <2>7
    <3>4. y = [kept |-> K2, counter |-> x.counter, pending |-> w2]
      BY <1>3, <1>9, <3>2, <3>3 DEF SanitizePart
    <3> QED
      BY <1>5, <3>4
  <2>9. Grown(K, p, K2)
    BY <2>4, <2>6, KeptGrows
  <2>10. Waiting(w2, K2) /\ ResponsesKept(K2)
    <3>1. Taken(w, q.name, w2)
      BY <2>1, <2>7 DEF Taken
    <3> QED
      BY <1>6, <2>1, <2>2, <2>4, <2>9, <3>1, ResponseTakes
  <2>11. CallsKept(K2, h, n, m)
    BY <1>1, <1>6, <2>4, <2>9, CallsStay
  <2>12. WalkTypes(y, n)
    <3>1. w2 \in [ToolNames -> Seq(Nat)]
      BY <2>1, <2>2, <2>7
    <3> QED
      BY <1>1, <2>8, <2>9, <3>1 DEF WalkTypes, Grown
  <2> QED
    BY <1>2, <1>3, <2>8, <2>10, <2>11, <2>12 DEF WalkSound
<1>10. CASE q.kind = "response" /\ x.pending[q.name] = <<>>
  <2>1. y = x
    BY <1>3, <1>10 DEF SanitizePart
  <2>2. WalkTypes(x, n)
    BY <1>1, <1>4 DEF WalkTypes
  <2>3. CallsKept(K, h, n, m)
    BY <1>1, <1>6 DEF CallsKept
  <2> QED
    BY <1>2, <1>3, <1>5, <1>6, <2>1, <2>2, <2>3 DEF WalkSound
<1>11. CASE q.kind = "text"
  <2>1. PICK K2 : K2 = Append(K, q)
    OBVIOUS
  <2>2. /\ DOMAIN y = {"kept", "counter", "pending"}
        /\ y.kept = K2 /\ y.counter = m /\ y.pending = w
    BY <1>3, <1>4, <1>5, <1>11, <2>1 DEF SanitizePart, WalkTypes
  <2>3. q \in Kept
    BY <1>11 DEF Parts, Kept
  <2>4. Grown(K, q, K2)
    BY <2>1, <2>3, KeptGrows
  <2>5. WalkTypes(y, n)
    BY <1>1, <2>2, <2>4 DEF WalkTypes, Grown
  <2>6. CallsKept(K2, h, n, m)
    BY <1>1, <1>6, <1>11, <2>4, CallsStay
  <2>7. ResponsesKept(K2)
    BY <1>6, <1>11, <2>4, ResponsesStay
  <2>8. Waiting(w, K2)
    BY <1>6, <1>11, <2>4, WaitingStays DEF Waiting
  <2> QED
    BY <1>2, <1>3, <2>2, <2>5, <2>6, <2>7, <2>8 DEF WalkSound
<1> QED
  BY <1>2, <1>8, <1>9, <1>10, <1>11 DEF Parts

LEMMA RewriteMatches ==
    ASSUME NEW h \in Histories, ~FullyIdentified(h)
    PROVE  Matched(Sanitized(h))
<1>1. h \in Seq(Parts) /\ Len(h) \in Nat
  BY LlmAssumption DEF Histories
<1>2. PICK s : /\ s = CHOOSE f : f = [n \in 0..Len(h) |->
                                 IF n = 0 THEN Unsanitized ELSE SanitizePart(f[n - 1], h[n])]
               /\ Sanitized(h) = s[Len(h)].kept
  BY Zenon DEF Sanitized
<1>3. IsWalk(h, s)
  BY <1>1, <1>2, WalkExists
<1> DEFINE S == {n \in 0..Len(h) : WalkSound(s[n], h, n)}
<1>4. 0 \in S
  BY <1>1, <1>3, WalkStarts DEF IsWalk
<1>5. ASSUME NEW n \in 1..Len(h), n - 1 \in S PROVE n \in S
  <2>1. WalkSound(SanitizePart(s[n - 1], h[n]), h, n)
    BY <1>5, WalkMoves
  <2>2. s[n] = SanitizePart(s[n - 1], h[n])
    BY <1>3 DEF IsWalk
  <2> QED
    BY <1>1, <2>1, <2>2
<1>6. 0..Len(h) \subseteq S
  <2> HIDE DEF S
  <2> QED
    BY <1>1, <1>4, <1>5, UpTo
<1>7. PICK x : x = s[Len(h)] /\ WalkSound(x, h, Len(h))
  BY <1>1, <1>6
<1>8. Matched(x.kept)
  BY <1>7 DEF WalkSound, WalkTypes, CallsKept, ResponsesKept, Matched, FullyIdentified
<1> QED
  BY <1>2, <1>7, <1>8

HistoryInv == (contents = original /\ original \in Histories) \/ Matched(contents)

LEMMA HistoryStarts == HistoryInit => HistoryInv
BY DEF HistoryInit, HistoryInv

LEMMA NoHistory == <<>> \in Histories
<1>1. <<>> \in [1..0 -> Parts] /\ 0 \in 0..MaxParts
  BY LlmAssumption
<1> QED
  BY <1>1 DEF Histories, CallsOf

LEMMA HistoryKeeps ==
    ASSUME HistoryInv, [HistoryNext]_historyVars
    PROVE  HistoryInv'
<1>1. CASE UNCHANGED historyVars
  BY <1>1 DEF historyVars, HistoryInv, Histories, Parts, CallsOf, ResponsesOf, Matched, FullyIdentified
<1>2. CASE SanitizeRequest
  <2>1. contents' = Sanitized(contents) /\ original' = original
    BY <1>2 DEF SanitizeRequest
  <2>2. CASE FullyIdentified(contents)
    <3>1. contents' = contents
      BY <2>1, <2>2 DEF Sanitized
    <3> QED
      BY <1>1, <2>1, <3>1 DEF historyVars
  <2>3. CASE ~FullyIdentified(contents)
    <3>1. contents \in Histories
      BY <2>3 DEF HistoryInv, Matched
    <3>2. Matched(contents')
      BY <2>1, <2>3, <3>1, RewriteMatches
    <3> QED
      BY <3>2 DEF HistoryInv, Matched, FullyIdentified, CallsOf, ResponsesOf
  <2> QED
    BY <2>2, <2>3
<1> QED
  BY <1>1, <1>2 DEF HistoryNext

LEMMA HistorySound == HistoryInv => RewrittenIsValid
<1> SUFFICES ASSUME HistoryInv, contents # original
             PROVE  Matched(contents) /\ Sanitized(contents) = contents
  BY DEF RewrittenIsValid
<1>1. Matched(contents)
  BY DEF HistoryInv
<1>2. FullyIdentified(contents)
  BY <1>1 DEF Matched
<1> QED
  BY <1>1, <1>2 DEF Sanitized

(* A rewritten history is valid for every provider, and stays as it is.     *)
THEOREM RewriteIsValid == HistorySpec => []RewrittenIsValid
<1>1. HistoryInv /\ [HistoryNext]_historyVars => HistoryInv'
  BY HistoryKeeps
<1> QED
  BY <1>1, HistoryStarts, HistorySound, PTL DEF HistorySpec
-----------------------------------------------------------------------------
(* The layer as the runs compose it: one component moves, the rest rest.    *)
LayerInv == LlmInv /\ HistoryInv /\ RegistryInv /\ ConfigInv /\ VoiceInv

layerVars == <<part, vars, llmVars, historyVars, registryVars, configVars, voiceVars>>

LEMMA LayerStarts == ModelsInit => LayerInv
<1> SUFFICES ASSUME ModelsInit PROVE LayerInv
  OBVIOUS
<1>1. LlmInit /\ RegistryInit /\ ConfigInit /\ VoiceInit
  BY DEF ModelsInit
<1>2. HistoryInv
  <2>1. CASE part = "history"
    BY <2>1, HistoryStarts DEF ModelsInit
  <2>2. CASE part # "history"
    <3>1. original = <<>> /\ contents = <<>>
      BY <2>2 DEF ModelsInit
    <3> QED
      BY <3>1, NoHistory DEF HistoryInv
  <2> QED
    BY <2>1, <2>2
<1> QED
  BY <1>1, <1>2, LlmStarts, RegistryStarts, ConfigStarts, VoiceStarts DEF LayerInv

LEMMA LayerKeeps == LayerInv /\ [ModelsNext]_layerVars => LayerInv'
<1> SUFFICES ASSUME LayerInv, [ModelsNext]_layerVars PROVE LayerInv'
  OBVIOUS
<1>1. [LlmNext]_llmVars
  BY DEF ModelsNext, layerVars
<1>2. [HistoryNext]_historyVars
  BY DEF ModelsNext, layerVars
<1>3. [RegistryNext]_registryVars
  BY DEF ModelsNext, layerVars
<1>4. [ConfigNext]_configVars
  BY DEF ModelsNext, layerVars
<1>5. [VoiceNext]_voiceVars
  BY DEF ModelsNext, layerVars
<1> QED
  BY <1>1, <1>2, <1>3, <1>4, <1>5, CallKeeps, HistoryKeeps, RegistrySteps, ConfigKeeps, SpokenStep
  DEF LayerInv

(* Model calls: what one shows, why one fails and what it sends.            *)
THEOREM ModelCallsAreSound == ModelsSpec => []ModelCallsSound
<1>1. LayerInv => ModelCallsSound
  BY CallsAreSound, HistorySound DEF LayerInv, ModelCallsSound
<1> QED
  BY <1>1, LayerStarts, LayerKeeps, PTL DEF ModelsSpec, layerVars

(* The caches: what is offered as ready, served or replayed.                *)
THEOREM CachesAreTruthful == ModelsSpec => []CachesTruthful
<1>1. LayerInv => CachesTruthful
  BY RegistrySound, ConfigServes, SpokenSound DEF LayerInv, CachesTruthful
<1> QED
  BY <1>1, LayerStarts, LayerKeeps, PTL DEF ModelsSpec, layerVars
=============================================================================
