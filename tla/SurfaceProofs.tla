---------------------------- MODULE SurfaceProofs ----------------------------
(***************************************************************************)
(* Proofs about surfaces: who may act on one (SurfaceAction), what is kept *)
(* of it (SurfaceState, AuthoredSurfaces), the contract tools behind it    *)
(* (ContractTools) and the path of a tool's result to the screen           *)
(* (ToolPipeline), for every set of submissions, turns, tools, documents   *)
(* and requests.                                                           *)
(***************************************************************************)
EXTENDS MCSurfaces, NumberLemmas, FiniteSetTheorems, TLAPS

(* The admission of actions: a claim key is owned by at most one winner,    *)
(* and a winner of a surface that never changed kind was admitted under     *)
(* that kind.                                                               *)
-----------------------------------------------------------------------------

(* What claim_action guarantees: winners are past the claim, each holds its *)
(* key, no key has two owners, and the kind a winner was admitted under is  *)
(* still the surface's unless the surface was rendered as another kind.     *)
ClaimInv ==
    /\ \A s \in Submissions :
        /\ pc[s] \in {"write", "start", "running", "done"} => s \in won
        /\ s \in won => pc[s] \notin {"gates", "load", "claim", "refused"}
        /\ (s \in won /\ NeedsClaim(s)) => ClaimKey(s) \in claims
        /\ (pc[s] = "claim" \/ s \in won) =>
               (surface[s] \in restyled \/ seenKind[s] = kind[surface[s]])
    /\ \A s, u \in won : (s # u /\ NeedsClaim(s) /\ NeedsClaim(u)) => ClaimKey(s) # ClaimKey(u)
    /\ \A x \in Surfaces : lastAction[x] # None => lastAction[x] \in won

Inv == ActionTypeOK /\ ClaimInv

(* Before the first request nothing is claimed and nobody has won.          *)
LEMMA InitInv == Init => Inv
BY DEF Init, Inv, ActionTypeOK, ClaimInv, PCs, Kinds

(* Every step of a handler, and every render, keeps the types.              *)
LEMMA TypeStep == ASSUME Inv, Next PROVE ActionTypeOK'
<1> USE DEF Inv, ActionTypeOK, Goto, PCs, inputs
<1>1. ASSUME NEW s \in Submissions, PassGates(s) PROVE ActionTypeOK'
  BY <1>1 DEF PassGates
<1>2. ASSUME NEW s \in Submissions, Refuse(s) PROVE ActionTypeOK'
  BY <1>2 DEF Refuse
<1>3. ASSUME NEW s \in Submissions, LoadArtifact(s) PROVE ActionTypeOK'
  BY <1>3 DEF LoadArtifact
<1>4. ASSUME NEW s \in Submissions, Claim(s) PROVE ActionTypeOK'
  <2>1. NeedsClaim(s) => ClaimKey(s) \in {"surface", "request"} \X (Surfaces \cup Requests)
    BY DEF NeedsClaim, ClaimKey
  <2> QED BY <1>4, <2>1 DEF Claim
<1>5. ASSUME NEW s \in Submissions, Conflict(s) PROVE ActionTypeOK'
  BY <1>5 DEF Conflict
<1>6. ASSUME NEW s \in Submissions, WriteAction(s) PROVE ActionTypeOK'
  BY <1>6 DEF WriteAction
<1>7. ASSUME NEW s \in Submissions, StartRun(s) PROVE ActionTypeOK'
  BY <1>7 DEF StartRun, ClaimInv
<1>8. ASSUME NEW s \in Submissions, FinishRun(s) PROVE ActionTypeOK'
  BY <1>8 DEF FinishRun
<1>9. ASSUME NEW s \in Submissions, Lose(s) PROVE ActionTypeOK'
  BY <1>9 DEF Lose
<1>10. ASSUME NEW x \in Surfaces, NEW k \in Kinds, Render(x, k) PROVE ActionTypeOK'
  BY <1>10 DEF Render
<1> QED BY <1>1, <1>2, <1>3, <1>4, <1>5, <1>6, <1>7, <1>8, <1>9, <1>10 DEF Next

(* Every step of a handler, and every render, keeps ClaimInv.  The only     *)
(* step that can give a key a second owner is Claim, and create_document    *)
(* refuses it.                                                              *)
LEMMA ClaimStep == ASSUME Inv, Next PROVE ClaimInv'
<1> USE DEF Inv, ActionTypeOK, ClaimInv, Goto, PCs, inputs, NeedsClaim, ClaimKey
<1>1. ASSUME NEW s \in Submissions, PassGates(s) PROVE ClaimInv'
  BY <1>1 DEF PassGates
<1>2. ASSUME NEW s \in Submissions, Refuse(s) PROVE ClaimInv'
  BY <1>2 DEF Refuse
<1>3. ASSUME NEW s \in Submissions, LoadArtifact(s) PROVE ClaimInv'
  BY <1>3 DEF LoadArtifact
<1>4. ASSUME NEW s \in Submissions, Claim(s) PROVE ClaimInv'
  BY <1>4 DEF Claim
<1>5. ASSUME NEW s \in Submissions, Conflict(s) PROVE ClaimInv'
  BY <1>5 DEF Conflict
<1>6. ASSUME NEW s \in Submissions, WriteAction(s) PROVE ClaimInv'
  <2>1. s \in won /\ pc' = [pc EXCEPT ![s] = "start"]
        /\ lastAction' = [lastAction EXCEPT ![surface[s]] = s]
    BY <1>6 DEF WriteAction
  <2>2. UNCHANGED <<surface, requestId, seenKind, kind, claims, won, restyled>>
    BY <1>6 DEF WriteAction
  <2>3. \A x \in Surfaces : lastAction'[x] # None => lastAction'[x] \in won'
    BY <2>1, <2>2
  <2>4. \A t \in Submissions :
          /\ pc'[t] \in {"write", "start", "running", "done"} => t \in won'
          /\ t \in won' => pc'[t] \notin {"gates", "load", "claim", "refused"}
          /\ pc'[t] = "claim" => pc[t] = "claim"
    BY <2>1, <2>2
  <2> QED BY <2>2, <2>3, <2>4
<1>7. ASSUME NEW s \in Submissions, StartRun(s) PROVE ClaimInv'
  BY <1>7 DEF StartRun
<1>8. ASSUME NEW s \in Submissions, FinishRun(s) PROVE ClaimInv'
  BY <1>8 DEF FinishRun
<1>9. ASSUME NEW s \in Submissions, Lose(s) PROVE ClaimInv'
  BY <1>9 DEF Lose
<1>10. ASSUME NEW x \in Surfaces, NEW k \in Kinds, Render(x, k) PROVE ClaimInv'
  BY <1>10 DEF Render
<1> QED BY <1>1, <1>2, <1>3, <1>4, <1>5, <1>6, <1>7, <1>8, <1>9, <1>10 DEF Next

(* The inductive invariant of surface-action-run: types and ClaimInv.       *)
THEOREM ActionInvariant == Spec => []Inv
<1>1. Inv /\ UNCHANGED vars => Inv'
  BY DEF Inv, ActionTypeOK, ClaimInv, vars, inputs, NeedsClaim, ClaimKey
<1>2. Inv /\ [Next]_vars => Inv'
  BY <1>1, TypeStep, ClaimStep DEF Inv
<1> QED BY InitInv, <1>2, PTL DEF Spec

(* Every variable of the route keeps its type.                              *)
THEOREM ActionTypeCorrect == Spec => []ActionTypeOK
<1>1. Inv => ActionTypeOK
  BY DEF Inv
<1> QED BY <1>1, ActionInvariant, PTL

(* A confirmation form starts at most one run, for any number of tabs,      *)
(* clicks, retries and crashes.                                             *)
THEOREM FormRunsOnce == Spec => []ConfirmedOnce
<1>1. ASSUME Inv PROVE ConfirmedOnce
  <2> SUFFICES ASSUME NEW s \in ran, NEW u \in ran, s # u, surface[s] = surface[u],
                      kind[surface[s]] = "one_time", surface[s] \notin restyled
               PROVE FALSE
    BY DEF ConfirmedOnce
  <2>1. s \in won /\ u \in won /\ s \in Submissions /\ u \in Submissions
    BY <1>1 DEF Inv, ActionTypeOK
  <2>2. seenKind[s] = "one_time" /\ seenKind[u] = "one_time"
    BY <1>1, <2>1 DEF Inv, ClaimInv
  <2>3. ClaimKey(s) = <<"surface", surface[s]>> /\ ClaimKey(u) = <<"surface", surface[s]>>
    BY <2>2 DEF ClaimKey
  <2>4. NeedsClaim(s) /\ NeedsClaim(u)
    BY <2>3 DEF NeedsClaim
  <2> QED BY <1>1, <2>1, <2>3, <2>4 DEF Inv, ClaimInv
<1> QED BY <1>1, ActionInvariant, PTL

(* A transport retry never starts a second run of its request.              *)
THEOREM RetrySafe == Spec => []RetryRunsOnce
<1>1. ASSUME Inv PROVE RetryRunsOnce
  <2> SUFFICES ASSUME NEW s \in ran, NEW u \in ran, s # u, requestId[s] # None,
                      requestId[s] = requestId[u], surface[s] = surface[u],
                      surface[s] \notin restyled
               PROVE FALSE
    BY DEF RetryRunsOnce
  <2>1. s \in won /\ u \in won /\ s \in Submissions /\ u \in Submissions
    BY <1>1 DEF Inv, ActionTypeOK
  <2>2. seenKind[s] = seenKind[u]
    BY <1>1, <2>1 DEF Inv, ClaimInv
  <2>3. ClaimKey(s) = ClaimKey(u)
    BY <2>2 DEF ClaimKey
  <2>4. NeedsClaim(s) /\ NeedsClaim(u)
    BY DEF NeedsClaim, ClaimKey
  <2> QED BY <1>1, <2>1, <2>3, <2>4 DEF Inv, ClaimInv
<1> QED BY <1>1, ActionInvariant, PTL

(* A submission that lost its claim never shows in the session state.       *)
THEOREM LosersLeaveNoTrace == Spec => []TraceIsClaimed
<1>1. Inv => TraceIsClaimed
  BY DEF Inv, ClaimInv, TraceIsClaimed
<1> QED BY <1>1, ActionInvariant, PTL
-----------------------------------------------------------------------------
(* The state of surfaces. A running turn holds every entry that is stored,  *)
(* at the place it is stored at; so does a request that will write one      *)
(* back. Without overlap only one turn is about to write.                   *)
Entries == [render : 1..MaxRenders, edit : SurfaceClients \cup {None}, created : 1..MaxRenders]

StateSound(state) ==
    /\ DOMAIN state = StateKeys
    /\ \A s \in SessionSurfaces : state[Stash(s)] \in Entries \cup {None}

Live(t) == turnAt[t] \in {"running", "pausing"}
Underway(t) == turnAt[t] \in {"seeded", "running", "pausing"}

StateTypes ==
    /\ StateSound(persisted)
    /\ DOMAIN held = SurfaceTurns /\ DOMAIN delta = SurfaceTurns
    /\ turnAt \in [SurfaceTurns -> {"new", "seeded", "running", "pausing", "ended", "cut"}]
    /\ DOMAIN trigger = SurfaceTurns /\ DOMAIN readBack = SurfaceTurns
    /\ DOMAIN filled = SessionForms /\ DOMAIN posting = SurfaceClients
    /\ renders \in 0..MaxRenders

HoldsEntries(t) ==
    /\ StateSound(held[t])
    /\ DOMAIN delta[t] \subseteq StateKeys
    /\ \A k \in DOMAIN delta[t] : delta[t][k] = held[t][k]
    /\ \A s \in SessionSurfaces : Stash(s) \in DOMAIN delta[t] => delta[t][Stash(s)] \in Entries
    /\ \A s \in SessionSurfaces : persisted[Stash(s)] # None =>
            held[t][Stash(s)] # None /\ held[t][Stash(s)].created = persisted[Stash(s)].created

HoldsPlans(t) ==
    \A p \in 1..PlanLimit :
        held[t][Plan(p)] = IF Plan(p) \in DOMAIN delta[t] THEN delta[t][Plan(p)] ELSE persisted[Plan(p)]

PostsEntry(c) ==
    (posting[c] # None /\ posting[c].status = 0) =>
        /\ posting[c].surface \in SessionSurfaces /\ posting[c].payload \in Entries
        /\ persisted[Stash(posting[c].surface)] # None
        /\ posting[c].payload.created = persisted[Stash(posting[c].surface)].created

OneUnderway == \A t, u \in SurfaceTurns : Underway(t) /\ Underway(u) => t = u

StatusTold ==
    (\A t \in SurfaceTurns : turnAt[t] # "cut") =>
        /\ \A t \in SurfaceTurns : Live(t) => rowStatus = TaskProjection(held[t])
        /\ (\A t \in SurfaceTurns : ~Live(t)) => rowStatus = TaskProjection(persisted)

StateInv ==
    /\ StateTypes /\ OneUnderway /\ StatusTold
    /\ \A t \in SurfaceTurns :
          /\ Live(t) => HoldsEntries(t) /\ HoldsPlans(t)
          /\ ~Live(t) => delta[t] = <<>>
    /\ \A c \in SurfaceClients : PostsEntry(c)

(* Keys of different kinds are different.                                   *)
LEMMA KeysApart ==
    /\ \A s, r : Stash(s) = Stash(r) => s = r
    /\ \A s, r : Stash(s) # LastAction(r) /\ Stash(s) # Plan(r) /\ LastAction(s) # Plan(r)
    /\ \A s : Stash(s) \notin {ElicitSeq, IframeContext, FormData} /\ Plan(s) \notin {ElicitSeq, IframeContext, FormData}
    /\ \A p, q : Plan(p) = Plan(q) => p = q
BY DEF Stash, LastAction, Plan, ElicitSeq, IframeContext, FormData

LEMMA KeysThere ==
    /\ \A s \in SessionSurfaces : Stash(s) \in StateKeys /\ LastAction(s) \in StateKeys
    /\ \A p \in 1..PlanLimit : Plan(p) \in StateKeys
    /\ ElicitSeq \in StateKeys /\ IframeContext \in StateKeys /\ FormData \in StateKeys
BY DEF StateKeys

(* The projection is of the plans alone.                                    *)
LEMMA ProjectionOfPlans ==
    ASSUME NEW f, NEW g, \A p \in 1..PlanLimit : f[Plan(p)] = g[Plan(p)]
    PROVE  TaskProjection(f) = TaskProjection(g)
<1> DEFINE Told(plans) == IF plans = {} THEN "unplanned"
           ELSE PlanStatus((CHOOSE q \in plans : \A r \in plans : r.reported <= q.reported).steps)
          F == {f[Plan(p)] : p \in 1..PlanLimit} \ {None}
          G == {g[Plan(p)] : p \in 1..PlanLimit} \ {None}
<1>1. F = G
  OBVIOUS
<1>2. TaskProjection(f) = Told(F) /\ TaskProjection(g) = Told(G)
  BY Zenon DEF TaskProjection
<1> HIDE DEF Told, F, G
<1> QED
  BY <1>1, <1>2

LEMMA MergedState ==
    ASSUME NEW change, NEW state, DOMAIN change \subseteq DOMAIN state, NEW m, m = Merged(change, state)
    PROVE  /\ DOMAIN m = DOMAIN state
           /\ \A k \in DOMAIN state : m[k] = IF k \in DOMAIN change THEN change[k] ELSE state[k]
BY DEF Merged

LEMMA StateStarts == SurfaceInit => StateInv
<1> SUFFICES ASSUME SurfaceInit PROVE StateInv
  OBVIOUS
<1>1. StateSound(Empty) /\ \A p \in 1..PlanLimit : Empty[Plan(p)] = None
  BY KeysThere, KeysApart DEF StateSound, Empty
<1>2. TaskProjection(Empty) = "unplanned"
  BY <1>1 DEF TaskProjection
<1>3. StateTypes
  BY <1>1, SurfaceAssumption DEF SurfaceInit, StateTypes
<1>4. OneUnderway /\ StatusTold
  BY <1>2 DEF SurfaceInit, OneUnderway, Underway, StatusTold, Live
<1>5. \A t \in SurfaceTurns : ~Live(t) /\ delta[t] = <<>>
  BY DEF SurfaceInit, Live
<1>6. \A c \in SurfaceClients : PostsEntry(c)
  BY DEF SurfaceInit, PostsEntry
<1> QED
  BY <1>3, <1>4, <1>5, <1>6 DEF StateInv

(* A write that leaves every entry where it is and every plan as it is.     *)
LeavesInPlace(old, new) ==
    /\ StateSound(new)
    /\ \A s \in SessionSurfaces :
          /\ new[Stash(s)] = None <=> old[Stash(s)] = None
          /\ old[Stash(s)] # None => new[Stash(s)].created = old[Stash(s)].created
    /\ \A p \in 1..PlanLimit : new[Plan(p)] = old[Plan(p)]

(* One that may add entries.                                                *)
KeepsPlaces(old, new) ==
    \A s \in SessionSurfaces : old[Stash(s)] # None =>
        new[Stash(s)] # None /\ new[Stash(s)].created = old[Stash(s)].created

LEMMA OtherKeyWritten ==
    ASSUME NEW old, StateSound(old), NEW k \in StateKeys, NEW v,
           \A s : k # Stash(s) /\ k # Plan(s), NEW new, new = [old EXCEPT ![k] = v]
    PROVE  LeavesInPlace(old, new)
<1>1. DOMAIN new = StateKeys /\ \A x \in StateKeys : x # k => new[x] = old[x]
  BY DEF StateSound
<1> QED
  BY <1>1, KeysThere DEF LeavesInPlace, StateSound

LEMMA EntryWritten ==
    ASSUME NEW old, StateSound(old), NEW s \in SessionSurfaces, NEW e \in Entries,
           old[Stash(s)] # None, e.created = old[Stash(s)].created,
           NEW new, new = [old EXCEPT ![Stash(s)] = e]
    PROVE  LeavesInPlace(old, new)
<1>1. DOMAIN new = StateKeys /\ new[Stash(s)] = e /\ \A x \in StateKeys : x # Stash(s) => new[x] = old[x]
  BY KeysThere DEF StateSound
<1>2. e # None
  BY SurfaceAssumption DEF Entries
<1> QED
  BY <1>1, <1>2, KeysThere, KeysApart DEF LeavesInPlace, StateSound

(* A request, or the seeding of an action, disturbs no turn.                *)
LEMMA WriteDisturbsNone ==
    ASSUME StateInv, LeavesInPlace(persisted, persisted'),
           UNCHANGED <<held, delta>>,
           NEW t \in SurfaceTurns, Live(t)
    PROVE  HoldsEntries(t)' /\ HoldsPlans(t)'
<1>1. HoldsEntries(t) /\ HoldsPlans(t) /\ DOMAIN persisted = StateKeys
  BY DEF StateInv, StateTypes, StateSound
<1>2. HoldsEntries(t)'
  BY <1>1 DEF HoldsEntries, LeavesInPlace, StateSound
<1>3. HoldsPlans(t)'
  BY <1>1 DEF HoldsPlans, LeavesInPlace
<1> QED
  BY <1>2, <1>3

LEMMA RequestKeeps ==
    ASSUME StateInv, LeavesInPlace(persisted, persisted'),
           UNCHANGED <<held, delta, turnAt, trigger, filled, renders, rowStatus, readBack>>,
           DOMAIN posting' = SurfaceClients, \A c \in SurfaceClients : PostsEntry(c)'
    PROVE  StateInv' /\ KeepsPlaces(persisted, persisted')
<1>1. StateTypes'
  BY DEF StateInv, StateTypes, LeavesInPlace
<1>2. OneUnderway'
  BY DEF StateInv, OneUnderway, Underway
<1>3. TaskProjection(persisted') = TaskProjection(persisted)
  BY ProjectionOfPlans DEF LeavesInPlace
<1>4. StatusTold'
  BY <1>3 DEF StateInv, StatusTold, Live
<1>5. \A t \in SurfaceTurns : (Live(t)' => HoldsEntries(t)' /\ HoldsPlans(t)') /\ (~Live(t)' => delta'[t] = <<>>)
  BY WriteDisturbsNone DEF StateInv, Live
<1>6. KeepsPlaces(persisted, persisted')
  BY DEF KeepsPlaces, LeavesInPlace
<1> QED
  BY <1>1, <1>2, <1>4, <1>5, <1>6 DEF StateInv

LEMMA AnswerSettles ==
    ASSUME StateInv, LeavesInPlace(persisted, persisted'), NEW c \in SurfaceClients,
           NEW status, status # 0, Answered(c, status)
    PROVE  DOMAIN posting' = SurfaceClients /\ \A d \in SurfaceClients : PostsEntry(d)'
<1>1. DOMAIN posting = SurfaceClients
  BY DEF StateInv, StateTypes
<1>2. DOMAIN posting' = SurfaceClients /\ posting'[c].status # 0
       /\ \A d \in SurfaceClients : d # c => posting'[d] = posting[d]
  BY <1>1 DEF Answered
<1>3. ASSUME NEW d \in SurfaceClients PROVE PostsEntry(d)'
  <2>1. CASE d = c
    BY <1>2, <2>1 DEF PostsEntry
  <2>2. CASE d # c
    BY <1>2, <2>2 DEF PostsEntry, StateInv, LeavesInPlace
  <2> QED
    BY <2>1, <2>2
<1> QED
  BY <1>2, <1>3

LEMMA SameStateInPlace == StateInv => LeavesInPlace(persisted, persisted)
BY DEF StateInv, StateTypes, LeavesInPlace

LEMMA RequestSteps ==
    ASSUME StateInv, NEW c \in SurfaceClients,
           \/ posting[c] = None /\ \E g \in Gates : Refused(c, g)
           \/ \E s \in SessionSurfaces : PostSurfaceAction(c, s) \/ \E e \in {c, None} : PostSurfaceData(c, s, e)
           \/ SurfaceDataAppends(c)
           \/ \E b \in BOOLEAN : PostIframeContext(c, b)
    PROVE  StateInv' /\ KeepsPlaces(persisted, persisted')
<1>0. StateSound(persisted) /\ DOMAIN posting = SurfaceClients
  BY DEF StateInv, StateTypes
<1>1. ASSUME NEW g \in Gates, Refused(c, g)
      PROVE  StateInv' /\ KeepsPlaces(persisted, persisted')
  <2>1. PICK status : status = IF g \in DOMAIN RootGate THEN RootGate[g] ELSE SizeGate[g]
    OBVIOUS
  <2>2. status # 0
    BY <1>1, <2>1 DEF Refused, Gates, RootGate, SizeGate
  <2>3. Answered(c, status) /\ LeavesInPlace(persisted, persisted')
    BY <1>1, <2>1, SameStateInPlace DEF Refused
  <2>4. DOMAIN posting' = SurfaceClients /\ \A d \in SurfaceClients : PostsEntry(d)'
    BY <2>2, <2>3, AnswerSettles
  <2> QED
    BY <1>1, <2>3, <2>4, RequestKeeps DEF Refused
<1>2. ASSUME NEW s \in SessionSurfaces, PostSurfaceAction(c, s)
      PROVE  StateInv' /\ KeepsPlaces(persisted, persisted')
  <2>1. LeavesInPlace(persisted, persisted')
    BY <1>0, <1>2, OtherKeyWritten, KeysApart, KeysThere DEF PostSurfaceAction
  <2>2. DOMAIN posting' = SurfaceClients /\ \A d \in SurfaceClients : PostsEntry(d)'
    BY <1>2, <2>1, AnswerSettles DEF PostSurfaceAction
  <2> QED
    BY <1>2, <2>1, <2>2, RequestKeeps DEF PostSurfaceAction
<1>3. ASSUME NEW s \in SessionSurfaces, NEW e \in {c, None}, PostSurfaceData(c, s, e)
      PROVE  StateInv' /\ KeepsPlaces(persisted, persisted')
  <2>1. LeavesInPlace(persisted, persisted')
    BY <1>3, SameStateInPlace DEF PostSurfaceData
  <2>2. DOMAIN posting' = SurfaceClients /\ \A d \in SurfaceClients : PostsEntry(d)'
    <3>1. CASE persisted[Stash(s)] = None
      BY <1>3, <2>1, <3>1, AnswerSettles DEF PostSurfaceData
    <3>2. CASE persisted[Stash(s)] # None
      <4>1. PICK pl : pl = [persisted[Stash(s)] EXCEPT !.edit = e]
        OBVIOUS
      <4>2. pl \in Entries /\ pl.created = persisted[Stash(s)].created
        BY <1>0, <3>2, <4>1 DEF StateSound, Entries
      <4>3. posting' = [posting EXCEPT ![c] = [status |-> 0, surface |-> s, payload |-> pl]]
        BY <1>3, <3>2, <4>1 DEF PostSurfaceData
      <4>4. ASSUME NEW d \in SurfaceClients PROVE PostsEntry(d)'
        <5>1. CASE d = c
          <6>1. posting'[d].surface = s /\ posting'[d].payload = pl
            BY <1>0, <4>3, <5>1
          <6> QED
            BY <1>3, <3>2, <4>2, <6>1 DEF PostsEntry, PostSurfaceData
        <5>2. CASE d # c
          BY <1>0, <1>3, <4>3, <5>2 DEF PostsEntry, StateInv, PostSurfaceData
        <5> QED
          BY <5>1, <5>2
      <4> QED
        BY <1>0, <4>3, <4>4
    <3> QED
      BY <3>1, <3>2
  <2> QED
    BY <1>3, <2>1, <2>2, RequestKeeps DEF PostSurfaceData
<1>4. ASSUME SurfaceDataAppends(c)
      PROVE  StateInv' /\ KeepsPlaces(persisted, persisted')
  <2>1. PostsEntry(c)
    BY DEF StateInv
  <2>2. LeavesInPlace(persisted, persisted')
    BY <1>0, <1>4, <2>1, EntryWritten DEF SurfaceDataAppends, PostsEntry
  <2>3. DOMAIN posting' = SurfaceClients /\ \A d \in SurfaceClients : PostsEntry(d)'
    BY <1>4, <2>2, AnswerSettles DEF SurfaceDataAppends
  <2> QED
    BY <1>4, <2>2, <2>3, RequestKeeps DEF SurfaceDataAppends
<1>5. ASSUME NEW b \in BOOLEAN, PostIframeContext(c, b)
      PROVE  StateInv' /\ KeepsPlaces(persisted, persisted')
  <2>1. LeavesInPlace(persisted, persisted')
    <3>1. CASE b
      BY <1>5, <3>1, SameStateInPlace DEF PostIframeContext
    <3>2. CASE ~b
      BY <1>0, <1>5, <3>2, OtherKeyWritten, KeysApart, KeysThere DEF PostIframeContext
    <3> QED
      BY <3>1, <3>2
  <2>2. DOMAIN posting' = SurfaceClients /\ \A d \in SurfaceClients : PostsEntry(d)'
    BY <1>5, <2>1, AnswerSettles DEF PostIframeContext
  <2> QED
    BY <1>5, <2>1, <2>2, RequestKeeps DEF PostIframeContext
<1> QED
  BY <1>1, <1>2, <1>3, <1>4, <1>5

(* What a turn's own step has to keep, the others being at rest.            *)
NoneCut == \A u \in SurfaceTurns : turnAt[u] # "cut"

TurnSound(t) ==
    IF Live(t) THEN HoldsEntries(t) /\ HoldsPlans(t) /\ (NoneCut => rowStatus = TaskProjection(held[t]))
    ELSE delta[t] = <<>> /\ ~Underway(t) /\ (NoneCut => rowStatus = TaskProjection(persisted))

LEMMA TurnAlone ==
    ASSUME StateInv, NEW t \in SurfaceTurns, Underway(t), StateTypes', UNCHANGED posting,
           \A u \in SurfaceTurns \ {t} : turnAt'[u] = turnAt[u] /\ delta'[u] = delta[u],
           KeepsPlaces(persisted, persisted'), TurnSound(t)'
    PROVE  StateInv'
<1>1. \A u \in SurfaceTurns \ {t} : ~Underway(u) /\ ~Live(u) /\ ~Underway(u)' /\ ~Live(u)' /\ delta'[u] = <<>>
  BY DEF StateInv, OneUnderway, Underway, Live
<1>2. OneUnderway'
  BY <1>1 DEF OneUnderway
<1>3. \A u \in SurfaceTurns : (Live(u)' => HoldsEntries(u)' /\ HoldsPlans(u)') /\ (~Live(u)' => delta'[u] = <<>>)
  BY <1>1 DEF TurnSound
<1>4. \A c \in SurfaceClients : PostsEntry(c)'
  BY DEF StateInv, PostsEntry, KeepsPlaces
<1>5. StatusTold'
  BY <1>1 DEF StatusTold, NoneCut, TurnSound
<1> QED
  BY <1>2, <1>3, <1>4, <1>5 DEF StateInv

LEMMA TurnSeeds ==
    ASSUME ~Overlap, StateInv, NEW t \in SurfaceTurns, NEW s \in SessionSurfaces \cup {None}, SeedTurn(t, s)
    PROVE  StateInv' /\ KeepsPlaces(persisted, persisted')
<1>1. LeavesInPlace(persisted, persisted')
  <2>1. CASE s = None
    BY <2>1, SameStateInPlace DEF SeedTurn
  <2>2. CASE s # None
    BY <2>2, OtherKeyWritten, KeysApart, KeysThere DEF SeedTurn, StateInv, StateTypes
  <2> QED
    BY <2>1, <2>2
<1>2. StateTypes'
  BY <1>1 DEF SeedTurn, StateInv, StateTypes, LeavesInPlace
<1>3. \A u \in SurfaceTurns : ~Underway(u) /\ ~Live(u) /\ ~Live(u)' /\ delta'[u] = <<>> /\ (Underway(u)' => u = t)
  BY DEF SeedTurn, Busy, Underway, Live, StateInv, StateTypes
<1>4. StatusTold'
  <2>1. TaskProjection(persisted') = TaskProjection(persisted)
    BY <1>1, ProjectionOfPlans DEF LeavesInPlace
  <2>2. (\A u \in SurfaceTurns : turnAt'[u] # "cut") => \A u \in SurfaceTurns : turnAt[u] # "cut"
    BY DEF SeedTurn, StateInv, StateTypes
  <2> QED
    BY <1>3, <2>1, <2>2 DEF StatusTold, StateInv, SeedTurn
<1>5. \A c \in SurfaceClients : PostsEntry(c)'
  BY <1>1 DEF SeedTurn, StateInv, PostsEntry, LeavesInPlace
<1>6. KeepsPlaces(persisted, persisted')
  BY <1>1 DEF KeepsPlaces, LeavesInPlace
<1> QED
  BY <1>2, <1>3, <1>4, <1>5, <1>6 DEF StateInv, OneUnderway

LEMMA TurnLoadsKeeps ==
    ASSUME StateInv, NEW t \in SurfaceTurns, TurnLoads(t)
    PROVE  StateInv' /\ KeepsPlaces(persisted, persisted')
<1>1. PICK h : h = CaptureSubmission(t, persisted)
  OBVIOUS
<1>2. DOMAIN h = StateKeys /\ \A k \in StateKeys \ {FormData} : h[k] = persisted[k]
  BY <1>1, KeysThere DEF CaptureSubmission, StateInv, StateTypes, StateSound
<1>3. h[FormData] = IF trigger[t] \in SessionForms THEN trigger[t] ELSE persisted[FormData]
  BY <1>1, KeysThere DEF CaptureSubmission, StateInv, StateTypes, StateSound
<1>4. held' = [held EXCEPT ![t] = h]
  BY <1>1 DEF TurnLoads
<1>5. StateSound(persisted) /\ DOMAIN held = SurfaceTurns /\ DOMAIN delta = SurfaceTurns
  BY DEF StateInv, StateTypes
<1>6. held'[t] = h
  BY <1>4, <1>5
<1>7. DOMAIN delta'[t] \subseteq {FormData} /\ (FormData \in DOMAIN delta'[t] => delta'[t][FormData] = h[FormData])
  <2>1. CASE trigger[t] \in SessionForms
    BY <1>3, <1>5, <2>1 DEF TurnLoads
  <2>2. CASE trigger[t] \notin SessionForms
    BY <1>5, <2>2 DEF TurnLoads
  <2> QED
    BY <2>1, <2>2
<1>8. StateSound(h) /\ \A s \in SessionSurfaces : h[Stash(s)] = persisted[Stash(s)]
  BY <1>2, <1>5, KeysApart, KeysThere DEF StateSound
<1>9. HoldsEntries(t)'
  BY <1>6, <1>7, <1>8, KeysApart, KeysThere DEF HoldsEntries, TurnLoads
<1>10. HoldsPlans(t)'
  BY <1>2, <1>6, <1>7, KeysApart, KeysThere DEF HoldsPlans, TurnLoads
<1>11. TaskProjection(h) = TaskProjection(persisted)
  BY <1>2, KeysApart, KeysThere, ProjectionOfPlans
<1>12. \A u \in SurfaceTurns : ~Live(u)
  BY DEF StateInv, OneUnderway, Underway, Live, TurnLoads
<1>13. NoneCut' => rowStatus' = TaskProjection(held'[t])
  BY <1>6, <1>11, <1>12 DEF NoneCut, TurnLoads, StateInv, StateTypes, StatusTold
<1>14. StateTypes' /\ Live(t)'
  BY DEF StateInv, StateTypes, TurnLoads, Live
<1>15. TurnSound(t)'
  BY <1>9, <1>10, <1>13, <1>14 DEF TurnSound
<1>16. KeepsPlaces(persisted, persisted')
  BY DEF KeepsPlaces, TurnLoads
<1> QED
  BY <1>14, <1>15, <1>16, TurnAlone DEF TurnLoads, Underway, StateInv, StateTypes

(* A turn's own write: entries go where they are, or are new.               *)
LEMMA WriteKeeps ==
    ASSUME StateInv, NEW t \in SurfaceTurns, Live(t), NEW change, DOMAIN change \subseteq StateKeys,
           \A s \in SessionSurfaces : Stash(s) \in DOMAIN change =>
               /\ change[Stash(s)] \in Entries
               /\ held[t][Stash(s)] # None => change[Stash(s)].created = held[t][Stash(s)].created,
           Writes(t, change), UNCHANGED persisted
    PROVE  /\ HoldsEntries(t)' /\ HoldsPlans(t)'
           /\ DOMAIN held' = SurfaceTurns /\ DOMAIN delta' = SurfaceTurns
           /\ held'[t] = Merged(change, held[t])
           /\ \A u \in SurfaceTurns \ {t} : delta'[u] = delta[u]
<1>1. DOMAIN held = SurfaceTurns /\ DOMAIN delta = SurfaceTurns /\ HoldsEntries(t) /\ HoldsPlans(t)
  BY DEF StateInv, StateTypes
<1>2. PICK h : h = Merged(change, held[t])
  OBVIOUS
<1>3. PICK d : d = Merged(change, delta[t])
  OBVIOUS
<1>4. held' = [held EXCEPT ![t] = h] /\ delta' = [delta EXCEPT ![t] = d]
  BY <1>2, <1>3 DEF Writes
<1>5. held'[t] = h /\ delta'[t] = d
  BY <1>1, <1>4
<1>6. DOMAIN h = StateKeys /\ \A k \in StateKeys : h[k] = IF k \in DOMAIN change THEN change[k] ELSE held[t][k]
  BY <1>1, <1>2 DEF Merged, HoldsEntries, StateSound
<1>7. /\ DOMAIN d = DOMAIN change \cup DOMAIN delta[t]
      /\ \A k \in DOMAIN d : d[k] = IF k \in DOMAIN change THEN change[k] ELSE delta[t][k]
  BY <1>3 DEF Merged
<1>8. DOMAIN d \subseteq StateKeys /\ \A k \in DOMAIN d : d[k] = h[k]
  BY <1>1, <1>6, <1>7 DEF HoldsEntries
<1>9. StateSound(h)
  BY <1>1, <1>6, KeysThere DEF HoldsEntries, StateSound
<1>10. \A s \in SessionSurfaces : Stash(s) \in DOMAIN d => d[Stash(s)] \in Entries
  BY <1>1, <1>7 DEF HoldsEntries
<1>11. ASSUME NEW s \in SessionSurfaces, persisted[Stash(s)] # None
       PROVE  h[Stash(s)] # None /\ h[Stash(s)].created = persisted[Stash(s)].created
  <2>1. held[t][Stash(s)] # None /\ held[t][Stash(s)].created = persisted[Stash(s)].created
    BY <1>1, <1>11 DEF HoldsEntries
  <2>2. Stash(s) \in StateKeys
    BY KeysThere
  <2>3. CASE Stash(s) \in DOMAIN change
    BY <1>6, <2>1, <2>2, <2>3, SurfaceAssumption DEF Entries
  <2>4. CASE Stash(s) \notin DOMAIN change
    BY <1>6, <2>1, <2>2, <2>4
  <2> QED
    BY <2>3, <2>4
<1>12. HoldsEntries(t)'
  BY <1>5, <1>8, <1>9, <1>10, <1>11 DEF HoldsEntries
<1>13. ASSUME NEW p \in 1..PlanLimit
       PROVE  h[Plan(p)] = IF Plan(p) \in DOMAIN d THEN d[Plan(p)] ELSE persisted[Plan(p)]
  BY <1>1, <1>6, <1>7, KeysThere DEF HoldsPlans
<1>14. HoldsPlans(t)'
  BY <1>5, <1>13 DEF HoldsPlans
<1> QED
  BY <1>1, <1>2, <1>4, <1>5, <1>12, <1>14

LEMMA EntryStashed ==
    ASSUME StateInv, NEW t \in SurfaceTurns, Live(t), NEW s \in SessionSurfaces, renders < MaxRenders
    PROVE  /\ StashedEntry(t, s) \in Entries
           /\ held[t][Stash(s)] # None => StashedEntry(t, s).created = held[t][Stash(s)].created
<1>1. held[t][Stash(s)] \in Entries \cup {None} /\ renders \in 0..MaxRenders /\ MaxRenders \in Nat
  BY SurfaceAssumption DEF StateInv, StateTypes, HoldsEntries, StateSound
<1>2. renders + 1 \in 1..MaxRenders
  BY <1>1
<1> QED
  BY <1>1, <1>2 DEF StashedEntry, Entries

LEMMA RenderKeeps ==
    ASSUME StateInv, NEW t \in SurfaceTurns, NEW s \in Artefacts, RenderArtefact(t, s)
    PROVE  StateInv' /\ KeepsPlaces(persisted, persisted')
<1>1. Live(t) /\ s \in SessionSurfaces /\ Live(t)'
  BY DEF RenderArtefact, Live, SessionSurfaces
<1>2. PICK change : change = [k \in {Stash(s)} |-> StashedEntry(t, s)]
  OBVIOUS
<1>3. DOMAIN change = {Stash(s)} /\ change[Stash(s)] = StashedEntry(t, s) /\ Writes(t, change)
  BY <1>2 DEF RenderArtefact
<1>4. /\ HoldsEntries(t)' /\ HoldsPlans(t)'
      /\ DOMAIN held' = SurfaceTurns /\ DOMAIN delta' = SurfaceTurns
      /\ held'[t] = Merged(change, held[t])
      /\ \A u \in SurfaceTurns \ {t} : delta'[u] = delta[u]
  <2>1. DOMAIN change \subseteq StateKeys
    BY <1>1, <1>3, KeysThere
  <2>2. \A r \in SessionSurfaces : Stash(r) \in DOMAIN change =>
               /\ change[Stash(r)] \in Entries
               /\ held[t][Stash(r)] # None => change[Stash(r)].created = held[t][Stash(r)].created
    BY <1>1, <1>3, EntryStashed, KeysApart DEF RenderArtefact
  <2> QED
    BY <1>1, <1>3, <2>1, <2>2, WriteKeeps DEF RenderArtefact
<1>5. StateTypes'
  BY <1>4, SurfaceAssumption DEF StateInv, StateTypes, RenderArtefact
<1>6. TaskProjection(held'[t]) = TaskProjection(held[t])
  <2>1. \A p \in 1..PlanLimit : held'[t][Plan(p)] = held[t][Plan(p)]
    BY <1>1, <1>3, <1>4, KeysApart, KeysThere DEF Merged, StateInv, HoldsEntries, StateSound
  <2> QED
    BY <2>1, ProjectionOfPlans
<1>7. NoneCut' => rowStatus' = TaskProjection(held'[t])
  BY <1>1, <1>6 DEF NoneCut, RenderArtefact, StateInv, StatusTold
<1>8. TurnSound(t)'
  BY <1>1, <1>4, <1>7 DEF TurnSound
<1> QED
  BY <1>1, <1>4, <1>5, <1>8, TurnAlone DEF RenderArtefact, Underway, Live, KeepsPlaces

LEMMA ConfirmationKeeps ==
    ASSUME StateInv, NEW t \in SurfaceTurns, RequestConfirmation(t)
    PROVE  StateInv' /\ KeepsPlaces(persisted, persisted')
<1>0. PICK f : f = NextElicitSeq(t)
  OBVIOUS
<1>1. Live(t) /\ f \in SessionForms /\ f \in SessionSurfaces
  BY <1>0 DEF RequestConfirmation, Live, SessionSurfaces
<1>2. PICK change : change = [k \in {ElicitSeq, Stash(f)} |-> IF k = ElicitSeq THEN f ELSE StashedEntry(t, f)]
  OBVIOUS
<1>3. DOMAIN change = {ElicitSeq, Stash(f)} /\ change[Stash(f)] = StashedEntry(t, f) /\ Writes(t, change)
  BY <1>0, <1>2, KeysApart DEF RequestConfirmation
<1>4. /\ HoldsEntries(t)' /\ HoldsPlans(t)'
      /\ DOMAIN held' = SurfaceTurns /\ DOMAIN delta' = SurfaceTurns
      /\ held'[t] = Merged(change, held[t])
      /\ \A u \in SurfaceTurns \ {t} : delta'[u] = delta[u]
  <2>1. DOMAIN change \subseteq StateKeys
    BY <1>1, <1>3, KeysThere
  <2>2. \A r \in SessionSurfaces : Stash(r) \in DOMAIN change =>
               /\ change[Stash(r)] \in Entries
               /\ held[t][Stash(r)] # None => change[Stash(r)].created = held[t][Stash(r)].created
    BY <1>1, <1>3, EntryStashed, KeysApart DEF RequestConfirmation
  <2> QED
    BY <1>1, <1>3, <2>1, <2>2, WriteKeeps DEF RequestConfirmation
<1>5. StateTypes' /\ Live(t)'
  BY <1>4, SurfaceAssumption DEF StateInv, StateTypes, RequestConfirmation, PauseTurn, Live
<1>6. TaskProjection(held'[t]) = TaskProjection(held[t])
  <2>1. \A p \in 1..PlanLimit : held'[t][Plan(p)] = held[t][Plan(p)]
    BY <1>1, <1>3, <1>4, KeysApart, KeysThere DEF Merged, StateInv, HoldsEntries, StateSound
  <2> QED
    BY <2>1, ProjectionOfPlans
<1>7. NoneCut' => rowStatus' = TaskProjection(held'[t])
  <2>1. NoneCut' => NoneCut
    BY DEF NoneCut, RequestConfirmation, PauseTurn, StateInv, StateTypes
  <2> QED
    BY <1>1, <1>6, <2>1 DEF NoneCut, RequestConfirmation, StateInv, StatusTold
<1>8. TurnSound(t)'
  BY <1>4, <1>5, <1>7 DEF TurnSound
<1>9. \A u \in SurfaceTurns \ {t} : turnAt'[u] = turnAt[u]
  BY DEF RequestConfirmation, PauseTurn, StateInv, StateTypes
<1> QED
  BY <1>1, <1>4, <1>5, <1>8, <1>9, TurnAlone DEF RequestConfirmation, Underway, Live, KeepsPlaces

LEMMA PlanKeeps ==
    ASSUME StateInv, NEW t \in SurfaceTurns, NEW p \in 1..PlanLimit, NEW e, NEW l, UpdateTaskPlan(t, p, e, l)
    PROVE  StateInv' /\ KeepsPlaces(persisted, persisted')
<1>0. PICK plan : plan = UpdatedPlan(t, p, e, l)
  OBVIOUS
<1>1. Live(t) /\ Live(t)'
  BY DEF UpdateTaskPlan, Live
<1>2. PICK change : change = [k \in {Plan(p)} |-> plan]
  OBVIOUS
<1>3. DOMAIN change = {Plan(p)} /\ change[Plan(p)] = plan /\ Writes(t, change)
  BY <1>0, <1>2 DEF UpdateTaskPlan
<1>4. /\ HoldsEntries(t)' /\ HoldsPlans(t)'
      /\ DOMAIN held' = SurfaceTurns /\ DOMAIN delta' = SurfaceTurns
      /\ held'[t] = Merged(change, held[t])
      /\ \A u \in SurfaceTurns \ {t} : delta'[u] = delta[u]
  <2>1. DOMAIN change \subseteq StateKeys
    BY <1>3, KeysThere
  <2>2. \A r \in SessionSurfaces : Stash(r) \notin DOMAIN change
    BY <1>3, KeysApart
  <2> QED
    BY <1>1, <1>3, <2>1, <2>2, WriteKeeps DEF UpdateTaskPlan
<1>5. StateTypes'
  BY <1>4, SurfaceAssumption DEF StateInv, StateTypes, UpdateTaskPlan
<1>6. rowStatus' = TaskProjection(held'[t])
  <2>1. DOMAIN held[t] = StateKeys
    BY <1>1 DEF StateInv, HoldsEntries, StateSound
  <2>2. PICK g : g = [held[t] EXCEPT ![Plan(p)] = plan]
    OBVIOUS
  <2>3. g[Plan(p)] = plan /\ \A q \in 1..PlanLimit : q # p => g[Plan(q)] = held[t][Plan(q)]
    BY <2>1, <2>2, KeysApart, KeysThere
  <2>4. held'[t][Plan(p)] = plan /\ \A q \in 1..PlanLimit : q # p => held'[t][Plan(q)] = held[t][Plan(q)]
    BY <1>3, <1>4, <2>1, KeysApart, KeysThere DEF Merged
  <2>5. \A q \in 1..PlanLimit : g[Plan(q)] = held'[t][Plan(q)]
    BY <2>3, <2>4
  <2>6. TaskProjection(g) = TaskProjection(held'[t])
    BY <2>5, ProjectionOfPlans
  <2> QED
    BY <1>0, <2>2, <2>6 DEF UpdateTaskPlan, ReportedStatus
<1>7. TurnSound(t)'
  BY <1>1, <1>4, <1>6 DEF TurnSound
<1> QED
  BY <1>1, <1>4, <1>5, <1>7, TurnAlone DEF UpdateTaskPlan, Underway, Live, KeepsPlaces

LEMMA AppendKeeps ==
    ASSUME StateInv, NEW t \in SurfaceTurns, TurnAppends(t)
    PROVE  StateInv' /\ KeepsPlaces(persisted, persisted')
<1>1. /\ Live(t) /\ HoldsEntries(t) /\ HoldsPlans(t) /\ StateSound(persisted)
      /\ DOMAIN held = SurfaceTurns /\ DOMAIN delta = SurfaceTurns
  BY DEF TurnAppends, Live, StateInv, StateTypes
<1>2. PICK m : m = Merged(delta[t], persisted)
  OBVIOUS
<1>3. /\ DOMAIN m = StateKeys /\ persisted' = m
      /\ \A k \in StateKeys : m[k] = IF k \in DOMAIN delta[t] THEN held[t][k] ELSE persisted[k]
  BY <1>1, <1>2 DEF Merged, HoldsEntries, StateSound, TurnAppends
<1>4. StateSound(m)
  BY <1>1, <1>3, KeysThere DEF HoldsEntries, StateSound
<1>5. \A s \in SessionSurfaces : m[Stash(s)] # None =>
          held[t][Stash(s)] # None /\ held[t][Stash(s)].created = m[Stash(s)].created
  BY <1>1, <1>3, KeysThere DEF HoldsEntries
<1>6. \A p \in 1..PlanLimit : m[Plan(p)] = held[t][Plan(p)]
  BY <1>1, <1>3, KeysThere DEF HoldsEntries, HoldsPlans
<1>7. KeepsPlaces(persisted, persisted')
  BY <1>1, <1>3, KeysThere DEF KeepsPlaces, HoldsEntries
<1>8. delta' = [delta EXCEPT ![t] = <<>>] /\ delta'[t] = <<>> /\ \A u \in SurfaceTurns \ {t} : delta'[u] = delta[u]
  BY <1>1 DEF TurnAppends
<1>9. StateTypes'
  BY <1>3, <1>4, <1>8 DEF StateInv, StateTypes, TurnAppends
<1>10. TaskProjection(m) = TaskProjection(held[t])
  BY <1>6, ProjectionOfPlans
<1>11. NoneCut' => NoneCut /\ rowStatus' = TaskProjection(held[t])
  <2>1. NoneCut' => NoneCut
    BY DEF NoneCut, TurnAppends, StateInv, StateTypes
  <2> QED
    BY <1>1, <2>1 DEF NoneCut, TurnAppends, StateInv, StatusTold
<1>12. TurnSound(t)'
  <2>1. CASE turnAt[t] = "running"
    <3>1. held'[t] = held[t] /\ turnAt'[t] = "running"
      BY <1>1, <2>1 DEF TurnAppends, StateInv, StateTypes
    <3>2. HoldsEntries(t)'
      BY <1>1, <1>3, <1>5, <1>8, <3>1 DEF HoldsEntries
    <3>3. HoldsPlans(t)'
      BY <1>3, <1>6, <1>8, <3>1 DEF HoldsPlans
    <3> QED
      BY <1>11, <3>1, <3>2, <3>3 DEF TurnSound, Live
  <2>2. CASE turnAt[t] = "pausing"
    <3>1. turnAt'[t] = "ended"
      BY <2>2 DEF TurnAppends, StateInv, StateTypes
    <3> QED
      BY <1>3, <1>8, <1>10, <1>11, <3>1 DEF TurnSound, Live, Underway
  <2> QED
    BY <2>1, <2>2 DEF TurnAppends
<1>13. \A u \in SurfaceTurns \ {t} : turnAt'[u] = turnAt[u]
  BY DEF TurnAppends, StateInv, StateTypes
<1> QED
  BY <1>1, <1>7, <1>8, <1>9, <1>12, <1>13, TurnAlone DEF TurnAppends, Underway, Live

LEMMA EndKeeps ==
    ASSUME StateInv, NEW t \in SurfaceTurns, TurnEnds(t) \/ TurnCut(t)
    PROVE  StateInv' /\ KeepsPlaces(persisted, persisted')
<1>1. KeepsPlaces(persisted, persisted')
  BY DEF KeepsPlaces, TurnEnds, TurnCut
<1>2. /\ StateTypes' /\ ~Underway(t)' /\ ~Live(t)' /\ delta'[t] = <<>>
      /\ \A u \in SurfaceTurns \ {t} : turnAt'[u] = turnAt[u] /\ delta'[u] = delta[u]
  BY DEF StateInv, StateTypes, TurnEnds, TurnCut, Underway, Live
<1>3. NoneCut' => rowStatus' = TaskProjection(persisted')
  <2>1. CASE TurnEnds(t)
    <3>1. Live(t) /\ HoldsPlans(t) /\ delta[t] = <<>> /\ (NoneCut' => NoneCut)
      BY <2>1 DEF TurnEnds, Live, StateInv, StateTypes, NoneCut
    <3>2. \A p \in 1..PlanLimit : held[t][Plan(p)] = persisted[Plan(p)]
      BY <3>1 DEF HoldsPlans
    <3>3. TaskProjection(held[t]) = TaskProjection(persisted)
      BY <3>2, ProjectionOfPlans
    <3> QED
      BY <2>1, <3>1, <3>3 DEF TurnEnds, NoneCut, StateInv, StatusTold
  <2>2. CASE TurnCut(t)
    BY <2>2 DEF TurnCut, NoneCut, StateInv, StateTypes
  <2> QED
    BY <2>1, <2>2
<1>4. TurnSound(t)'
  BY <1>2, <1>3 DEF TurnSound
<1> QED
  BY <1>1, <1>2, <1>4, TurnAlone DEF TurnEnds, TurnCut, Underway

LEMMA StateKeeps ==
    ASSUME ~Overlap, StateInv, [SurfaceNext]_surfaceVars
    PROVE  StateInv' /\ KeepsPlaces(persisted, persisted')
<1>1. CASE \E c \in SurfaceClients :
              \/ posting[c] = None /\ \E g \in Gates : Refused(c, g)
              \/ \E s \in SessionSurfaces : PostSurfaceAction(c, s) \/ \E e \in {c, None} : PostSurfaceData(c, s, e)
              \/ SurfaceDataAppends(c)
              \/ \E b \in BOOLEAN : PostIframeContext(c, b)
  BY <1>1, RequestSteps
<1>2. ASSUME NEW f \in SessionForms, NEW v, FillForm(f, v)
      PROVE  StateInv' /\ KeepsPlaces(persisted, persisted')
  BY <1>2 DEF FillForm, StateInv, StateTypes, OneUnderway, Underway, StatusTold, Live, HoldsEntries, HoldsPlans,
       PostsEntry, KeepsPlaces, StateSound
<1>3. ASSUME NEW t \in SurfaceTurns, NEW s \in SessionSurfaces \cup {None}, SeedTurn(t, s)
      PROVE  StateInv' /\ KeepsPlaces(persisted, persisted')
  BY <1>3, TurnSeeds
<1>4. ASSUME NEW t \in SurfaceTurns, TurnLoads(t) \/ RequestConfirmation(t)
      PROVE  StateInv' /\ KeepsPlaces(persisted, persisted')
  BY <1>4, TurnLoadsKeeps, ConfirmationKeeps
<1>5. ASSUME NEW t \in SurfaceTurns, TakeValues(t)
      PROVE  StateInv' /\ KeepsPlaces(persisted, persisted')
  BY <1>5 DEF TakeValues, StateInv, StateTypes, OneUnderway, Underway, StatusTold, Live, HoldsEntries, HoldsPlans,
       PostsEntry, KeepsPlaces, StateSound
<1>6. ASSUME NEW t \in SurfaceTurns, TurnAppends(t) \/ TurnEnds(t) \/ TurnCut(t)
      PROVE  StateInv' /\ KeepsPlaces(persisted, persisted')
  BY <1>6, AppendKeeps, EndKeeps
<1>7. ASSUME NEW t \in SurfaceTurns, NEW s \in Artefacts, RenderArtefact(t, s)
      PROVE  StateInv' /\ KeepsPlaces(persisted, persisted')
  BY <1>7, RenderKeeps
<1>8. ASSUME NEW t \in SurfaceTurns, NEW p \in 1..PlanLimit, NEW e \in 0..MaxRenders, NEW l \in StepLists,
             UpdateTaskPlan(t, p, e, l)
      PROVE  StateInv' /\ KeepsPlaces(persisted, persisted')
  BY <1>8, PlanKeeps
<1>9. CASE UNCHANGED surfaceVars
  BY <1>9 DEF surfaceVars, StateInv, StateTypes, OneUnderway, Underway, StatusTold, Live, HoldsEntries, HoldsPlans,
       PostsEntry, KeepsPlaces, StateSound
<1> QED
  BY <1>1, <1>2, <1>3, <1>4, <1>5, <1>6, <1>7, <1>8, <1>9, Zenon DEF SurfaceNext

(* The form an action run reads: what it was triggered by stays on screen.  *)
ReadInv ==
    /\ DOMAIN readBack = SurfaceTurns /\ DOMAIN trigger = SurfaceTurns /\ DOMAIN turnAt = SurfaceTurns
    /\ filled \in [SessionForms -> {None, "blank", "value"}]
    /\ \A t \in SurfaceTurns :
          /\ turnAt[t] = "new" => readBack[t] = None
          /\ turnAt[t] # "new" /\ trigger[t] \in SessionForms => filled[trigger[t]] # None
    /\ SubmittedFormIsRead

LEMMA ReadStarts == SurfaceInit => ReadInv
BY DEF SurfaceInit, ReadInv, SubmittedFormIsRead

LEMMA ReadKeeps == ReadInv /\ [SurfaceNext]_surfaceVars => ReadInv'
<1> SUFFICES ASSUME ReadInv, [SurfaceNext]_surfaceVars PROVE ReadInv'
  OBVIOUS
<1> USE DEF ReadInv, SubmittedFormIsRead
<1>1. ASSUME UNCHANGED <<turnAt, trigger, filled, readBack>> PROVE ReadInv'
  BY <1>1
<1>2. CASE \E c \in SurfaceClients :
              \/ posting[c] = None /\ \E g \in Gates : Refused(c, g)
              \/ \E s \in SessionSurfaces : PostSurfaceAction(c, s) \/ \E e \in {c, None} : PostSurfaceData(c, s, e)
              \/ SurfaceDataAppends(c)
              \/ \E b \in BOOLEAN : PostIframeContext(c, b)
  <2>1. UNCHANGED <<turnAt, trigger, filled, readBack>>
    BY <1>2 DEF Refused, PostSurfaceAction, PostSurfaceData, SurfaceDataAppends, PostIframeContext
  <2> QED
    BY <1>1, <2>1
<1>4. ASSUME NEW f \in SessionForms, NEW v \in {"blank", "value"}, FillForm(f, v)
      PROVE  ReadInv'
  BY <1>4, SurfaceAssumption DEF FillForm
<1>5. ASSUME NEW t \in SurfaceTurns, NEW s \in SessionSurfaces \cup {None}, SeedTurn(t, s)
      PROVE  ReadInv'
  <2>1. s \in SessionForms => filled[s] # None
    BY <1>5 DEF SeedTurn
  <2>2. turnAt'[t] = "seeded" /\ trigger'[t] = s /\ readBack'[t] = None
    BY <1>5 DEF SeedTurn
  <2>3. \A u \in SurfaceTurns : u # t => turnAt'[u] = turnAt[u] /\ trigger'[u] = trigger[u]
    BY <1>5 DEF SeedTurn
  <2> QED
    BY <1>5, <2>1, <2>2, <2>3 DEF SeedTurn
<1>6. ASSUME NEW t \in SurfaceTurns, TurnLoads(t) \/ TurnAppends(t) \/ TurnEnds(t) \/ TurnCut(t)
      PROVE  ReadInv'
  <2>1. \A u \in SurfaceTurns : turnAt'[u] = "new" <=> turnAt[u] = "new"
    BY <1>6 DEF TurnLoads, TurnAppends, TurnEnds, TurnCut
  <2> QED
    BY <1>6, <2>1 DEF TurnLoads, TurnAppends, TurnEnds, TurnCut
<1>7. ASSUME NEW t \in SurfaceTurns, RequestConfirmation(t)
      PROVE  ReadInv'
  <2>1. \A u \in SurfaceTurns : turnAt'[u] = "new" <=> turnAt[u] = "new"
    BY <1>7 DEF RequestConfirmation, PauseTurn
  <2> QED
    BY <1>7, <2>1, SurfaceAssumption DEF RequestConfirmation, PauseTurn
<1>8. ASSUME NEW t \in SurfaceTurns, TakeValues(t)
      PROVE  ReadInv'
  <2>1. trigger[t] \in SessionForms /\ filled[trigger[t]] # None
    BY <1>8 DEF TakeValues
  <2>2. filled[trigger[t]] # "blank" => ReadSubmittedValues(t) = trigger[t]
    BY <2>1 DEF ReadSubmittedValues, OnScreen
  <2>3. readBack'[t].own = filled[trigger[t]] /\ readBack'[t].form = ReadSubmittedValues(t)
    BY <1>8 DEF TakeValues
  <2> QED
    BY <1>8, <2>1, <2>2, <2>3 DEF TakeValues
<1>9. ASSUME NEW t \in SurfaceTurns, NEW s \in Artefacts, RenderArtefact(t, s)
      PROVE  ReadInv'
  BY <1>1, <1>9 DEF RenderArtefact
<1>10. ASSUME NEW t \in SurfaceTurns, NEW p \in 1..PlanLimit, NEW e \in 0..MaxRenders, NEW l \in StepLists,
             UpdateTaskPlan(t, p, e, l)
       PROVE  ReadInv'
  BY <1>1, <1>10 DEF UpdateTaskPlan
<1>11. CASE UNCHANGED surfaceVars
  BY <1>1, <1>11 DEF surfaceVars
<1> HIDE DEF ReadInv
<1> QED
  BY <1>2, <1>4, <1>5, <1>6, <1>7, <1>8, <1>9, <1>10, <1>11, Zenon DEF SurfaceNext

(* What is stored, held and shown stays together in every state.            *)
THEOREM StateInvariant == ~Overlap => (SurfaceSpec => [](StateInv /\ ReadInv))
<1> SUFFICES ASSUME ~Overlap PROVE SurfaceSpec => [](StateInv /\ ReadInv)
  OBVIOUS
<1> QED
  BY StateStarts, StateKeeps, ReadStarts, ReadKeeps, PTL DEF SurfaceSpec

(* A surface keeps its place in the workbench, through re-renders, client    *)
(* edits that race them and turns that are cut short, as long as the turns  *)
(* of a session do not overlap.                                             *)
THEOREM PlaceIsKept == ~Overlap => (SurfaceSpec => PositionKept)
<1> SUFFICES ASSUME ~Overlap PROVE SurfaceSpec => PositionKept
  OBVIOUS
<1>1. ASSUME StateInv, [SurfaceNext]_surfaceVars
      PROVE  [\A s \in SessionSurfaces : persisted[Stash(s)] # None =>
                persisted'[Stash(s)] # None /\ persisted'[Stash(s)].created = persisted[Stash(s)].created]_surfaceVars
  BY <1>1, StateKeeps DEF KeepsPlaces
<1> QED
  BY <1>1, StateStarts, StateKeeps, PTL DEF SurfaceSpec, PositionKept

(* An action run reads the form it was submitted from, and the task status  *)
(* shown is that of the plans the session holds.                            *)
THEOREM FormsAndStatus == ~Overlap => (SurfaceSpec => [](SubmittedFormIsRead /\ StatusIsReported))
<1> SUFFICES ASSUME ~Overlap PROVE SurfaceSpec => [](SubmittedFormIsRead /\ StatusIsReported)
  OBVIOUS
<1>1. ReadInv => SubmittedFormIsRead
  BY DEF ReadInv
<1>2. StateInv => StatusIsReported
  BY DEF StateInv, StatusTold, StatusIsReported, Busy, Live
<1> QED
  BY <1>1, <1>2, StateInvariant, PTL

-----------------------------------------------------------------------------
(* Surfaces the model draws: what the client's processor has made of the    *)
(* first n messages.                                                        *)
IsRun(from, msgs, s) ==
    /\ s[0] = from
    /\ \A n \in 1..Len(msgs) : s[n] = Apply(s[n - 1], msgs[n])

LEMMA ProcessedRun ==
    ASSUME NEW from, NEW msgs \in Seq(Messages)
    PROVE  \E s : IsRun(from, msgs, s) /\ Processed(from, msgs) = s[Len(msgs)]
<1> DEFINE step(f, n) == IF n = 0 THEN from ELSE Apply(f[n - 1], msgs[n])
           S == {k \in 0..Len(msgs) : \E f : f = [n \in 0..k |-> step(f, n)]}
<1>0. Len(msgs) \in Nat
  OBVIOUS
<1>1. 0 \in S
  <2> DEFINE f == [n \in 0..0 |-> from]
  <2>1. \A n \in 0..0 : step(f, n) = from
    OBVIOUS
  <2>2. f = [n \in 0..0 |-> step(f, n)]
    BY <2>1
  <2> HIDE DEF f
  <2> QED
    BY <1>0, <2>2
<1>2. ASSUME NEW k \in 1..Len(msgs), k - 1 \in S PROVE k \in S
  <2>1. PICK f : f = [n \in 0..(k - 1) |-> step(f, n)]
    BY <1>2
  <2> DEFINE g == [n \in 0..k |-> IF n = k THEN Apply(f[k - 1], msgs[k]) ELSE f[n]]
  <2>2. \A n \in 0..k : g[n] = step(g, n)
    <3> SUFFICES ASSUME NEW n \in 0..k PROVE g[n] = step(g, n)
      OBVIOUS
    <3>1. CASE n = k
      <4>1. g[n - 1] = f[k - 1]
        BY <1>0, <3>1
      <4> QED
        BY <1>0, <3>1, <4>1
    <3>2. CASE n # k
      <4>1. n \in 0..(k - 1) /\ g[n] = f[n]
        BY <1>0, <3>2
      <4>2. n # 0 => g[n - 1] = f[n - 1]
        BY <1>0, <3>2
      <4>3. f[n] = step(f, n)
        BY <2>1, <4>1
      <4> QED
        BY <4>1, <4>2, <4>3
    <3> QED
      BY <3>1, <3>2
  <2>3. g = [n \in 0..k |-> step(g, n)]
    BY <2>2
  <2> HIDE DEF g
  <2> QED
    BY <2>3
<1>3. 0..Len(msgs) \subseteq S
  <2> HIDE DEF S
  <2> QED
    BY <1>0, <1>1, <1>2, UpTo
<1>4. PICK s : /\ s = CHOOSE f : f = [n \in 0..Len(msgs) |-> step(f, n)]
               /\ Processed(from, msgs) = s[Len(msgs)]
  BY Zenon DEF Processed
<1>5. s = [n \in 0..Len(msgs) |-> step(s, n)]
  <2>1. \E f : f = [n \in 0..Len(msgs) |-> step(f, n)]
    BY <1>0, <1>3
  <2> QED
    BY <1>4, <2>1
<1>6. s[0] = from
  BY <1>0, <1>5
<1>7. ASSUME NEW n \in 1..Len(msgs) PROVE s[n] = Apply(s[n - 1], msgs[n])
  BY <1>0, <1>5
<1> QED
  BY <1>4, <1>6, <1>7 DEF IsRun

(* Two screens show the same components, whatever data they hold.           *)
Shown == Screens \cup {None}
Alike(a, b) == (a = None <=> b = None) /\ (a # None => a.layout = b.layout)

LEMMA ApplyAlike ==
    ASSUME NEW a \in Shown, NEW b \in Shown, Alike(a, b), NEW msg \in Messages
    PROVE  Apply(a, msg) \in Shown /\ Apply(b, msg) \in Shown /\ Alike(Apply(a, msg), Apply(b, msg))
<1>1. CASE msg = Create
  BY <1>1, AuthoredAssumption DEF Create, Apply, Alike, Shown, Screens
<1>2. CASE msg = Delete
  BY <1>2 DEF Delete, Apply, Alike, Shown
<1>3. CASE \E l \in Layouts : msg = Components(l)
  BY <1>3, AuthoredAssumption DEF Components, Apply, Alike, Shown, Screens
<1>4. CASE \E v \in DataValues : msg = DataModel(v)
  BY <1>4, AuthoredAssumption DEF DataModel, Apply, Alike, Shown, Screens
<1> QED
  BY <1>1, <1>2, <1>3, <1>4 DEF Messages

LEMMA DataLeavesLayout ==
    ASSUME NEW a \in Shown, NEW v \in DataValues
    PROVE  Apply(a, DataModel(v)) \in Shown /\ Alike(Apply(a, DataModel(v)), a)
BY AuthoredAssumption DEF DataModel, Apply, Alike, Shown, Screens

LEMMA ProcessedAlike ==
    ASSUME NEW a \in Shown, NEW b \in Shown, Alike(a, b), NEW msgs \in Seq(Messages)
    PROVE  Processed(a, msgs) \in Shown /\ Processed(b, msgs) \in Shown
           /\ Alike(Processed(a, msgs), Processed(b, msgs))
<1>1. PICK s : IsRun(a, msgs, s) /\ Processed(a, msgs) = s[Len(msgs)]
  BY ProcessedRun
<1>2. PICK r : IsRun(b, msgs, r) /\ Processed(b, msgs) = r[Len(msgs)]
  BY ProcessedRun
<1> DEFINE S == {n \in 0..Len(msgs) : s[n] \in Shown /\ r[n] \in Shown /\ Alike(s[n], r[n])}
<1>3. Len(msgs) \in Nat /\ 0 \in S
  BY <1>1, <1>2 DEF IsRun
<1>4. ASSUME NEW n \in 1..Len(msgs), n - 1 \in S PROVE n \in S
  <2>1. msgs[n] \in Messages /\ s[n] = Apply(s[n - 1], msgs[n]) /\ r[n] = Apply(r[n - 1], msgs[n])
    BY <1>1, <1>2 DEF IsRun
  <2> QED
    BY <1>3, <1>4, <2>1, ApplyAlike
<1>5. 0..Len(msgs) \subseteq S
  <2> HIDE DEF S
  <2> QED
    BY <1>3, <1>4, UpTo
<1> QED
  BY <1>1, <1>2, <1>3, <1>5

(* A surface that starts over is the same from whatever was shown before.   *)
LEMMA ProcessedRestart ==
    ASSUME NEW a \in Shown, NEW b \in Shown, NEW msgs \in Seq(Messages), msgs # <<>>,
           msgs[1].kind \in {"createSurface", "deleteSurface"}
    PROVE  Processed(a, msgs) = Processed(b, msgs)
<1>1. PICK s : IsRun(a, msgs, s) /\ Processed(a, msgs) = s[Len(msgs)]
  BY ProcessedRun
<1>2. PICK r : IsRun(b, msgs, r) /\ Processed(b, msgs) = r[Len(msgs)]
  BY ProcessedRun
<1> DEFINE S == {n \in 0..Len(msgs) : n = 0 \/ s[n] = r[n]}
<1>3. Len(msgs) \in Nat \ {0} /\ 0 \in S
  OBVIOUS
<1>4. ASSUME NEW n \in 1..Len(msgs), n - 1 \in S PROVE n \in S
  <2>1. s[n] = Apply(s[n - 1], msgs[n]) /\ r[n] = Apply(r[n - 1], msgs[n])
    BY <1>1, <1>2 DEF IsRun
  <2>2. CASE n = 1
    BY <1>3, <2>1, <2>2 DEF Apply
  <2>3. CASE n # 1
    BY <1>3, <1>4, <2>1, <2>3
  <2> QED
    BY <2>2, <2>3
<1>5. 0..Len(msgs) \subseteq S
  <2> HIDE DEF S
  <2> QED
    BY <1>3, <1>4, UpTo
<1> QED
  BY <1>1, <1>2, <1>3, <1>5

(* Messages can be processed in two goes.                                   *)
LEMMA ProcessedJoin ==
    ASSUME NEW from, NEW h \in Seq(Messages), NEW g \in Seq(Messages)
    PROVE  Processed(from, h \o g) = Processed(Processed(from, h), g)
<1>1. PICK s : IsRun(from, h, s) /\ Processed(from, h) = s[Len(h)]
  BY ProcessedRun
<1>2. PICK r : IsRun(s[Len(h)], g, r) /\ Processed(s[Len(h)], g) = r[Len(g)]
  BY ProcessedRun
<1>3. PICK m : m = h \o g
  OBVIOUS
<1>4. /\ m \in Seq(Messages) /\ Len(m) = Len(h) + Len(g) /\ Len(h) \in Nat /\ Len(g) \in Nat
      /\ \A i \in 1..Len(h) : m[i] = h[i]
      /\ \A i \in 1..Len(g) : m[Len(h) + i] = g[i]
  BY <1>3
<1>5. PICK q : IsRun(from, m, q) /\ Processed(from, m) = q[Len(m)]
  BY <1>4, ProcessedRun
<1> DEFINE S == {n \in 0..Len(h) : q[n] = s[n]}
           T == {n \in 0..Len(g) : q[Len(h) + n] = r[n]}
<1>6. 0..Len(h) \subseteq S
  <2>1. 0 \in S
    BY <1>1, <1>4, <1>5 DEF IsRun
  <2>2. ASSUME NEW n \in 1..Len(h), n - 1 \in S PROVE n \in S
    <3>1. n \in 1..Len(m) /\ m[n] = h[n]
      BY <1>4
    <3>2. q[n] = Apply(q[n - 1], m[n]) /\ s[n] = Apply(s[n - 1], h[n])
      BY <1>1, <1>5, <3>1 DEF IsRun
    <3> QED
      BY <1>4, <2>2, <3>1, <3>2
  <2> HIDE DEF S
  <2> QED
    BY <1>4, <2>1, <2>2, UpTo
<1>7. 0..Len(g) \subseteq T
  <2>1. 0 \in T
    BY <1>2, <1>4, <1>6 DEF IsRun
  <2>2. ASSUME NEW n \in 1..Len(g), n - 1 \in T PROVE n \in T
    <3>1. m[Len(h) + n] = g[n]
      BY <1>4
    <3>2. Len(h) + n \in 1..Len(m) /\ (Len(h) + n) - 1 = Len(h) + (n - 1)
      <4>1. \A p, k \in Nat : \A i \in 1..k : p + i \in 1..(p + k) /\ (p + i) - 1 = p + (i - 1)
        OBVIOUS
      <4> QED
        BY <1>4, <4>1
    <3>3. q[Len(h) + n] = Apply(q[Len(h) + (n - 1)], m[Len(h) + n]) /\ r[n] = Apply(r[n - 1], g[n])
      BY <1>2, <1>5, <3>2 DEF IsRun
    <3> QED
      BY <1>4, <2>2, <3>1, <3>3
  <2> HIDE DEF T
  <2> QED
    BY <1>4, <2>1, <2>2, UpTo
<1> QED
  BY <1>1, <1>2, <1>3, <1>4, <1>5, <1>7

AuthoredInv ==
    /\ history \in Seq(Messages) \cup {None}
    /\ screen \in Shown /\ snapshot \in DataValues \cup {None}
    /\ Stored \in Shown /\ Alike(Stored, screen)

LEMMA AuthoredStarts == AuthoredInit => AuthoredInv
BY DEF AuthoredInit, AuthoredInv, Stored, Alike, Shown

LEMMA OneProcessed ==
    ASSUME NEW a, NEW msg \in Messages
    PROVE  Processed(a, <<msg>>) = Apply(a, msg)
<1>1. PICK m : m = <<msg>>
  OBVIOUS
<1>2. m \in Seq(Messages) /\ Len(m) = 1 /\ m[1] = msg
  BY <1>1
<1>3. PICK s : IsRun(a, m, s) /\ Processed(a, m) = s[Len(m)]
  BY <1>2, ProcessedRun
<1>4. s[1] = Apply(s[0], m[1]) /\ s[0] = a
  BY <1>2, <1>3 DEF IsRun
<1> QED
  BY <1>1, <1>2, <1>3, <1>4

LEMMA NoneProcessed == \A a : Processed(a, <<>>) = a
<1> SUFFICES ASSUME NEW a PROVE Processed(a, <<>>) = a
  OBVIOUS
<1>0. PICK m : m = <<>>
  OBVIOUS
<1>1. PICK s : IsRun(a, m, s) /\ Processed(a, m) = s[Len(m)]
  <2>1. m \in Seq(Messages)
    BY <1>0
  <2> QED
    BY <2>1, ProcessedRun
<1> QED
  BY <1>0, <1>1 DEF IsRun

(* What a patch is put after: the stash, brought to the client's data.      *)
LEMMA PatchedHistory ==
    ASSUME AuthoredInv, NEW p, p = (IF history = None THEN <<>> ELSE history)
                                       \o (IF snapshot = None THEN <<>> ELSE <<DataModel(snapshot)>>)
    PROVE  p \in Seq(Messages) /\ Processed(None, p) \in Shown /\ Alike(Processed(None, p), screen)
<1>1. PICK h : h = IF history = None THEN <<>> ELSE history
  OBVIOUS
<1>2. PICK g : g = IF snapshot = None THEN <<>> ELSE <<DataModel(snapshot)>>
  OBVIOUS
<1>3. p = h \o g
  BY <1>1, <1>2, Zenon
<1>4. h \in Seq(Messages) /\ Processed(None, h) = Stored
  <2>1. CASE history = None
    BY <1>1, <2>1, NoneProcessed DEF Stored
  <2>2. CASE history # None
    BY <1>1, <2>2 DEF Stored, Replay, AuthoredInv
  <2> QED
    BY <2>1, <2>2
<1>5. g \in Seq(Messages) /\ Processed(Stored, g) \in Shown /\ Alike(Processed(Stored, g), Stored)
  <2>1. CASE snapshot = None
    BY <1>2, <2>1, NoneProcessed DEF AuthoredInv, Alike
  <2>2. CASE snapshot # None
    <3>1. DataModel(snapshot) \in Messages /\ g = <<DataModel(snapshot)>>
      BY <1>2, <2>2 DEF AuthoredInv, Messages
    <3>2. Processed(Stored, g) = Apply(Stored, DataModel(snapshot))
      BY <3>1, OneProcessed
    <3>3. g \in Seq(Messages)
      BY <3>1
    <3> QED
      BY <2>2, <3>2, <3>3, DataLeavesLayout DEF AuthoredInv
  <2> QED
    BY <2>1, <2>2
<1>6. Processed(None, p) = Processed(Stored, g)
  <2>1. Processed(None, h \o g) = Processed(Processed(None, h), g)
    BY <1>4, <1>5, ProcessedJoin
  <2> QED
    BY <1>3, <1>4, <2>1
<1>7. p \in Seq(Messages)
  <2>1. \A x, y \in Seq(Messages) : x \o y \in Seq(Messages)
    OBVIOUS
  <2> QED
    BY <1>3, <1>4, <1>5, <2>1, Zenon
<1> QED
  BY <1>5, <1>6, <1>7 DEF AuthoredInv, Alike

LEMMA DrawKeeps ==
    ASSUME AuthoredInv, NEW msgs \in Drawings, Draw(msgs)
    PROVE  AuthoredInv'
<1>1. msgs \in Seq(Messages) /\ msgs # <<>>
  <2>1. CASE \E l \in Layouts, v \in DataValues : msgs = <<Create, Components(l), DataModel(v)>>
    <3>1. PICK l \in Layouts, v \in DataValues : msgs = <<Create, Components(l), DataModel(v)>>
      BY <2>1
    <3>2. Create \in Messages /\ Components(l) \in Messages /\ DataModel(v) \in Messages
      BY DEF Messages
    <3> QED
      BY <3>1, <3>2
  <2>2. CASE \E msg \in Messages : msgs = <<msg>>
    BY <2>2
  <2> QED
    BY <2>1, <2>2 DEF Drawings, Messages
<1>2. PICK p : p = Prior(msgs)
  OBVIOUS
<1>3. /\ history' = p \o msgs /\ screen' = Processed(screen, msgs) /\ snapshot' = snapshot
  BY <1>2 DEF Draw
<1>4. None \in Shown /\ screen \in Shown /\ Alike(None, None) /\ Alike(screen, screen)
  BY DEF AuthoredInv, Shown, Alike
<1>5. /\ p \in Seq(Messages) /\ Processed(Processed(None, p), msgs) \in Shown
      /\ Processed(screen, msgs) \in Shown
      /\ Alike(Processed(Processed(None, p), msgs), Processed(screen, msgs))
  <2>1. CASE \E i \in DOMAIN msgs : msgs[i].kind \in {"createSurface", "deleteSurface"}
    <3>1. p = <<>>
      BY <1>2, <2>1 DEF Prior
    <3>2. msgs[1].kind \in {"createSurface", "deleteSurface"}
      <4>1. CASE \E l \in Layouts, v \in DataValues : msgs = <<Create, Components(l), DataModel(v)>>
        BY <4>1 DEF Create
      <4>2. CASE msgs = <<Delete>>
        BY <4>2 DEF Delete
      <4>3. CASE \E l \in Layouts : msgs = <<Components(l)>>
        BY <2>1, <4>3 DEF Components
      <4>4. CASE \E v \in DataValues : msgs = <<DataModel(v)>>
        BY <2>1, <4>4 DEF DataModel
      <4> QED
        BY <4>1, <4>2, <4>3, <4>4 DEF Drawings
    <3>3. Processed(None, p) = None
      BY <3>1, NoneProcessed
    <3>4. Processed(None, msgs) = Processed(screen, msgs)
      BY <1>1, <1>4, <3>2, ProcessedRestart
    <3>5. Processed(screen, msgs) \in Shown
      BY <1>1, <1>4, ProcessedAlike
    <3> QED
      BY <3>1, <3>3, <3>4, <3>5 DEF Alike
  <2>2. CASE ~ \E i \in DOMAIN msgs : msgs[i].kind \in {"createSurface", "deleteSurface"}
    <3>1. p \in Seq(Messages) /\ Processed(None, p) \in Shown /\ Alike(Processed(None, p), screen)
      BY <1>2, <2>2, PatchedHistory DEF Prior
    <3> QED
      BY <1>1, <1>4, <3>1, ProcessedAlike
  <2> QED
    BY <2>1, <2>2
<1>6. PICK h : h = p \o msgs
  OBVIOUS
<1>7. h \in Seq(Messages) /\ h # None /\ Processed(None, h) = Processed(Processed(None, p), msgs)
  <2>1. h \in Seq(Messages)
    BY <1>1, <1>5, <1>6
  <2>2. Processed(None, h) = Processed(Processed(None, p), msgs)
    BY <1>1, <1>5, <1>6, ProcessedJoin
  <2> QED
    BY <2>1, <2>2, AuthoredAssumption
<1>8. history' = h /\ Stored' = Processed(None, h)
  BY <1>3, <1>6, <1>7 DEF Stored, Replay
<1> QED
  BY <1>3, <1>5, <1>7, <1>8 DEF AuthoredInv

LEMMA AuthoredKeeps ==
    ASSUME AuthoredInv, [AuthoredNext]_authoredVars
    PROVE  AuthoredInv'
<1>1. CASE history' = history /\ screen' = screen /\ snapshot' \in DataValues \cup {None}
  BY <1>1 DEF AuthoredInv, Stored
<1>2. CASE DrawTurnStarts
  BY <1>1, <1>2 DEF DrawTurnStarts, AuthoredInv, Shown, Screens
<1>3. CASE DrawTurnEnds \/ DrawRefused \/ UNCHANGED authoredVars
  BY <1>1, <1>3 DEF DrawTurnEnds, DrawRefused, authoredVars, AuthoredInv
<1>4. CASE Reload
  BY <1>4 DEF Reload, AuthoredInv, Stored, Alike
<1>5. ASSUME NEW msgs \in Drawings, Draw(msgs) PROVE AuthoredInv'
  BY <1>5, DrawKeeps
<1>6. ASSUME NEW v \in DataValues, UserEdits(v) PROVE AuthoredInv'
  <2>1. screen \in Screens /\ Stored' = Stored /\ snapshot' = snapshot /\ history' = history
    BY <1>6 DEF UserEdits, AuthoredInv, Shown, Stored
  <2>2. PICK now : now = [screen EXCEPT !.data = v]
    OBVIOUS
  <2>3. now \in Screens /\ now.layout = screen.layout /\ screen' = now
    BY <1>6, <2>1, <2>2 DEF UserEdits, Screens
  <2> QED
    BY <2>1, <2>3, AuthoredAssumption DEF AuthoredInv, Alike, Shown
<1> QED
  BY <1>2, <1>3, <1>4, <1>5, <1>6 DEF AuthoredNext

(* A reload rebuilds the component tree on screen, however many patches     *)
(* drew it and whatever the user typed in between.                          *)
THEOREM LayoutIsReplayed == AuthoredSpec => []ReplayKeepsLayout
<1>1. AuthoredInv /\ [AuthoredNext]_authoredVars => AuthoredInv'
  BY AuthoredKeeps
<1>2. AuthoredInv => ReplayKeepsLayout
  BY DEF AuthoredInv, Alike, ReplayKeepsLayout
<1> QED
  BY <1>1, <1>2, AuthoredStarts, PTL DEF AuthoredSpec

-----------------------------------------------------------------------------
(* The contract tools: what stands in a tier is what its key names, what a  *)
(* call has made is what it was asked, and every form that is out, or about *)
(* to go out, has a number of its own in its session.                       *)
Documents == {<<d>> : d \in Contracts} \cup {<<d, e>> : d, e \in Contracts}
Results == [kind : {"clauses", "comparison", "obligations"}, docs : Documents,
            scope : Scopes \cup {None}, anchor : Anchors \cup {None}, form : Nat]

AwaitSteps == {"extract_1", "load_1", "clauses_1", "extract_2", "load_2", "clauses_2",
              "compare", "differences", "process_tier", "durable_tier", "blocks", "mapping"}
StepFits(at, tool) ==
    /\ at \in {"extract_2", "load_2", "clauses_2", "compare", "differences"} => tool = "compare"
    /\ at \in {"process_tier", "durable_tier", "blocks", "mapping", "durable_write"} => tool = "map"

Suspended == [at : AwaitSteps, session : ToolSessions, asked : ToolRequests, number : Nat]
Writing == [result : Results, at : {"durable_write"}, session : ToolSessions, asked : ToolRequests, number : Nat]

Fits(r, q) == r.docs = q.docs /\ r.scope = q.scope /\ r.anchor = q.anchor
KeyNames(k, r) ==
    /\ r.docs = k[2]
    /\ IF k[1] = "ppa_obligations" THEN r.scope = None /\ r.anchor = k[3] ELSE r.scope = k[3] /\ r.anchor = None

CallsSound ==
    /\ calls \in [ToolCalls -> {Idle} \cup Suspended \cup Writing]
    /\ made \in Nat
    /\ \A c \in ToolCalls : calls[c] # Idle =>
          /\ StepFits(calls[c].at, calls[c].asked.tool)
          /\ calls[c].at = "durable_write" => Fits(calls[c].result, calls[c].asked)

StateTierSound ==
    /\ DOMAIN appState = ToolSessions
    /\ \A s \in ToolSessions : \A k \in DOMAIN appState[s] :
          appState[s][k] \in Results /\ appState[s][k].form = 0 /\ KeyNames(k, appState[s][k])

TierSound(cache) == \A k \in DOMAIN cache : cache[k].value \in Results /\ KeyNames(k, cache[k].value)

Faithful(a) ==
    /\ a.session \in ToolSessions /\ a.got \in Results
    /\ a.got.docs = a.asked.docs /\ a.got.scope = a.asked.scope
    /\ a.values = {} => a.got.anchor = a.asked.anchor

AnswersSound == \A a \in answers : Faithful(a) /\ a.got.form <= elicitSeq[a.session]

Pending(c) == calls[c].at = "durable_write" /\ calls[c].result.form # 0

FormsSound ==
    /\ elicitSeq \in [ToolSessions -> Nat]
    /\ FormsAppend
    /\ \A c \in ToolCalls : Pending(c) =>
          /\ calls[c].result.form <= elicitSeq[calls[c].session]
          /\ \A a \in answers : a.session = calls[c].session => a.got.form # calls[c].result.form
          /\ \A d \in ToolCalls : Pending(d) /\ calls[d].session = calls[c].session
                                     /\ calls[d].result.form = calls[c].result.form => d = c

ToolsInv ==
    /\ CallsSound /\ StateTierSound /\ TierSound(processCache) /\ TierSound(durableCache)
    /\ AnswersSound /\ FormsSound

LEMMA ToolsStart == ToolsInit => ToolsInv
<1> SUFFICES ASSUME ToolsInit PROVE ToolsInv
  OBVIOUS
<1>1. CallsSound
  BY DEF ToolsInit, CallsSound
<1>2. StateTierSound /\ TierSound(processCache) /\ TierSound(durableCache)
  BY DEF ToolsInit, StateTierSound, TierSound
<1>3. AnswersSound /\ FormsSound
  BY DEF ToolsInit, AnswersSound, FormsSound, FormsAppend, Pending, Idle
<1> QED
  BY <1>1, <1>2, <1>3 DEF ToolsInv

(* What a request asks for.                                                 *)
LEMMA RequestAsks ==
    ASSUME NEW q \in ToolRequests
    PROVE  /\ q.tool \in {"extract", "compare", "map"} /\ q.docs \in Documents
           /\ q.scope \in Scopes \cup {None} /\ q.anchor \in Anchors \cup {None}
           /\ q.tool = "extract" => q.anchor = None /\ \E d \in Contracts : q.docs = <<d>>
           /\ q.tool = "compare" => q.anchor = None /\ \E d, e \in Contracts : q.docs = <<d, e>>
           /\ q.tool = "map" => q.scope = None /\ \E d \in Contracts : q.docs = <<d>>
<1> DEFINE A == [tool: {"extract"}, docs: {<<d>> : d \in Contracts}, scope: Scopes \cup {None}, anchor: {None},
                  refresh: {FALSE}]
           B == [tool: {"compare"}, docs: {<<d, e>> : d, e \in Contracts}, scope: Scopes \cup {None}, anchor: {None},
                  refresh: {FALSE}]
           C == [tool: {"map"}, docs: {<<d>> : d \in Contracts}, scope: {None}, anchor: Anchors \cup {None},
                  refresh: BOOLEAN]
<1>0. q \in A \/ q \in B \/ q \in C
  <2>1. ToolRequests = A \cup B \cup C
    BY DEF ToolRequests
  <2> HIDE DEF A, B, C
  <2> QED
    BY <2>1
<1>1. CASE q \in A
  BY <1>1 DEF Documents
<1>2. CASE q \in B
  <2>1. q.tool = "compare" /\ q.scope \in Scopes \cup {None} /\ q.anchor = None
    BY <1>2
  <2>2. q.docs \in {<<d, e>> : d, e \in Contracts}
    BY <1>2
  <2>3. \E d, e \in Contracts : q.docs = <<d, e>>
    BY <2>2
  <2> QED
    BY <2>1, <2>2, <2>3 DEF Documents
<1>3. CASE q \in C
  <2>1. q.tool = "map" /\ q.scope = None /\ q.anchor \in Anchors \cup {None}
    BY <1>3
  <2>2. \E d \in Contracts : q.docs = <<d>>
    BY <1>3
  <2> QED
    BY <2>1, <2>2 DEF Documents
<1> HIDE DEF A, B, C
<1> QED
  BY <1>0, <1>1, <1>2, <1>3

LEMMA TierGrows ==
    ASSUME NEW cache, TierSound(cache), NEW k, NEW e, e.value \in Results, KeyNames(k, e.value),
           NEW grown, grown = Kept(cache, k, e)
    PROVE  TierSound(grown)
BY DEF Kept, TierSound

LEMMA StateTierGrows ==
    ASSUME StateTierSound, NEW s \in ToolSessions, NEW k, NEW r \in Results, r.form = 0, KeyNames(k, r),
           appState' = [appState EXCEPT ![s] = Kept(@, k, r)]
    PROVE  StateTierSound'
<1>1. PICK g : g = Kept(appState[s], k, r)
  OBVIOUS
<1>2. DOMAIN g = DOMAIN appState[s] \cup {k} /\ \A x \in DOMAIN g : g[x] = IF x = k THEN r ELSE appState[s][x]
  BY <1>1 DEF Kept
<1>3. DOMAIN appState' = ToolSessions /\ appState'[s] = g /\ \A u \in ToolSessions \ {s} : appState'[u] = appState[u]
  BY <1>1 DEF StateTierSound
<1>4. ASSUME NEW u \in ToolSessions, NEW x \in DOMAIN appState'[u]
      PROVE  appState'[u][x] \in Results /\ appState'[u][x].form = 0 /\ KeyNames(x, appState'[u][x])
  <2>1. CASE u = s
    BY <1>2, <1>3, <2>1 DEF StateTierSound
  <2>2. CASE u # s
    BY <1>3, <2>2 DEF StateTierSound
  <2> QED
    BY <2>1, <2>2
<1> QED
  BY <1>3, <1>4 DEF StateTierSound

(* A call that goes on to another of its steps, or fails.                   *)
LEMMA GoesOn ==
    ASSUME CallsSound, AnswersSound, FormsSound, NEW c \in ToolCalls, calls[c] \in Suspended, UNCHANGED <<made, elicitSeq>>,
           \/ Fails(c)
           \/ \E at \in AwaitSteps : Goes(c, at) /\ StepFits(at, calls[c].asked.tool)
    PROVE  CallsSound' /\ AnswersSound' /\ FormsSound'
<1>1. \E now : /\ calls' = [calls EXCEPT ![c] = now] /\ now.at # "durable_write"
               /\ now = Idle \/ (now \in Suspended /\ StepFits(now.at, now.asked.tool))
  <2>1. CASE Fails(c)
    BY <2>1 DEF Fails, Idle
  <2>2. CASE \E at \in AwaitSteps : Goes(c, at) /\ StepFits(at, calls[c].asked.tool)
    <3>1. PICK at \in AwaitSteps : Goes(c, at) /\ StepFits(at, calls[c].asked.tool)
      BY <2>2
    <3>2. PICK now : now = [calls[c] EXCEPT !.at = at]
      OBVIOUS
    <3>3. now \in Suspended /\ now.at = at /\ now.asked = calls[c].asked
      BY <3>2 DEF Suspended
    <3>4. calls' = [calls EXCEPT ![c] = now]
      BY <3>1, <3>2 DEF Goes
    <3>5. at # "durable_write"
      BY DEF AwaitSteps
    <3> QED
      BY <3>1, <3>3, <3>4, <3>5
  <2> QED
    BY <2>1, <2>2
<1>2. PICK now : /\ calls' = [calls EXCEPT ![c] = now] /\ now.at # "durable_write"
                 /\ now = Idle \/ (now \in Suspended /\ StepFits(now.at, now.asked.tool))
  BY <1>1
<1>3. calls'[c] = now /\ \A d \in ToolCalls \ {c} : calls'[d] = calls[d]
  BY <1>2 DEF CallsSound
<1>4. CallsSound'
  BY <1>2, <1>3 DEF CallsSound
<1>5. answers' = answers
  BY DEF Fails, Goes
<1>6. \A d \in ToolCalls : Pending(d)' => d # c /\ Pending(d)
  BY <1>2, <1>3 DEF Pending
<1>7. FormsSound'
  BY <1>3, <1>5, <1>6 DEF FormsSound, FormsAppend
<1> QED
  BY <1>4, <1>5, <1>7 DEF AnswersSound

(* How the forms are counted when a call returns r: no form, a new one, or  *)
(* the one the call made.                                                   *)
FormCounted(c, r) ==
    \/ r.form = 0 /\ UNCHANGED elicitSeq
    \/ /\ r.form = elicitSeq[calls[c].session] + 1
       /\ elicitSeq' = [elicitSeq EXCEPT ![calls[c].session] = r.form]
    \/ calls[c] \in Writing /\ r = calls[c].result /\ UNCHANGED elicitSeq

LEMMA ReturnKeeps ==
    ASSUME CallsSound, AnswersSound, FormsSound, NEW c \in ToolCalls, calls[c] # Idle,
           NEW r \in Results, Fits(r, calls[c].asked), Returns(c, r), FormCounted(c, r), UNCHANGED made
    PROVE  CallsSound' /\ AnswersSound' /\ FormsSound'
<1> DEFINE s == calls[c].session
           new == [session |-> s, asked |-> calls[c].asked, got |-> r, call |-> calls[c].number, values |-> {}]
<1>1. s \in ToolSessions /\ elicitSeq \in [ToolSessions -> Nat] /\ r.form \in Nat
  BY DEF CallsSound, Suspended, Writing, FormsSound, Results
<1>2. calls'[c] = Idle /\ (\A d \in ToolCalls \ {c} : calls'[d] = calls[d]) /\ answers' = answers \cup {new}
  BY DEF Returns, CallsSound, Session, Asked
<1>3. CallsSound'
  BY <1>2 DEF CallsSound, Returns
<1>4. /\ elicitSeq' \in [ToolSessions -> Nat] /\ r.form <= elicitSeq'[s]
      /\ \A u \in ToolSessions : elicitSeq[u] <= elicitSeq'[u]
  <2>1. CASE r.form = 0 /\ UNCHANGED elicitSeq
    BY <1>1, <2>1
  <2>2. CASE r.form = elicitSeq[s] + 1 /\ elicitSeq' = [elicitSeq EXCEPT ![s] = r.form]
    BY <1>1, <2>2
  <2>3. CASE calls[c] \in Writing /\ r = calls[c].result /\ UNCHANGED elicitSeq
    BY <1>1, <2>3 DEF FormsSound, Pending, Writing
  <2> QED
    BY <2>1, <2>2, <2>3 DEF FormCounted
<1>5. r.form # 0 => \A a \in answers : a.session = s => a.got.form # r.form
  <2>1. CASE r.form = elicitSeq[s] + 1
    BY <1>1, <2>1 DEF AnswersSound, Faithful, Results
  <2>2. CASE calls[c] \in Writing /\ r = calls[c].result
    BY <2>2 DEF FormsSound, Pending, Writing
  <2> QED
    BY <2>1, <2>2 DEF FormCounted
<1>6. r.form # 0 => \A d \in ToolCalls \ {c} : Pending(d) /\ calls[d].session = s => calls[d].result.form # r.form
  <2>1. CASE r.form = elicitSeq[s] + 1
    BY <1>1, <2>1 DEF FormsSound, Pending, CallsSound, Writing, Results, Suspended, AwaitSteps, Idle
  <2>2. CASE calls[c] \in Writing /\ r = calls[c].result
    BY <2>2 DEF FormsSound, Pending, Writing
  <2> QED
    BY <2>1, <2>2 DEF FormCounted
<1> HIDE DEF s
<1>7. new.session = s /\ new.got = r /\ new.asked = calls[c].asked
  OBVIOUS
<1>12. Faithful(new)
  BY <1>1, <1>7 DEF Faithful, Fits
<1> HIDE DEF new
<1>8. AnswersSound'
  <2>1. ASSUME NEW a \in answers PROVE Faithful(a) /\ a.got.form <= elicitSeq'[a.session]
    BY <1>1, <1>4 DEF AnswersSound, Faithful, Results
  <2> QED
    BY <1>1, <1>2, <1>4, <1>7, <1>12, <2>1 DEF AnswersSound
<1>9. FormsAppend'
  BY <1>2, <1>5, <1>7 DEF FormsAppend, FormsSound
<1>10. ASSUME NEW d \in ToolCalls, Pending(d)'
       PROVE  /\ d # c /\ Pending(d) /\ calls'[d] = calls[d]
              /\ calls[d].result.form <= elicitSeq'[calls[d].session]
              /\ \A a \in answers' : a.session = calls[d].session => a.got.form # calls[d].result.form
  <2>1. d # c /\ Pending(d) /\ calls'[d] = calls[d]
    BY <1>2, <1>10 DEF Pending, Idle
  <2>2. calls[d].session \in ToolSessions /\ calls[d].result.form \in Nat
    BY <2>1 DEF CallsSound, Pending, Writing, Results, Suspended, AwaitSteps, Idle
  <2>3. calls[d].result.form <= elicitSeq'[calls[d].session]
    BY <1>1, <1>4, <2>1, <2>2 DEF FormsSound
  <2>4. \A a \in answers' : a.session = calls[d].session => a.got.form # calls[d].result.form
    BY <1>2, <1>6, <1>7, <2>1 DEF FormsSound, Pending
  <2> QED
    BY <2>1, <2>3, <2>4
<1>11. FormsSound'
  BY <1>4, <1>9, <1>10 DEF FormsSound
<1> QED
  BY <1>3, <1>8, <1>11

(* The result a step computes, and what the keys it uses name.              *)
LEMMA ResultFacts ==
    ASSUME NEW what \in {"clauses", "comparison", "obligations"}, NEW docs \in Documents,
           NEW scope \in Scopes \cup {None}, NEW anc \in Anchors \cup {None}
    PROVE  /\ Result(what, docs, scope, anc) \in Results /\ Result(what, docs, scope, anc).form = 0
           /\ Result(what, docs, scope, anc).docs = docs /\ Result(what, docs, scope, anc).scope = scope
           /\ Result(what, docs, scope, anc).anchor = anc
BY DEF Result, Results

LEMMA CallFacts ==
    ASSUME CallsSound, NEW c \in ToolCalls, calls[c] # Idle
    PROVE  /\ Session(c) = calls[c].session /\ calls[c].session \in ToolSessions
           /\ Asked(c) = calls[c].asked /\ calls[c].asked \in ToolRequests
           /\ calls[c].at = "durable_write" => calls[c] \in Writing
           /\ calls[c].at # "durable_write" => calls[c] \in Suspended
           /\ StepFits(calls[c].at, calls[c].asked.tool)
<1>1. calls[c] \in Suspended \/ calls[c] \in Writing
  BY DEF CallsSound
<1>2. CASE calls[c] \in Suspended
  BY <1>2 DEF CallsSound, Session, Asked, Suspended, AwaitSteps
<1>3. CASE calls[c] \in Writing
  BY <1>3 DEF CallsSound, Session, Asked, Writing
<1> QED
  BY <1>1, <1>2, <1>3

LEMMA ExtractedFacts ==
    ASSUME CallsSound, NEW c \in ToolCalls, calls[c] # Idle
    PROVE  /\ Extracted(c) \in Results /\ Extracted(c).form = 0 /\ KeyNames(ExtractKey(c), Extracted(c))
           /\ calls[c].asked.tool = "extract" => \A r : KeyNames(ExtractKey(c), r) => Fits(r, calls[c].asked)
<1>1. PICK q \in ToolRequests : q = calls[c].asked /\ Asked(c) = q
  BY CallFacts
<1>2. PICK w : w = Which(c)
  OBVIOUS
<1>3. w \in {1, 2} /\ (w = 2 => q.tool = "compare")
  BY <1>1, <1>2, CallFacts DEF Which, StepFits
<1>4. PICK e : e = q.docs[w]
  OBVIOUS
<1>5. e \in Contracts
  <2>1. CASE q.tool = "compare"
    <3>1. PICK d \in Contracts, f \in Contracts : q.docs = <<d, f>>
      BY <2>1, RequestAsks
    <3> QED
      BY <1>3, <1>4, <3>1
  <2>2. CASE q.tool # "compare"
    <3>1. PICK d \in Contracts : q.docs = <<d>>
      BY <2>2, RequestAsks
    <3> QED
      BY <1>3, <1>4, <2>2, <3>1
  <2> QED
    BY <2>1, <2>2
<1>6. Extracted(c) = Result("clauses", <<e>>, q.scope, None)
  BY <1>1, <1>2, <1>4 DEF Extracted
<1>7. <<e>> \in Documents /\ q.scope \in Scopes \cup {None}
  BY <1>5, RequestAsks DEF Documents
<1>8. /\ Extracted(c) \in Results /\ Extracted(c).form = 0 /\ Extracted(c).docs = <<e>>
      /\ Extracted(c).scope = q.scope /\ Extracted(c).anchor = None
  BY <1>6, <1>7, ResultFacts
<1>9. PICK k : k = ExtractKey(c)
  OBVIOUS
<1>10. k = <<"ppa_clauses", <<e>>, q.scope>>
  BY <1>1, <1>2, <1>4, <1>9 DEF ExtractKey, ClauseCacheKey, CacheVariantSuffix
<1>11. k[1] = "ppa_clauses" /\ k[2] = <<e>> /\ k[3] = q.scope
  BY <1>10
<1>12. q.tool = "extract" => q.docs = <<e>> /\ q.anchor = None
  BY <1>3, <1>4, RequestAsks
<1> QED
  BY <1>1, <1>8, <1>9, <1>11, <1>12 DEF KeyNames, Fits

(* What a caller does with an extraction keeps the calls sound.             *)
LEMMA ExtractionReturns ==
    ASSUME CallsSound, AnswersSound, FormsSound, NEW c \in ToolCalls,
           calls[c].at \in {"extract_1", "extract_2", "clauses_1", "clauses_2"}, calls[c] # Idle,
           NEW r \in Results, r.form = 0, KeyNames(ExtractKey(c), r), AfterExtraction(c, r),
           UNCHANGED <<made, elicitSeq>>
    PROVE  CallsSound' /\ AnswersSound' /\ FormsSound'
<1>1. /\ Asked(c) = calls[c].asked /\ calls[c] \in Suspended
      /\ calls[c].asked \in ToolRequests /\ StepFits(calls[c].at, calls[c].asked.tool)
  BY CallFacts
<1>2. CASE calls[c].asked.tool = "extract"
  <2>1. Returns(c, r)
    BY <1>1, <1>2 DEF AfterExtraction
  <2>2. Fits(r, calls[c].asked)
    BY <1>2, ExtractedFacts
  <2> QED
    BY <2>1, <2>2, ReturnKeeps DEF FormCounted
<1>3. CASE calls[c].asked.tool = "compare"
  <2>1. PICK at : at = IF Which(c) = 1 THEN "extract_2" ELSE "differences"
    OBVIOUS
  <2>2. Goes(c, at) /\ at \in AwaitSteps /\ StepFits(at, calls[c].asked.tool)
    BY <1>1, <1>3, <2>1 DEF AfterExtraction, AwaitSteps, StepFits
  <2> QED
    BY <1>1, <2>2, GoesOn
<1>4. CASE calls[c].asked.tool = "map"
  <2>1. Goes(c, "blocks") /\ "blocks" \in AwaitSteps /\ StepFits("blocks", calls[c].asked.tool)
    BY <1>1, <1>4 DEF AfterExtraction, AwaitSteps, StepFits
  <2> QED
    BY <1>1, <2>1, GoesOn
<1> QED
  BY <1>1, <1>2, <1>3, <1>4, RequestAsks

LEMMA ExtractSteps ==
    ASSUME ToolsInv, NEW c \in ToolCalls,
           ExtractFromState(c) \/ LoadBlocks(c) \/ RunClauseExtraction(c) \/ MapLoadsBlocks(c)
    PROVE  ToolsInv'
<1>1. CallsSound /\ AnswersSound /\ FormsSound /\ calls[c] # Idle /\ calls[c].at # "durable_write"
  BY DEF ToolsInv, Idle, ExtractFromState, LoadBlocks, RunClauseExtraction, MapLoadsBlocks
<1>2. /\ calls[c] \in Suspended /\ Session(c) = calls[c].session /\ calls[c].session \in ToolSessions
      /\ Asked(c) = calls[c].asked /\ StepFits(calls[c].at, calls[c].asked.tool)
  BY <1>1, CallFacts
<1>3. UNCHANGED <<made, processCache, durableCache, elicitSeq, hours>>
  BY DEF ExtractFromState, LoadBlocks, RunClauseExtraction, MapLoadsBlocks
<1>4. CASE ExtractFromState(c)
  <2>1. StateTierSound'
    BY <1>4 DEF ExtractFromState, ToolsInv, StateTierSound
  <2>2. CASE Cached(appState[Session(c)], ExtractKey(c)) /\ AfterExtraction(c, appState[Session(c)][ExtractKey(c)])
    <3>1. PICK r : r = appState[Session(c)][ExtractKey(c)]
      OBVIOUS
    <3>2. r \in Results /\ r.form = 0 /\ KeyNames(ExtractKey(c), r)
      BY <1>2, <2>2, <3>1 DEF Cached, ToolsInv, StateTierSound
    <3> QED
      BY <1>1, <1>3, <1>4, <2>1, <2>2, <3>1, <3>2, ExtractionReturns DEF ExtractFromState, ToolsInv, TierSound
  <2>3. CASE Goes(c, IF Which(c) = 1 THEN "load_1" ELSE "load_2")
    <3>1. PICK at : at = IF Which(c) = 1 THEN "load_1" ELSE "load_2"
      OBVIOUS
    <3>2. at \in AwaitSteps /\ StepFits(at, calls[c].asked.tool) /\ Goes(c, at)
      BY <1>2, <1>4, <2>3, <3>1 DEF AwaitSteps, StepFits, Which, ExtractFromState
    <3> QED
      BY <1>1, <1>2, <1>3, <2>1, <3>2, GoesOn DEF ToolsInv, TierSound
  <2> QED
    BY <1>4, <2>2, <2>3 DEF ExtractFromState
<1>5. CASE LoadBlocks(c) \/ MapLoadsBlocks(c)
  <2>1. \E at \in AwaitSteps : StepFits(at, calls[c].asked.tool) /\ (Goes(c, at) \/ Fails(c))
    <3>1. CASE LoadBlocks(c)
      <4>1. PICK at : at = IF Which(c) = 1 THEN "clauses_1" ELSE "clauses_2"
        OBVIOUS
      <4>2. at \in AwaitSteps /\ StepFits(at, calls[c].asked.tool) /\ (Goes(c, at) \/ Fails(c))
        BY <1>2, <3>1, <4>1 DEF AwaitSteps, StepFits, Which, LoadBlocks
      <4> QED
        BY <4>2
    <3>2. CASE MapLoadsBlocks(c)
      <4>1. "mapping" \in AwaitSteps /\ StepFits("mapping", calls[c].asked.tool)
        BY <1>2, <3>2 DEF AwaitSteps, StepFits, MapLoadsBlocks
      <4> QED
        BY <3>2, <4>1 DEF MapLoadsBlocks
    <3> QED
      BY <1>5, <3>1, <3>2
  <2>2. CallsSound' /\ AnswersSound' /\ FormsSound'
    BY <1>1, <1>2, <1>3, <2>1, GoesOn
  <2>3. StateTierSound'
    BY <1>5 DEF LoadBlocks, MapLoadsBlocks, ToolsInv, StateTierSound
  <2> QED
    BY <1>3, <2>2, <2>3 DEF ToolsInv, TierSound
<1>6. CASE RunClauseExtraction(c)
  <2>0. Extracted(c) \in Results /\ Extracted(c).form = 0 /\ KeyNames(ExtractKey(c), Extracted(c))
    BY <1>1, ExtractedFacts
  <2>1. CASE /\ appState' = [appState EXCEPT ![Session(c)] = Kept(@, ExtractKey(c), Extracted(c))]
             /\ AfterExtraction(c, Extracted(c))
    <3>1. StateTierSound'
      BY <1>2, <2>0, <2>1, StateTierGrows DEF ToolsInv
    <3>2. CallsSound' /\ AnswersSound' /\ FormsSound'
      BY <1>1, <1>3, <1>6, <2>0, <2>1, ExtractionReturns DEF RunClauseExtraction
    <3> QED
      BY <1>3, <3>1, <3>2 DEF ToolsInv, TierSound
  <2>2. CASE Fails(c) /\ UNCHANGED appState
    <3>1. CallsSound' /\ AnswersSound' /\ FormsSound'
      BY <1>1, <1>2, <1>3, <2>2, GoesOn
    <3> QED
      BY <1>3, <2>2, <3>1 DEF ToolsInv, TierSound, StateTierSound
  <2> QED
    BY <1>6, <2>1, <2>2 DEF RunClauseExtraction
<1> QED
  BY <1>4, <1>5, <1>6

LEMMA CompareSteps ==
    ASSUME ToolsInv, NEW c \in ToolCalls, CompareFromState(c) \/ RunComparison(c)
    PROVE  ToolsInv'
<1>1. CallsSound /\ AnswersSound /\ FormsSound /\ calls[c] # Idle /\ calls[c].at # "durable_write"
  BY DEF ToolsInv, Idle, CompareFromState, RunComparison
<1>2. PICK q \in ToolRequests : q = calls[c].asked
  BY <1>1, CallFacts
<1>3. /\ calls[c] \in Suspended /\ Session(c) = calls[c].session /\ calls[c].session \in ToolSessions
      /\ Asked(c) = q /\ q.tool = "compare"
  BY <1>1, <1>2, CallFacts DEF StepFits, CompareFromState, RunComparison
<1>4. UNCHANGED <<made, processCache, durableCache, elicitSeq, hours>>
  BY DEF CompareFromState, RunComparison
<1>5. PICK k : k = CompareKey(c)
  OBVIOUS
<1>6. k = <<"ppa_comparison", q.docs, q.scope>>
  BY <1>3, <1>5 DEF CompareKey, ComparisonKey, CacheVariantSuffix
<1>7. k[1] = "ppa_comparison" /\ k[2] = q.docs /\ k[3] = q.scope
  BY <1>6
<1>8. \A r : KeyNames(k, r) <=> Fits(r, q)
  BY <1>3, <1>7, RequestAsks DEF KeyNames, Fits
<1>9. CASE CompareFromState(c)
  <2>1. StateTierSound'
    BY <1>9 DEF CompareFromState, ToolsInv, StateTierSound
  <2>2. CASE Cached(appState[Session(c)], k)
    <3>1. PICK r : r = appState[Session(c)][k]
      OBVIOUS
    <3>2. r \in Results /\ r.form = 0 /\ Fits(r, calls[c].asked)
      BY <1>2, <1>3, <1>8, <2>2, <3>1 DEF Cached, ToolsInv, StateTierSound
    <3>3. Returns(c, r)
      BY <1>5, <1>9, <2>2, <3>1 DEF CompareFromState
    <3>4. CallsSound' /\ AnswersSound' /\ FormsSound'
      BY <1>1, <1>4, <3>2, <3>3, ReturnKeeps DEF FormCounted
    <3> QED
      BY <1>4, <2>1, <3>4 DEF ToolsInv, TierSound
  <2>3. CASE ~Cached(appState[Session(c)], k)
    <3>1. Goes(c, "extract_1") /\ "extract_1" \in AwaitSteps /\ StepFits("extract_1", calls[c].asked.tool)
      BY <1>5, <1>9, <2>3 DEF CompareFromState, AwaitSteps, StepFits
    <3>2. CallsSound' /\ AnswersSound' /\ FormsSound'
      BY <1>1, <1>3, <1>4, <3>1, GoesOn
    <3> QED
      BY <1>4, <2>1, <3>2 DEF ToolsInv, TierSound
  <2> QED
    BY <2>2, <2>3
<1>10. CASE RunComparison(c)
  <2>1. PICK r : r = Result("comparison", q.docs, q.scope, None)
    OBVIOUS
  <2>2. r \in Results /\ r.form = 0 /\ Fits(r, q)
    BY <1>3, <2>1, ResultFacts, RequestAsks DEF Fits
  <2>3. CASE appState' = [appState EXCEPT ![Session(c)] = Kept(@, k, r)] /\ Returns(c, r)
    <3>1. StateTierSound'
      BY <1>3, <1>8, <2>2, <2>3, StateTierGrows DEF ToolsInv
    <3>2. CallsSound' /\ AnswersSound' /\ FormsSound'
      BY <1>1, <1>2, <1>4, <2>2, <2>3, ReturnKeeps DEF FormCounted
    <3> QED
      BY <1>4, <3>1, <3>2 DEF ToolsInv, TierSound
  <2>4. CASE Fails(c) /\ UNCHANGED appState
    <3>1. CallsSound' /\ AnswersSound' /\ FormsSound'
      BY <1>1, <1>3, <1>4, <2>4, GoesOn
    <3> QED
      BY <1>4, <2>4, <3>1 DEF ToolsInv, TierSound, StateTierSound
  <2> QED
    BY <1>3, <1>5, <1>10, <2>1, <2>3, <2>4 DEF RunComparison
<1> QED
  BY <1>9, <1>10

(* A mapping call's key names what was asked, and nothing else.             *)
LEMMA MapFacts ==
    ASSUME CallsSound, NEW c \in ToolCalls, calls[c] # Idle, calls[c].asked.tool = "map"
    PROVE  /\ \A r : KeyNames(MapKey(c), r) <=> Fits(r, calls[c].asked)
           /\ Mapped(c) \in Results /\ Mapped(c).form = 0 /\ Fits(Mapped(c), calls[c].asked)
<1>1. PICK q \in ToolRequests : q = calls[c].asked /\ Asked(c) = q /\ q.tool = "map"
  BY CallFacts
<1>2. PICK d \in Contracts : q.docs = <<d>>
  BY <1>1, RequestAsks
<1>3. PICK k : k = MapKey(c)
  OBVIOUS
<1>4. k = <<"ppa_obligations", q.docs, q.anchor>>
  BY <1>1, <1>2, <1>3 DEF MapKey, ObligationCacheKey
<1>5. k[1] = "ppa_obligations" /\ k[2] = q.docs /\ k[3] = q.anchor
  BY <1>4
<1>6. q.scope = None /\ q.docs \in Documents /\ q.anchor \in Anchors \cup {None}
  BY <1>1, RequestAsks
<1>7. \A r : KeyNames(k, r) <=> Fits(r, q)
  BY <1>5, <1>6 DEF KeyNames, Fits
<1>8. Mapped(c) \in Results /\ Mapped(c).form = 0 /\ Fits(Mapped(c), q)
  BY <1>1, <1>6, ResultFacts DEF Mapped, Fits
<1> QED
  BY <1>1, <1>3, <1>7, <1>8

(* A cached result is served with a form number of its own.                 *)
LEMMA ServeKeeps ==
    ASSUME CallsSound, AnswersSound, FormsSound, NEW c \in ToolCalls, calls[c] # Idle,
           NEW r \in Results, Fits(r, calls[c].asked), ServeCached(c, r), UNCHANGED made
    PROVE  CallsSound' /\ AnswersSound' /\ FormsSound'
<1>1. Session(c) = calls[c].session /\ Session(c) \in ToolSessions /\ elicitSeq \in [ToolSessions -> Nat]
  BY CallFacts DEF FormsSound
<1>2. PICK g : g = RestampElicitSeq(Session(c), r)
  OBVIOUS
<1>3. CASE r.form = 0
  <2>1. g = r /\ UNCHANGED elicitSeq
    BY <1>2, <1>3 DEF RestampElicitSeq, ServeCached, CountsForm
  <2> QED
    BY <1>2, <1>3, <2>1, ReturnKeeps DEF FormCounted, ServeCached
<1>4. CASE r.form # 0
  <2>1. g = [r EXCEPT !.form = elicitSeq[Session(c)] + 1]
    BY <1>2, <1>4 DEF RestampElicitSeq
  <2>2. g \in Results /\ Fits(g, calls[c].asked) /\ g.form = elicitSeq[Session(c)] + 1
    BY <1>1, <2>1 DEF Results, Fits
  <2>3. elicitSeq' = [elicitSeq EXCEPT ![Session(c)] = g.form]
    BY <1>1, <1>4, <2>2 DEF ServeCached, CountsForm
  <2>4. Returns(c, g)
    BY <1>2 DEF ServeCached
  <2>5. FormCounted(c, g)
    BY <1>1, <2>2, <2>3 DEF FormCounted
  <2> QED
    BY <2>2, <2>4, <2>5, ReturnKeeps
<1> QED
  BY <1>3, <1>4

LEMMA TierSteps ==
    ASSUME ToolsInv, NEW c \in ToolCalls, ResultCacheGet(c) \/ FirestoreCacheGet(c)
    PROVE  ToolsInv'
<1>1. CallsSound /\ AnswersSound /\ FormsSound /\ calls[c] # Idle /\ calls[c].at # "durable_write"
  BY DEF ToolsInv, Idle, ResultCacheGet, FirestoreCacheGet
<1>2. /\ calls[c] \in Suspended /\ Session(c) = calls[c].session /\ calls[c].session \in ToolSessions
      /\ calls[c].asked.tool = "map"
  BY <1>1, CallFacts DEF StepFits, ResultCacheGet, FirestoreCacheGet
<1>3. PICK k : k = MapKey(c) /\ \A r : KeyNames(k, r) <=> Fits(r, calls[c].asked)
  BY <1>1, <1>2, MapFacts
<1>4. UNCHANGED <<made, appState, durableCache, formsFilled, hours>>
  BY DEF ResultCacheGet, FirestoreCacheGet
<1>5. StateTierSound' /\ TierSound(durableCache')
  BY <1>4 DEF ToolsInv, StateTierSound, TierSound
<1>6. CASE ResultCacheGet(c)
  <2>1. CASE Alive(processCache, k)
    <3>1. PICK r : r = processCache[k].value
      OBVIOUS
    <3>2. r \in Results /\ Fits(r, calls[c].asked)
      BY <1>3, <2>1, <3>1 DEF Alive, Cached, ToolsInv, TierSound
    <3>3. ServeCached(c, r) /\ UNCHANGED processCache
      BY <1>3, <1>6, <2>1, <3>1 DEF ResultCacheGet
    <3>4. CallsSound' /\ AnswersSound' /\ FormsSound'
      BY <1>1, <1>4, <3>2, <3>3, ServeKeeps
    <3> QED
      BY <1>5, <3>3, <3>4 DEF ToolsInv, TierSound
  <2>2. CASE ~Alive(processCache, k)
    <3>1. Goes(c, "durable_tier") /\ "durable_tier" \in AwaitSteps /\ StepFits("durable_tier", calls[c].asked.tool)
      BY <1>2, <1>3, <1>6, <2>2 DEF ResultCacheGet, AwaitSteps, StepFits
    <3>2. processCache' = [x \in DOMAIN processCache \ {k} |-> processCache[x]] /\ UNCHANGED elicitSeq
      BY <1>3, <1>6, <2>2 DEF ResultCacheGet
    <3>3. TierSound(processCache')
      BY <3>2 DEF ToolsInv, TierSound
    <3>4. CallsSound' /\ AnswersSound' /\ FormsSound'
      BY <1>1, <1>2, <1>4, <3>1, <3>2, GoesOn
    <3> QED
      BY <1>5, <3>3, <3>4 DEF ToolsInv, TierSound
  <2> QED
    BY <2>1, <2>2
<1>7. CASE FirestoreCacheGet(c)
  <2>1. CASE /\ Alive(durableCache, k) /\ ServeCached(c, durableCache[k].value)
             /\ processCache' = Kept(processCache, k, Entry(durableCache[k].value))
    <3>1. PICK r : r = durableCache[k].value
      OBVIOUS
    <3>2. r \in Results /\ KeyNames(k, r)
      BY <1>3, <2>1, <3>1 DEF Alive, Cached, ToolsInv, TierSound
    <3>3. CallsSound' /\ AnswersSound' /\ FormsSound'
      BY <1>1, <1>3, <1>4, <2>1, <3>1, <3>2, ServeKeeps
    <3>4. PICK e : e = Entry(r)
      OBVIOUS
    <3>5. e.value = r
      BY <3>4 DEF Entry
    <3>6. PICK grown : grown = Kept(processCache, k, e)
      OBVIOUS
    <3>7. TierSound(grown)
      BY <3>2, <3>5, <3>6, TierGrows DEF ToolsInv
    <3>8. processCache' = grown
      BY <2>1, <3>1, <3>4, <3>6
    <3> QED
      BY <1>5, <3>3, <3>7, <3>8 DEF ToolsInv, TierSound
  <2>2. CASE StateTier(c) /\ UNCHANGED <<processCache, elicitSeq>>
    <3>1. CASE Cached(appState[Session(c)], k)
      <4>1. PICK r : r = appState[Session(c)][k]
        OBVIOUS
      <4>2. r \in Results /\ r.form = 0 /\ Fits(r, calls[c].asked)
        BY <1>2, <1>3, <3>1, <4>1 DEF Cached, ToolsInv, StateTierSound
      <4>3. Returns(c, r)
        BY <1>3, <2>2, <3>1, <4>1 DEF StateTier
      <4>4. CallsSound' /\ AnswersSound' /\ FormsSound'
        BY <1>1, <1>4, <2>2, <4>2, <4>3, ReturnKeeps DEF FormCounted
      <4> QED
        BY <1>5, <2>2, <4>4 DEF ToolsInv, TierSound
    <3>2. CASE ~Cached(appState[Session(c)], k)
      <4>1. Goes(c, "extract_1") /\ "extract_1" \in AwaitSteps /\ StepFits("extract_1", calls[c].asked.tool)
        BY <1>3, <2>2, <3>2 DEF StateTier, AwaitSteps, StepFits
      <4>2. CallsSound' /\ AnswersSound' /\ FormsSound'
        BY <1>1, <1>2, <1>4, <2>2, <4>1, GoesOn
      <4> QED
        BY <1>5, <2>2, <4>2 DEF ToolsInv, TierSound
    <3> QED
      BY <3>1, <3>2
  <2> QED
    BY <1>3, <1>7, <2>1, <2>2 DEF FirestoreCacheGet
<1> QED
  BY <1>6, <1>7

LEMMA MappingStep ==
    ASSUME ToolsInv, NEW c \in ToolCalls, RunObligationMapping(c)
    PROVE  ToolsInv'
<1>1. CallsSound /\ AnswersSound /\ FormsSound /\ calls[c] # Idle /\ calls[c].at = "mapping"
  BY DEF ToolsInv, Idle, RunObligationMapping
<1>2. /\ calls[c] \in Suspended /\ Session(c) = calls[c].session /\ calls[c].session \in ToolSessions
      /\ Asked(c) = calls[c].asked /\ calls[c].asked.tool = "map" /\ calls[c].asked \in ToolRequests
  BY <1>1, CallFacts DEF StepFits
<1>3. PICK k : k = MapKey(c) /\ \A r : KeyNames(k, r) <=> Fits(r, calls[c].asked)
  BY <1>1, <1>2, MapFacts
<1>4. UNCHANGED <<made, appState, durableCache, formsFilled, hours>>
  BY DEF RunObligationMapping
<1>5. StateTierSound' /\ TierSound(durableCache')
  BY <1>4 DEF ToolsInv, StateTierSound, TierSound
<1>7. PICK r : r = IF Asked(c).docs[1] \in Blank THEN [Mapped(c) EXCEPT !.form = elicitSeq[Session(c)] + 1] ELSE Mapped(c)
  OBVIOUS
<1>8. elicitSeq \in [ToolSessions -> Nat]
  BY <1>1 DEF FormsSound
<1>9. /\ r \in Results /\ Fits(r, calls[c].asked)
      /\ r.form = 0 \/ r.form = elicitSeq[Session(c)] + 1
  <2>1. Mapped(c) \in Results /\ Mapped(c).form = 0 /\ Fits(Mapped(c), calls[c].asked)
    BY <1>1, <1>2, MapFacts
  <2>2. CASE Asked(c).docs[1] \in Blank
    BY <1>2, <1>7, <1>8, <2>1, <2>2 DEF Results, Fits
  <2>3. CASE Asked(c).docs[1] \notin Blank
    BY <1>7, <2>1, <2>3
  <2> QED
    BY <2>2, <2>3
<1>10. CASE Fails(c) /\ UNCHANGED <<processCache, elicitSeq>>
  <2>1. CallsSound' /\ AnswersSound' /\ FormsSound'
    BY <1>1, <1>2, <1>4, <1>10, GoesOn
  <2> QED
    BY <1>5, <1>10, <2>1 DEF ToolsInv, TierSound
<1>11. CASE /\ CountsForm(Session(c), r) /\ processCache' = Kept(processCache, k, Entry(r))
            /\ calls' = [calls EXCEPT ![c] = [result |-> r, at |-> "durable_write", session |-> Session(c),
                                              asked |-> Asked(c), number |-> @.number]]
            /\ UNCHANGED answers
  <2>1. PICK e, grown : e = Entry(r) /\ grown = Kept(processCache, k, e)
    OBVIOUS
  <2>2. TierSound(grown) /\ processCache' = grown
    <3>1. e.value = r
      BY <2>1 DEF Entry
    <3>2. TierSound(grown)
      BY <1>3, <1>9, <2>1, <3>1, TierGrows DEF ToolsInv
    <3> QED
      BY <1>11, <2>1, <3>2
  <2>3. PICK now : now = [result |-> r, at |-> "durable_write", session |-> Session(c),
                          asked |-> Asked(c), number |-> calls[c].number]
    OBVIOUS
  <2>4. now \in Writing /\ now.result = r /\ now.session = Session(c) /\ now.asked = calls[c].asked
        /\ now.at = "durable_write"
    BY <1>2, <1>9, <2>3 DEF Writing, Suspended
  <2>5. calls' = [calls EXCEPT ![c] = now]
    BY <1>11, <2>3
  <2>6. calls'[c] = now /\ \A d \in ToolCalls \ {c} : calls'[d] = calls[d]
    BY <1>1, <2>5 DEF CallsSound
  <2>7. CallsSound'
    BY <1>1, <1>2, <1>4, <1>9, <2>4, <2>5, <2>6 DEF CallsSound, StepFits
  <2>8. /\ elicitSeq' \in [ToolSessions -> Nat] /\ \A u \in ToolSessions : elicitSeq[u] <= elicitSeq'[u]
        /\ r.form <= elicitSeq'[Session(c)]
    <3>1. CASE r.form = 0
      BY <1>2, <1>8, <1>11, <3>1 DEF CountsForm
    <3>2. CASE r.form # 0
      BY <1>2, <1>8, <1>9, <1>11, <3>2 DEF CountsForm
    <3> QED
      BY <3>1, <3>2
  <2>9. AnswersSound'
    <3>1. ASSUME NEW a \in answers PROVE Faithful(a) /\ a.got.form <= elicitSeq'[a.session]
      BY <1>1, <1>8, <2>8 DEF AnswersSound, Faithful, Results
    <3> QED
      BY <1>11, <3>1 DEF AnswersSound
  <2>10. r.form # 0 => \A a \in answers : a.session = Session(c) => a.got.form # r.form
    BY <1>1, <1>2, <1>8, <1>9 DEF AnswersSound, Faithful, Results
  <2>11. ASSUME NEW d \in ToolCalls \ {c}, Pending(d)'
         PROVE  /\ Pending(d) /\ calls'[d] = calls[d] /\ calls[d].result.form <= elicitSeq[calls[d].session]
                /\ calls[d].result.form <= elicitSeq'[calls[d].session]
                /\ calls[d].session = Session(c) => calls[d].result.form # r.form
    <3>1. Pending(d) /\ calls'[d] = calls[d]
      BY <2>6, <2>11 DEF Pending
    <3>2. calls[d].session \in ToolSessions /\ calls[d].result.form \in Nat
      BY <1>1, <3>1 DEF CallsSound, Pending, Writing, Results, Suspended, AwaitSteps, Idle
    <3>3. calls[d].result.form <= elicitSeq[calls[d].session]
      BY <1>1, <3>1 DEF FormsSound
    <3>4. calls[d].result.form <= elicitSeq'[calls[d].session]
      BY <1>8, <2>8, <3>2, <3>3
    <3>5. calls[d].session = Session(c) => calls[d].result.form # r.form
      BY <1>8, <1>9, <3>1, <3>2, <3>3 DEF Pending
    <3> QED
      BY <3>1, <3>3, <3>4, <3>5
  <2>12. \A d \in ToolCalls : Pending(d)' =>
          /\ calls'[d].result.form <= elicitSeq'[calls'[d].session]
          /\ \A a \in answers' : a.session = calls'[d].session => a.got.form # calls'[d].result.form
    <3> SUFFICES ASSUME NEW d \in ToolCalls, Pending(d)'
                 PROVE  /\ calls'[d].result.form <= elicitSeq'[calls'[d].session]
                        /\ \A a \in answers' : a.session = calls'[d].session => a.got.form # calls'[d].result.form
      OBVIOUS
    <3>1. CASE d = c
      <4>1. r.form # 0
        BY <2>4, <2>6, <3>1 DEF Pending
      <4> QED
        BY <1>11, <2>4, <2>6, <2>8, <2>10, <3>1, <4>1
    <3>2. CASE d # c
      BY <1>1, <1>11, <2>11, <3>2 DEF FormsSound
    <3> QED
      BY <3>1, <3>2
  <2>13. \A d, f \in ToolCalls : Pending(d)' /\ Pending(f)' /\ calls'[f].session = calls'[d].session
                                   /\ calls'[f].result.form = calls'[d].result.form => f = d
    BY <1>1, <2>4, <2>6, <2>11 DEF FormsSound
  <2>14. FormsSound'
    BY <1>1, <1>11, <2>8, <2>12, <2>13 DEF FormsSound, FormsAppend
  <2> QED
    BY <1>5, <2>2, <2>7, <2>9, <2>14 DEF ToolsInv
<1> QED
  <2>1. \/ /\ CountsForm(Session(c), r) /\ processCache' = Kept(processCache, k, Entry(r))
           /\ calls' = [calls EXCEPT ![c] = [result |-> r, at |-> "durable_write", session |-> Session(c),
                                              asked |-> Asked(c), number |-> @.number]]
           /\ UNCHANGED answers
        \/ Fails(c) /\ UNCHANGED <<processCache, elicitSeq>>
    BY <1>3, <1>7 DEF RunObligationMapping
  <2> QED
    BY <1>10, <1>11, <2>1

LEMMA WriteStep ==
    ASSUME ToolsInv, NEW c \in ToolCalls, FirestoreCacheSet(c)
    PROVE  ToolsInv'
<1>1. CallsSound /\ AnswersSound /\ FormsSound /\ calls[c] # Idle /\ calls[c].at = "durable_write"
  BY DEF ToolsInv, Idle, FirestoreCacheSet
<1>2. /\ calls[c] \in Writing /\ Session(c) = calls[c].session /\ calls[c].session \in ToolSessions
      /\ calls[c].asked.tool = "map"
  BY <1>1, CallFacts DEF StepFits
<1>3. PICK k : k = MapKey(c) /\ \A x : KeyNames(k, x) <=> Fits(x, calls[c].asked)
  BY <1>1, <1>2, MapFacts
<1>4. PICK r : r = calls[c].result
  OBVIOUS
<1>5. r \in Results /\ Fits(r, calls[c].asked)
  BY <1>1, <1>2, <1>4 DEF Writing, CallsSound
<1>6. UNCHANGED <<made, processCache, elicitSeq, formsFilled, hours>> /\ Returns(c, r)
  BY <1>4 DEF FirestoreCacheSet
<1>7. CallsSound' /\ AnswersSound' /\ FormsSound'
  BY <1>1, <1>2, <1>4, <1>5, <1>6, ReturnKeeps DEF FormCounted
<1>8. StateTierSound'
  <2>1. CASE r.form = 0
    BY <1>2, <1>3, <1>4, <1>5, <2>1, StateTierGrows DEF ToolsInv, FirestoreCacheSet
  <2>2. CASE r.form # 0
    BY <1>4, <2>2 DEF FirestoreCacheSet, ToolsInv, StateTierSound
  <2> QED
    BY <2>1, <2>2
<1>9. TierSound(durableCache')
  <2>1. PICK e, grown : e = Entry(r) /\ grown = Kept(durableCache, k, e)
    OBVIOUS
  <2>2. TierSound(grown)
    <3>1. e.value = r
      BY <2>1 DEF Entry
    <3> QED
      BY <1>3, <1>5, <2>1, <3>1, TierGrows DEF ToolsInv
  <2>3. durableCache' = grown \/ durableCache' = durableCache
    BY <1>3, <1>4, <2>1 DEF FirestoreCacheSet
  <2> QED
    BY <2>2, <2>3 DEF ToolsInv, TierSound
<1> QED
  BY <1>6, <1>7, <1>8, <1>9 DEF ToolsInv, TierSound

LEMMA CallStep ==
    ASSUME ToolsInv, NEW c \in ToolCalls, NEW s \in ToolSessions, NEW q \in ToolRequests, Call(c, s, q)
    PROVE  ToolsInv'
<1>1. CallsSound /\ AnswersSound /\ FormsSound /\ calls[c] = Idle
  BY DEF ToolsInv, Call
<1>2. UNCHANGED <<appState, processCache, durableCache, elicitSeq, formsFilled, hours, answers>>
  BY DEF Call
<1>3. PICK now : now = [at |-> CASE q.tool = "extract" -> "extract_1"
                                 [] q.tool = "compare" -> "compare"
                                 [] q.tool = "map" /\ q.refresh -> "extract_1"
                                 [] OTHER -> "process_tier",
                        session |-> s, asked |-> q, number |-> made + 1]
  OBVIOUS
<1>4. calls' = [calls EXCEPT ![c] = now] /\ made' = made + 1
  BY <1>3 DEF Call
<1>5. now \in Suspended /\ StepFits(now.at, now.asked.tool)
  <2>1. q.tool \in {"extract", "compare", "map"} /\ made \in Nat
    BY <1>1, RequestAsks DEF CallsSound
  <2>2. PICK at \in {"extract_1", "compare", "process_tier"} :
          at = (CASE q.tool = "extract" -> "extract_1"
                  [] q.tool = "compare" -> "compare"
                  [] q.tool = "map" /\ q.refresh -> "extract_1"
                  [] OTHER -> "process_tier") /\ StepFits(at, q.tool)
    BY <2>1 DEF StepFits
  <2> QED
    BY <1>3, <2>1, <2>2 DEF Suspended, AwaitSteps
<1>6. calls'[c] = now /\ now.at # "durable_write" /\ \A d \in ToolCalls \ {c} : calls'[d] = calls[d]
  BY <1>1, <1>4, <1>5 DEF CallsSound, Suspended, AwaitSteps
<1>7. CallsSound'
  BY <1>1, <1>4, <1>5, <1>6 DEF CallsSound
<1>8. \A d \in ToolCalls : Pending(d)' => d # c /\ Pending(d)
  BY <1>6 DEF Pending
<1>9. FormsSound'
  BY <1>1, <1>2, <1>6, <1>8 DEF FormsSound, FormsAppend
<1> QED
  BY <1>1, <1>2, <1>7, <1>9 DEF ToolsInv, AnswersSound, StateTierSound, TierSound

LEMMA FormStep ==
    ASSUME ToolsInv, NEW c \in ToolCalls, NEW s \in ToolSessions, NEW q \in ToolRequests, AnswerFromValues(c, s, q)
    PROVE  ToolsInv'
<1>1. CallsSound /\ AnswersSound /\ FormsSound /\ made \in Nat
  BY DEF ToolsInv, CallsSound
<1>2. UNCHANGED <<calls, appState, processCache, durableCache, hours>> /\ made' = made + 1
  BY DEF AnswerFromValues
<1>3. q.tool = "map" /\ q.docs \in Documents /\ q.scope = None /\ q.anchor \in Anchors \cup {None}
  BY RequestAsks DEF AnswerFromValues
<1>4. PICK about \in ValuesInReach(s, q), r \in {Result("obligations", q.docs, None, date) : date \in Anchors}
                       \cup {[Result("obligations", q.docs, None, q.anchor) EXCEPT !.form = elicitSeq[s] + 1]} :
        /\ CountsForm(s, r)
        /\ answers' = answers \cup {[session |-> s, asked |-> q, got |-> r, call |-> made + 1, values |-> {about}]}
  BY DEF AnswerFromValues
<1>7. elicitSeq \in [ToolSessions -> Nat]
  BY <1>1 DEF FormsSound
<1>8. /\ r \in Results /\ r.docs = q.docs /\ r.scope = q.scope
      /\ r.form = 0 \/ r.form = elicitSeq[s] + 1
  <2>1. CASE \E date \in Anchors : r = Result("obligations", q.docs, None, date)
    <3>1. PICK date \in Anchors : r = Result("obligations", q.docs, None, date)
      BY <2>1
    <3> QED
      BY <1>3, <3>1 DEF Result, Results
  <2>2. CASE r = [Result("obligations", q.docs, None, q.anchor) EXCEPT !.form = elicitSeq[s] + 1]
    BY <1>3, <1>7, <2>2 DEF Result, Results
  <2>3. \/ r \in {Result("obligations", q.docs, None, date) : date \in Anchors}
        \/ r \in {[Result("obligations", q.docs, None, q.anchor) EXCEPT !.form = elicitSeq[s] + 1]}
    BY <1>4
  <2> QED
    BY <2>1, <2>2, <2>3
<1>9. PICK new : new = [session |-> s, asked |-> q, got |-> r, call |-> made + 1, values |-> {about}]
  OBVIOUS
<1>10. /\ new.session = s /\ new.got = r /\ Faithful(new)
       /\ answers' = answers \cup {new} /\ CountsForm(s, r)
  BY <1>4, <1>8, <1>9 DEF Faithful
<1>11. /\ elicitSeq' \in [ToolSessions -> Nat] /\ \A u \in ToolSessions : elicitSeq[u] <= elicitSeq'[u]
       /\ r.form <= elicitSeq'[s]
       /\ r.form # 0 => r.form = elicitSeq[s] + 1
  BY <1>7, <1>8, <1>10 DEF CountsForm
<1>12. AnswersSound'
  <2>1. ASSUME NEW a \in answers PROVE Faithful(a) /\ a.got.form <= elicitSeq'[a.session]
    BY <1>1, <1>7, <1>11 DEF AnswersSound, Faithful, Results
  <2> QED
    BY <1>10, <1>11, <2>1 DEF AnswersSound
<1>13. r.form # 0 => \A a \in answers : a.session = s => a.got.form # r.form
  BY <1>1, <1>7, <1>11 DEF AnswersSound, Faithful, Results
<1>14. FormsAppend'
  BY <1>1, <1>10, <1>13 DEF FormsSound, FormsAppend
<1>15. ASSUME NEW e \in ToolCalls, Pending(e)'
       PROVE  /\ Pending(e) /\ calls[e].result.form <= elicitSeq'[calls[e].session]
              /\ \A a \in answers' : a.session = calls[e].session => a.got.form # calls[e].result.form
  <2>1. Pending(e)
    BY <1>2, <1>15 DEF Pending
  <2>2. calls[e].session \in ToolSessions /\ calls[e].result.form \in Nat
    BY <1>1, <2>1 DEF CallsSound, Pending, Writing, Results, Suspended, AwaitSteps, Idle
  <2>3. calls[e].result.form <= elicitSeq[calls[e].session]
    BY <1>1, <2>1 DEF FormsSound
  <2>4. calls[e].session = s => calls[e].result.form # r.form
    BY <1>7, <1>11, <2>1, <2>2, <2>3 DEF Pending
  <2> QED
    BY <1>1, <1>7, <1>10, <1>11, <2>1, <2>2, <2>3, <2>4 DEF FormsSound
<1>16. FormsSound'
  BY <1>1, <1>2, <1>11, <1>14, <1>15 DEF FormsSound
<1> QED
  BY <1>1, <1>2, <1>12, <1>16 DEF ToolsInv, CallsSound, StateTierSound, TierSound

LEMMA ToolsKeep ==
    ASSUME ToolsInv, [ToolsNext]_toolVars
    PROVE  ToolsInv'
<1>1. CASE \E c \in ToolCalls :
             \/ \E s \in ToolSessions : \E q \in ToolRequests : Call(c, s, q) \/ AnswerFromValues(c, s, q)
             \/ ExtractFromState(c) \/ LoadBlocks(c) \/ RunClauseExtraction(c)
             \/ CompareFromState(c) \/ RunComparison(c)
             \/ ResultCacheGet(c) \/ FirestoreCacheGet(c) \/ MapLoadsBlocks(c)
             \/ RunObligationMapping(c) \/ FirestoreCacheSet(c)
  BY <1>1, CallStep, FormStep, ExtractSteps, CompareSteps, TierSteps, MappingStep, WriteStep
<1>2. CASE HourPasses \/ UNCHANGED toolVars \/ \E s \in ToolSessions : FillContractForm(s) \/ CloseContractForms(s)
  <2>1. UNCHANGED <<calls, made, appState, processCache, durableCache, elicitSeq, answers>>
    BY <1>2 DEF HourPasses, FillContractForm, CloseContractForms, toolVars
  <2> QED
    BY <2>1 DEF ToolsInv, CallsSound, StateTierSound, TierSound, AnswersSound, FormsSound, FormsAppend, Pending
<1>3. CASE ColdStart
  <2>1. UNCHANGED <<calls, made, appState, durableCache, elicitSeq, answers>> /\ TierSound(processCache')
    BY <1>3 DEF ColdStart, TierSound
  <2> QED
    BY <2>1 DEF ToolsInv, CallsSound, StateTierSound, TierSound, AnswersSound, FormsSound, FormsAppend, Pending
<1> QED
  BY <1>1, <1>2, <1>3 DEF ToolsNext

(* Whichever tier an answer comes from it answers the question asked, and   *)
(* no two answers of a session come with the same form.                     *)
THEOREM AnswersAreSound == ToolsSpec => [](AnswersTheQuestion /\ FormsAppend)
<1>1. ToolsInv /\ [ToolsNext]_toolVars => ToolsInv'
  BY ToolsKeep
<1>2. ToolsInv => AnswersTheQuestion /\ FormsAppend
  BY DEF ToolsInv, AnswersSound, Faithful, AnswersTheQuestion, FormsSound
<1> QED
  BY <1>1, <1>2, ToolsStart, PTL DEF ToolsSpec

-----------------------------------------------------------------------------
(* The payload of the obligation engine. Sorting by day gives every event a *)
(* place of its own, in the order of Before.                                *)
LEMMA StableSort ==
    ASSUME NEW n \in Nat, NEW es, DOMAIN es = 1..n, \A i \in 1..n : es[i].day \in Int
    PROVE  \E place \in [1..n -> 1..n] : \A i \in 1..n :
              /\ SortedByDay(es)[place[i]] = es[i]
              /\ \A j \in 1..n : Before(es, i, j) /\ i # j => place[i] < place[j]
<1> DEFINE Upto(j) == {i \in 1..n : Before(es, i, j)}
<1>1. \A j \in 1..n : Position(es, j) = Cardinality(Upto(j))
  BY DEF Position
<1>2. \A j \in 1..n : j \in Upto(j)
  BY DEF Before
<1>3. ASSUME NEW i \in 1..n, NEW j \in 1..n, Before(es, i, j), i # j
      PROVE  Upto(i) \subseteq Upto(j) /\ j \notin Upto(i)
  BY <1>3 DEF Before
<1>4. ASSUME NEW i \in 1..n, NEW j \in 1..n, i # j
      PROVE  Before(es, i, j) \/ Before(es, j, i)
  BY DEF Before
<1>5. \A j \in 1..n : Upto(j) \in SUBSET (1..n)
  OBVIOUS
<1> HIDE DEF Upto
<1>6. IsFiniteSet(1..n) /\ Cardinality(1..n) = n
  BY FS_Interval
<1>7. ASSUME NEW j \in 1..n
      PROVE  IsFiniteSet(Upto(j)) /\ Cardinality(Upto(j)) \in 1..n
  <2>1. IsFiniteSet(Upto(j)) /\ Cardinality(Upto(j)) <= n
    BY <1>5, <1>6, FS_Subset
  <2>2. Cardinality(Upto(j)) \in Nat /\ Cardinality(Upto(j)) # 0
    BY <1>2, <2>1, FS_CardinalityType, FS_EmptySet
  <2> QED
    BY <2>1, <2>2
<1>8. ASSUME NEW i \in 1..n, NEW j \in 1..n, Before(es, i, j), i # j
      PROVE  Position(es, i) < Position(es, j)
  <2>1. Upto(i) \in SUBSET Upto(j) /\ Upto(i) # Upto(j)
    BY <1>2, <1>3, <1>8
  <2>2. Cardinality(Upto(i)) <= Cardinality(Upto(j)) /\ Cardinality(Upto(i)) # Cardinality(Upto(j))
    BY <1>7, <2>1, FS_Subset
  <2> QED
    BY <1>1, <1>7, <2>2
<1>9. \A i, j \in 1..n : Position(es, i) = Position(es, j) => i = j
  <2> SUFFICES ASSUME NEW i \in 1..n, NEW j \in 1..n, Position(es, i) = Position(es, j), i # j PROVE FALSE
    OBVIOUS
  <2>1. Position(es, i) \in Nat
    BY <1>1, <1>7
  <2>2. Position(es, i) < Position(es, j) \/ Position(es, j) < Position(es, i)
    <3>1. CASE Before(es, i, j)
      BY <1>8, <3>1
    <3>2. CASE Before(es, j, i)
      BY <1>8, <3>2
    <3> QED
      BY <1>4, <3>1, <3>2
  <2> QED
    BY <2>1, <2>2
<1> DEFINE place == [i \in 1..n |-> Position(es, i)]
<1>10. place \in [1..n -> 1..n]
  BY <1>1, <1>7
<1>11. ASSUME NEW i \in 1..n PROVE SortedByDay(es)[place[i]] = es[i]
  <2>1. place[i] \in DOMAIN es /\ place[i] = Position(es, i)
    BY <1>10
  <2>2. (CHOOSE j \in DOMAIN es : Position(es, j) = place[i]) = i
    BY <1>9, <2>1
  <2> QED
    BY <2>1, <2>2 DEF SortedByDay
<1>12. \A i, j \in 1..n : Before(es, i, j) /\ i # j => place[i] < place[j]
  BY <1>8
<1> QED
  BY <1>10, <1>11, <1>12

(* The mapper's answer, and what is made of it.                             *)
Moment == CalendarDays \cup {Unreadable}
MapperEvents == [kind : EventKinds, date : CalendarDays, ref : ObligationIds \cup {None},
                 until : CalendarDays \cup {None}]
Answers == [effective : Moment \cup {None}, obligations : Seq([id : ObligationIds, date : Moment, price : Amounts]),
            events : Seq(MapperEvents), knobs : [POLICY_KNOBS -> Amounts \cup {None}],
            mapped : SUBSET ClauseNames, unmapped : SUBSET ClauseNames]

PayloadFields == {"kind", "effective", "source", "obligations", "events", "policy", "sources", "prices",
                  "unmapped", "mapped"}

PayloadShaped(p) ==
    /\ DOMAIN p = PayloadFields
    /\ DOMAIN p.policy = POLICY_KNOBS /\ DOMAIN p.sources = POLICY_KNOBS

Honest(p) ==
    /\ mapping.obligations # <<>> => populated \subseteq p.mapped \cup p.unmapped
    /\ \A k \in POLICY_KNOBS :
          /\ p.sources[k] = "extracted" => p.policy[k] = mapping.knobs[k]
          /\ p.sources[k] = "default" => p.policy[k] = DEFAULT_POLICY[k]

Placed(p) ==
    /\ DOMAIN p.events = DOMAIN mapping.events
    /\ \E place \in [DOMAIN mapping.events -> DOMAIN p.events] :
          \A i \in DOMAIN place :
              /\ p.events[place[i]].kind = mapping.events[i].kind
              /\ p.events[place[i]].day + p.effective = mapping.events[i].date
              /\ \A j \in DOMAIN place : Earlier(i, j) => place[i] < place[j]

PayloadInv ==
    /\ mapping \in Answers /\ IsFiniteSet(mapping.mapped) /\ IsFiniteSet(mapping.unmapped)
    /\ anchor \in CalendarDays \cup {None} /\ populated \in SUBSET ClauseNames
    /\ IsPayload => PayloadShaped(payload) /\ Honest(payload) /\ Placed(payload)

LEMMA PayloadStarts == PayloadInit => PayloadInv
<1> SUFFICES ASSUME PayloadInit PROVE PayloadInv
  OBVIOUS
<1>1. PICK date \in Moment \cup {None} :
        mapping = [effective |-> date, obligations |-> <<>>, events |-> <<>>,
                   knobs |-> [k \in POLICY_KNOBS |-> None], mapped |-> {}, unmapped |-> {}]
  BY DEF PayloadInit, Moment
<1>2. <<>> \in Seq([id : ObligationIds, date : Moment, price : Amounts]) /\ <<>> \in Seq(MapperEvents)
  OBVIOUS
<1>3. mapping \in Answers /\ mapping.mapped = {} /\ mapping.unmapped = {}
  BY <1>1, <1>2 DEF Answers
<1> QED
  BY <1>3, FS_EmptySet DEF PayloadInit, PayloadInv, IsPayload

LEMMA MapperKeeps ==
    ASSUME PayloadInv, MapperObligation \/ MapperEvent \/ MapperKnob \/ MapperClause
    PROVE  PayloadInv'
<1>0. mapping \in Answers /\ IsFiniteSet(mapping.mapped) /\ IsFiniteSet(mapping.unmapped)
  BY DEF PayloadInv
<1>1. ASSUME NEW now \in Answers, Mapper(now), IsFiniteSet(now.mapped), IsFiniteSet(now.unmapped)
      PROVE  PayloadInv'
  BY <1>1 DEF Mapper, PayloadInv, IsPayload
<1>2. CASE MapperObligation
  <2>1. PICK id \in ObligationIds, date \in Moment, price \in Amounts :
          Mapper([mapping EXCEPT !.obligations = Append(@, [id |-> id, date |-> date, price |-> price])])
    BY <1>2 DEF MapperObligation, Moment
  <2>2. PICK now : now = [mapping EXCEPT !.obligations = Append(@, [id |-> id, date |-> date, price |-> price])]
    OBVIOUS
  <2>3. Append(mapping.obligations, [id |-> id, date |-> date, price |-> price])
            \in Seq([id : ObligationIds, date : Moment, price : Amounts])
    BY <1>0 DEF Answers
  <2>4. now \in Answers /\ now.mapped = mapping.mapped /\ now.unmapped = mapping.unmapped
    BY <1>0, <2>2, <2>3 DEF Answers
  <2> QED
    BY <1>0, <1>1, <2>1, <2>2, <2>4
<1>3. CASE MapperEvent
  <2>1. PICK kind_ \in EventKinds, date \in CalendarDays, ref \in ObligationIds \cup {None},
             until \in CalendarDays \cup {None} :
          Mapper([mapping EXCEPT !.events =
                        Append(@, [kind |-> kind_, date |-> date, ref |-> ref, until |-> until])])
    BY <1>3 DEF MapperEvent
  <2>2. PICK e : e = [kind |-> kind_, date |-> date, ref |-> ref, until |-> until]
    OBVIOUS
  <2>3. PICK now : now = [mapping EXCEPT !.events = Append(@, e)]
    OBVIOUS
  <2>4. e \in MapperEvents /\ Append(mapping.events, e) \in Seq(MapperEvents)
    <3>1. e \in MapperEvents
      BY <2>2 DEF MapperEvents
    <3> QED
      BY <1>0, <3>1 DEF Answers
  <2>5. now \in Answers /\ now.mapped = mapping.mapped /\ now.unmapped = mapping.unmapped
    BY <1>0, <2>3, <2>4 DEF Answers
  <2> QED
    BY <1>0, <1>1, <2>1, <2>2, <2>3, <2>5
<1>4. CASE MapperKnob
  <2>1. PICK k \in StatedKnobs, v \in Amounts : Mapper([mapping EXCEPT !.knobs[k] = v])
    BY <1>4 DEF MapperKnob
  <2>2. PICK now : now = [mapping EXCEPT !.knobs[k] = v]
    OBVIOUS
  <2>3. now = [mapping EXCEPT !.knobs = [mapping.knobs EXCEPT ![k] = v]]
    BY <1>0, <2>2
  <2>4. now \in Answers /\ now.mapped = mapping.mapped /\ now.unmapped = mapping.unmapped
    BY <1>0, <2>3 DEF Answers
  <2> QED
    BY <1>0, <1>1, <2>1, <2>2, <2>4
<1>5. CASE MapperClause
  <2>1. PICK c \in ClauseNames : \/ Mapper([mapping EXCEPT !.mapped = @ \cup {c}])
                                 \/ Mapper([mapping EXCEPT !.unmapped = @ \cup {c}])
    BY <1>5 DEF MapperClause
  <2>2. IsFiniteSet(mapping.mapped \cup {c}) /\ IsFiniteSet(mapping.unmapped \cup {c})
    BY <1>0, FS_AddElement
  <2>3. PICK a, b : a = [mapping EXCEPT !.mapped = @ \cup {c}] /\ b = [mapping EXCEPT !.unmapped = @ \cup {c}]
    OBVIOUS
  <2>4. /\ a \in Answers /\ a.mapped = mapping.mapped \cup {c} /\ a.unmapped = mapping.unmapped
        /\ b \in Answers /\ b.unmapped = mapping.unmapped \cup {c} /\ b.mapped = mapping.mapped
    BY <1>0, <2>3 DEF Answers
  <2>5. Mapper(a) \/ Mapper(b)
    BY <2>1, <2>3
  <2> QED
    BY <1>0, <1>1, <2>2, <2>4, <2>5
<1> QED
  BY <1>2, <1>3, <1>4, <1>5

(* The events on the wire are the mapper's, counted from day 0.             *)
LEMMA WireKeepsTimeline ==
    ASSUME mapping \in Answers, NEW effective \in Int, NEW p, DOMAIN p = PayloadFields,
           p.effective = effective, p.events = WireEvents(effective)
    PROVE  Placed(p)
<1>1. mapping.events \in Seq(MapperEvents)
  BY DEF Answers
<1>2. PICK n \in Nat : n = Len(mapping.events) /\ DOMAIN mapping.events = 1..n
  BY <1>1
<1>3. PICK es : es = [i \in DOMAIN mapping.events |-> WireEvent(mapping.events[i], effective)]
  OBVIOUS
<1>4. ASSUME NEW i \in 1..n
      PROVE  /\ mapping.events[i].date \in Int /\ es[i].kind = mapping.events[i].kind
             /\ es[i].day = mapping.events[i].date - effective
  <2>1. mapping.events[i] \in MapperEvents
    BY <1>1, <1>2
  <2>2. mapping.events[i].date \in Int
    BY <2>1, PayloadAssumption DEF MapperEvents, CalendarDays
  <2>3. es[i] = WireEvent(mapping.events[i], effective)
    BY <1>2, <1>3
  <2> QED
    BY <2>2, <2>3 DEF WireEvent, Offset
<1>5. PICK place \in [1..n -> 1..n] : \A i \in 1..n :
              /\ SortedByDay(es)[place[i]] = es[i]
              /\ \A j \in 1..n : Before(es, i, j) /\ i # j => place[i] < place[j]
  <2>1. DOMAIN es = 1..n
    BY <1>2, <1>3
  <2>2. ASSUME NEW i \in 1..n PROVE es[i].day \in Int
    <3>1. PICK date \in Int : date = mapping.events[i].date /\ es[i].day = date - effective
      BY <1>4
    <3> QED
      BY <3>1
  <2> QED
    BY <2>1, <2>2, StableSort
<1>6. p.events = SortedByDay(es) /\ DOMAIN p.events = 1..n
  BY <1>2, <1>3 DEF WireEvents, SortedByDay
<1>7. ASSUME NEW i \in 1..n
      PROVE  /\ p.events[place[i]].kind = mapping.events[i].kind
             /\ p.events[place[i]].day + p.effective = mapping.events[i].date
             /\ \A j \in 1..n : Earlier(i, j) => place[i] < place[j]
  <2>1. p.events[place[i]] = es[i]
    BY <1>5, <1>6
  <2>2. p.events[place[i]].day + p.effective = mapping.events[i].date
    BY <1>4, <2>1
  <2>3. ASSUME NEW j \in 1..n, Earlier(i, j) PROVE place[i] < place[j]
    <3>1. Before(es, i, j) /\ i # j
      <4>1. PICK a \in Int, b \in Int : /\ a = mapping.events[i].date /\ b = mapping.events[j].date
                                        /\ es[i].day = a - effective /\ es[j].day = b - effective
        BY <1>4
      <4>2. a < b \/ (a = b /\ i < j)
        BY <2>3, <4>1 DEF Earlier
      <4>3. (a - effective < b - effective \/ (a - effective = b - effective /\ i <= j)) /\ i # j
        <5>1. a < b => i # j
          BY <4>1
        <5> QED
          BY <4>2, <5>1
      <4> QED
        BY <4>1, <4>3 DEF Before
    <3> QED
      BY <1>5, <3>1
  <2> QED
    BY <1>4, <2>1, <2>2, <2>3
<1> QED
  BY <1>2, <1>6, <1>7 DEF Placed

LEMMA AssembleKeeps ==
    ASSUME PayloadInv, AssemblePayload
    PROVE  PayloadInv'
<1>1. UNCHANGED <<mapping, populated, anchor, reviews>>
  BY DEF AssemblePayload
<1>2. CASE Refusal # None
  <2>1. payload' = [kind |-> "refused", refusal |-> Refusal]
    BY <1>2 DEF AssemblePayload
  <2>2. payload'.kind # "payload"
    BY <2>1
  <2> QED
    BY <1>1, <2>2 DEF PayloadInv, IsPayload
<1>3. CASE Refusal = None
  <2>1. PICK p : p = [kind |-> "payload", effective |-> Effective, source |-> EffectiveSource,
               obligations |-> WireObligations(Effective), events |-> WireEvents(Effective),
               policy |-> [k \in POLICY_KNOBS |-> KnobValue(k)],
               sources |-> [k \in POLICY_KNOBS |-> KnobSource(k)],
               prices |-> <<>>, unmapped |-> Unmapped, mapped |-> mapping.mapped]
    OBVIOUS
  <2>2. payload' = p \/ payload' = Rejected
    BY <1>3, <2>1 DEF AssemblePayload, Assembled, Validated
  <2>3. /\ DOMAIN p = PayloadFields /\ p.effective = Effective /\ p.events = WireEvents(Effective)
        /\ p.policy = [k \in POLICY_KNOBS |-> KnobValue(k)]
        /\ p.sources = [k \in POLICY_KNOBS |-> KnobSource(k)]
        /\ p.unmapped = Unmapped /\ p.mapped = mapping.mapped
    BY <2>1 DEF PayloadFields
  <2>4. Effective \in Int
    <3>1. Effective \in CalendarDays \cup {None, Unreadable}
      BY DEF PayloadInv, Effective, Answers, Moment
    <3>2. Effective # None
      <4>1. [needsDate |-> TRUE, unmapped |-> {}] \in [needsDate : BOOLEAN, unmapped : SUBSET ClauseNames]
        OBVIOUS
      <4> QED
        BY <1>3, <4>1, PayloadAssumption DEF Refusal
    <3> QED
      BY <3>1, <3>2, PayloadAssumption DEF CalendarDays, Unreadable
  <2>5. PayloadShaped(p)
    BY <2>3 DEF PayloadShaped
  <2>6. Placed(p)
    BY <2>3, <2>4, WireKeepsTimeline DEF PayloadInv
  <2>7. Honest(p)
    <3>1. populated \subseteq p.mapped \cup p.unmapped
      BY <2>3 DEF Unmapped
    <3>2. ASSUME NEW k \in POLICY_KNOBS
          PROVE  /\ p.sources[k] = "extracted" => p.policy[k] = mapping.knobs[k]
                 /\ p.sources[k] = "default" => p.policy[k] = DEFAULT_POLICY[k]
      <4>1. p.sources[k] = KnobSource(k) /\ p.policy[k] = KnobValue(k)
        BY <2>3
      <4> QED
        BY <4>1 DEF KnobSource, KnobValue
    <3> QED
      BY <3>1, <3>2 DEF Honest
  <2>8. CASE payload' = p
    BY <1>1, <2>5, <2>6, <2>7, <2>8 DEF PayloadInv, IsPayload, Honest, Placed, Earlier
  <2>9. CASE payload' = Rejected
    <3>1. payload'.kind # "payload"
      BY <2>9 DEF Rejected
    <3> QED
      BY <1>1, <3>1 DEF PayloadInv, IsPayload
  <2> QED
    BY <2>2, <2>8, <2>9
<1> QED
  BY <1>2, <1>3

LEMMA FromFormKeeps ==
    ASSUME PayloadInv, BuildPayloadFromAssumptions
    PROVE  PayloadInv'
<1>1. UNCHANGED <<mapping, populated, anchor, reviews>> /\ Items = 0
  BY DEF BuildPayloadFromAssumptions
<1>2. mapping.obligations = <<>> /\ mapping.events = <<>>
  <2>1. mapping.obligations \in Seq([id : ObligationIds, date : Moment, price : Amounts])
        /\ mapping.events \in Seq(MapperEvents)
    BY DEF PayloadInv, Answers
  <2>2. IsFiniteSet({k \in POLICY_KNOBS : mapping.knobs[k] # None})
    <3>1. IsFiniteSet(POLICY_KNOBS)
      <4> DEFINE three == ((({} \cup {"penPerDay"}) \cup {"penCap"}) \cup {"payWithin"})
                 six == (((three \cup {"cureDays"}) \cup {"ratePct"}) \cup {"ratePeriod"})
      <4>1. IsFiniteSet(three)
        BY FS_EmptySet, FS_AddElement
      <4> HIDE DEF three
      <4>2. IsFiniteSet(six)
        BY <4>1, FS_AddElement
      <4> USE DEF three
      <4>3. POLICY_KNOBS = six
        BY DEF POLICY_KNOBS
      <4> QED
        BY <4>2, <4>3
    <3> QED
      BY <3>1, FS_Subset
  <2>3. Cardinality(mapping.mapped) \in Nat /\ Cardinality(mapping.unmapped) \in Nat
        /\ Cardinality({k \in POLICY_KNOBS : mapping.knobs[k] # None}) \in Nat
    BY <2>2, FS_CardinalityType DEF PayloadInv
  <2>4. Len(mapping.obligations) \in Nat /\ Len(mapping.events) \in Nat
    BY <2>1
  <2>5. Len(mapping.obligations) = 0 /\ Len(mapping.events) = 0
    <3>1. PICK a \in Nat, b \in Nat, c \in Nat, d \in Nat, e \in Nat :
            /\ a = Len(mapping.obligations) /\ b = Len(mapping.events)
            /\ c = Cardinality(mapping.mapped) /\ d = Cardinality(mapping.unmapped)
            /\ e = Cardinality({k \in POLICY_KNOBS : mapping.knobs[k] # None})
      BY <2>3, <2>4
    <3>2. a + b + c + d + e = 0
      BY <1>1, <3>1, Zenon DEF Items
    <3>3. \A v, w, x, y, z \in Nat : v + w + x + y + z = 0 => v = 0 /\ w = 0
      OBVIOUS
    <3> QED
      BY <3>1, <3>2, <3>3, Zenon
  <2> QED
    BY <2>1, <2>5
<1>3. PICK f \in Forms : payload' = IF FormReadable(f) THEN FromAssumptions(f)
                     ELSE [kind |-> "refused", refusal |-> [needsDate |-> FALSE, unmapped |-> {}]]
  BY DEF BuildPayloadFromAssumptions
<1>4. CASE payload'.kind # "payload"
  BY <1>1, <1>4 DEF PayloadInv, IsPayload
<1>5. CASE payload'.kind = "payload"
  <2>1. payload' = FromAssumptions(f)
    BY <1>3, <1>5
  <2>2. PICK policy : policy = [DEFAULT_POLICY EXCEPT
                             !.penPerDay = DELAY_LD_EUR_PER_MW_DAY * f.contract_capacity_mw,
                             !.payWithin = IF f.pay_within_days # None THEN f.pay_within_days
                                           ELSE BusinessDaysToCalendar(DEFAULT_POLICY.payWithin)]
    OBVIOUS
  <2>3. DOMAIN policy = POLICY_KNOBS
    BY <2>2 DEF DEFAULT_POLICY, POLICY_KNOBS
  <2>4. PICK obligations : obligations = <<[id |-> "COD", deadline |-> Offset(f.cod_date, f.effective_date),
                                  price |-> f.contract_price]>>
    OBVIOUS
  <2>5. PICK p : p = [kind |-> "payload", effective |-> f.effective_date, source |-> "provided",
               obligations |-> obligations, events |-> <<>>, policy |-> policy,
               sources |-> [k \in POLICY_KNOBS |-> "reviewed"],
               prices |-> [id \in {"COD"} |-> "reviewed"], unmapped |-> {}, mapped |-> {}]
    OBVIOUS
  <2>6. payload' = p \/ payload' = Rejected
    BY <2>1, <2>2, <2>4, <2>5 DEF FromAssumptions, Validated
  <2>7. payload' = p
    BY <1>5, <2>6 DEF Rejected
  <2>8. /\ DOMAIN p = PayloadFields /\ p.policy = policy /\ p.sources = [k \in POLICY_KNOBS |-> "reviewed"]
        /\ p.events = <<>>
    BY <2>5 DEF PayloadFields
  <2>9. PayloadShaped(p) /\ Honest(p)
    BY <1>2, <2>3, <2>8 DEF PayloadShaped, Honest
  <2>10. Placed(p)
    <3>1. DOMAIN p.events = {} /\ DOMAIN mapping.events = {}
      BY <1>2, <2>8
    <3>2. [i \in {} |-> 0] \in [DOMAIN mapping.events -> DOMAIN p.events]
      BY <3>1
    <3>3. DOMAIN [i \in {} |-> 0] = {}
      OBVIOUS
    <3> QED
      BY <3>1, <3>2, <3>3 DEF Placed
  <2> QED
    BY <1>1, <2>7, <2>9, <2>10 DEF PayloadInv, IsPayload, Honest, Placed, Earlier
<1> QED
  BY <1>4, <1>5

(* A review overrides knobs and prices; it neither moves events nor hides   *)
(* what is not mapped.                                                      *)
LEMMA ReviewKeeps ==
    ASSUME PayloadInv, ApplyReviewedSettings
    PROVE  PayloadInv'
<1>1. /\ UNCHANGED <<mapping, populated, anchor>> /\ IsPayload
      /\ PayloadShaped(payload) /\ Honest(payload) /\ Placed(payload)
  BY DEF ApplyReviewedSettings, IsPayload, PayloadInv
<1>2. ASSUME NEW p, PayloadShaped(p), Honest(p), p.events = payload.events, p.effective = payload.effective,
             payload' = p
      PROVE  PayloadInv'
  <2>1. Placed(p)
    BY <1>1, <1>2 DEF Placed
  <2> QED
    BY <1>1, <1>2, <2>1 DEF PayloadInv, IsPayload, Honest, Placed, Earlier
<1>3. PICK v \in Amounts :
          LET next == {ReviewedKnob(payload, k, v) : k \in StatedKnobs}
                        \cup {ReviewedPrice(payload, payload.obligations[i].id, v) : i \in DOMAIN payload.obligations}
          IN  \E p \in next : payload' = IF WireValid(p) THEN p ELSE payload
  BY DEF ApplyReviewedSettings
<1>4. CASE payload' = payload
  BY <1>1, <1>2, <1>4
<1>5. CASE \E k \in StatedKnobs : payload' = ReviewedKnob(payload, k, v)
  <2>1. PICK k \in StatedKnobs : payload' = ReviewedKnob(payload, k, v)
    BY <1>5
  <2>2. PICK p : p = [payload EXCEPT !.policy = [payload.policy EXCEPT ![k] = v],
                                     !.sources = [payload.sources EXCEPT ![k] = "reviewed"]]
    OBVIOUS
  <2>3. payload' = p
    BY <1>1, <2>1, <2>2 DEF ReviewedKnob, PayloadShaped, PayloadFields
  <2>4. /\ DOMAIN p = PayloadFields /\ p.events = payload.events /\ p.effective = payload.effective
        /\ p.mapped = payload.mapped /\ p.unmapped = payload.unmapped
        /\ p.policy = [payload.policy EXCEPT ![k] = v]
        /\ p.sources = [payload.sources EXCEPT ![k] = "reviewed"]
    BY <1>1, <2>2 DEF PayloadShaped, PayloadFields
  <2>5. PayloadShaped(p)
    BY <1>1, <2>4 DEF PayloadShaped
  <2>6. Honest(p)
    BY <1>1, <2>4 DEF Honest, PayloadShaped
  <2> QED
    BY <1>2, <2>3, <2>4, <2>5, <2>6
<1>6. CASE \E i \in DOMAIN payload.obligations : payload' = ReviewedPrice(payload, payload.obligations[i].id, v)
  <2>1. PICK p : p = payload'
    OBVIOUS
  <2>2. /\ DOMAIN p = PayloadFields /\ p.events = payload.events /\ p.effective = payload.effective
        /\ p.mapped = payload.mapped /\ p.unmapped = payload.unmapped
        /\ p.policy = payload.policy /\ p.sources = payload.sources
    BY <1>1, <1>6, <2>1 DEF ReviewedPrice, PayloadShaped, PayloadFields
  <2>3. PayloadShaped(p) /\ Honest(p)
    BY <1>1, <2>2 DEF PayloadShaped, Honest
  <2> QED
    BY <1>2, <2>1, <2>2, <2>3
<1> QED
  BY <1>3, <1>4, <1>5, <1>6

LEMMA PayloadKeeps ==
    ASSUME PayloadInv, [PayloadNext]_payloadVars
    PROVE  PayloadInv'
<1>1. CASE UNCHANGED payloadVars
  BY <1>1 DEF payloadVars, PayloadInv, IsPayload, Honest, Placed, Earlier
<1> QED
  BY <1>1, MapperKeeps, AssembleKeeps, FromFormKeeps, ReviewKeeps DEF PayloadNext

(* The engine is given the contract's own calendar, and nothing is dropped  *)
(* silently or dressed up, through every later review.                      *)
THEOREM PayloadIsTrue == PayloadSpec => [](TimelineKept /\ PayloadHonest)
<1>1. PayloadInv /\ [PayloadNext]_payloadVars => PayloadInv'
  BY PayloadKeeps
<1>2. PayloadInv => TimelineKept /\ PayloadHonest
  BY DEF PayloadInv, TimelineKept, PayloadHonest, Placed, Honest
<1> QED
  BY <1>1, <1>2, PayloadStarts, PTL DEF PayloadSpec

-----------------------------------------------------------------------------
(* The tool pipeline: every call goes through its states with its own tool   *)
(* and result, is answered next to its batch, and is pushed at most once.    *)
Bodies == {"form", NoResponse} \cup UNION {PipeTools[t].bodies : t \in DOMAIN PipeTools}
CallStates == {"unused", "asked", "running", "answered", "saving", "done", "seen"}
ShownSurfaces == {ShownOn(t, b) : t \in DOMAIN PipeTools, b \in Bodies}
PushLists == Seq([surface : ShownSurfaces, of : PipeCalls, seq : Nat])

PipeTyped ==
    /\ toolCalls \in [PipeCalls -> [st : CallStates, tool : DOMAIN PipeTools \cup {NoResponse},
                                    body : Bodies, big : BOOLEAN, response : Bodies \cup {"pointer"}]]
    /\ artifacts \in [DOMAIN PipeTools -> PipeCalls \cup {None}]
    /\ pushes \in PushLists
    /\ contents \in Seq([kind : {"prompt", "calls", "responses"}, of : SUBSET PipeCalls])
    /\ phase \in {"request", "model", "tools", "ended", "failed"}
    /\ asked \in 0 .. MaxRequests

\* A call that was asked for has a tool; an exempt one is never offloaded; a
\* pointer names an artifact of this user.
CallsFollow ==
    \A c \in PipeCalls :
        /\ toolCalls[c].st # "unused" => toolCalls[c].tool \in DOMAIN PipeTools
        /\ toolCalls[c].st = "saving" => ~IsRenderPayloadTool(toolCalls[c].tool)
        /\ toolCalls[c].st \notin {"done", "seen"} => toolCalls[c].response # "pointer"
        /\ toolCalls[c].response = "pointer" =>
              turnUser # None /\ artifacts[toolCalls[c].tool] # None

\* What is on screen of call c, before and after its chain has run.
PushedOnce(c, on, seen) ==
    \E i \in DOMAIN seen :
        /\ seen[i].of = c /\ seen[i].surface = on
        /\ \A j \in DOMAIN seen : seen[j].of = c => j = i
NotPushed(c, seen) == \A i \in DOMAIN seen : seen[i].of # c
PushesFollow ==
    \A c \in PipeCalls :
        LET on == ShownOn(toolCalls[c].tool, toolCalls[c].body)
        IN  IF toolCalls[c].st \notin {"done", "seen"} \/ on = None
            THEN NotPushed(c, pushes)
            ELSE PushedOnce(c, on, pushes)

\* The durable events: one prompt, then each batch's calls and its responses.
Paired(cs) ==
    /\ Len(cs) > 0 /\ cs[1].kind = "prompt"
    /\ \A i \in 2 .. Len(cs) : cs[i].kind # "prompt"
    /\ \A i \in 2 .. Len(cs) : cs[i].kind = "responses" =>
          cs[i - 1].kind = "calls" /\ cs[i - 1].of = cs[i].of
EventsFollow ==
    /\ Paired(contents)
    /\ phase = "tools" =>
          /\ contents[Len(contents)].kind = "calls"
          /\ contents[Len(contents)].of = {c \in PipeCalls : toolCalls[c].st \notin {"unused", "seen"}}
    /\ phase # "tools" => \A c \in PipeCalls : toolCalls[c].st \in {"unused", "seen"}

\* What was read of an unedited document is all of it up to the next offset.
PagesFollow ==
    /\ DOMAIN docRows = ToSet(Attachments) /\ DOMAIN pages = ToSet(Attachments)
    /\ \A d \in ToSet(Attachments) :
          /\ DOMAIN docRows[d] = {"owned", "deleting", "parsed", "len", "version"}
          /\ docRows[d].len \in Nat /\ docRows[d].version \in Nat
          /\ DOMAIN pages[d] = {"read", "next"} /\ pages[d].next \in Nat
          /\ docRows[d].version = 0 =>
                pages[d].next <= docRows[d].len /\ pages[d].read = 1 .. pages[d].next

PipeInv ==
    PipeTyped /\ CallsFollow /\ PushesFollow /\ EventsFollow /\ AttachmentsInPlace /\ PagesFollow

LEMMA PipeStarts == PipeInit => PipeInv
<1> SUFFICES ASSUME PipeInit PROVE PipeInv
  OBVIOUS
<1> USE DEF PipeInit
<1>1. PipeTyped
  <2>1. <<>> \in PushLists
    BY DEF PushLists
  <2>2. contents \in Seq([kind : {"prompt", "calls", "responses"}, of : SUBSET PipeCalls])
    OBVIOUS
  <2>3. NoResponse \in Bodies
    BY DEF Bodies
  <2> QED
    BY <2>1, <2>2, <2>3, PipeAssumption DEF PipeTyped, CallStates
<1>2. CallsFollow
  BY DEF CallsFollow, NoResponse
<1>3. PushesFollow
  BY DEF PushesFollow, NotPushed
<1>4. EventsFollow
  BY DEF EventsFollow, Paired
<1>5. AttachmentsInPlace
  BY DEF AttachmentsInPlace
<1>6. PagesFollow
  <2>1. ASSUME NEW d \in ToSet(Attachments)
        PROVE  /\ DOMAIN docRows[d] = {"owned", "deleting", "parsed", "len", "version"}
               /\ docRows[d].len \in Nat /\ docRows[d].version \in Nat
    <3>1. PICK n \in TextLengths : docRows[d] = FreshDoc(n)
      OBVIOUS
    <3> QED
      BY <3>1, PipeAssumption DEF FreshDoc
  <2>2. /\ DOMAIN docRows = ToSet(Attachments)
        /\ DOMAIN pages = ToSet(Attachments)
        /\ \A d \in ToSet(Attachments) : pages[d] = [read |-> {}, next |-> 0]
    OBVIOUS
  <2>3. 1 .. 0 = {}
    OBVIOUS
  <2>4. \A d \in ToSet(Attachments) :
           DOMAIN pages[d] = {"read", "next"} /\ pages[d].next = 0 /\ pages[d].read = {}
    BY <2>2
  <2> HIDE DEF PipeInit
  <2> QED
    BY <2>1, <2>2, <2>3, <2>4 DEF PagesFollow
<1> QED
  BY <1>1, <1>2, <1>3, <1>4, <1>5, <1>6 DEF PipeInv

(* A tool no mapping names renders nothing.                                 *)
LEMMA UnmappedShowsNothing ==
  ASSUME NEW t, NEW b, ~IsRenderPayloadTool(t)
  PROVE  ShownOn(t, b) = None
<1>1. \A y : {i \in DOMAIN Mappings : Matches(Mappings[i], t, y)} = {}
  BY PipeAssumption DEF IsRenderPayloadTool, Matches
<1>2. \A y : RenderForEmit(t, y) = None
  BY <1>1 DEF RenderForEmit
<1> QED
  BY <1>2 DEF ShownOn

\* A call that goes on, neither beginning nor ending its chain.
GoesThrough(c, r) ==
    /\ toolCalls' = [toolCalls EXCEPT ![c] = r]
    /\ r \in [st : {"running", "answered", "saving"}, tool : {toolCalls[c].tool},
              body : Bodies, big : BOOLEAN, response : {toolCalls[c].response}]
    /\ toolCalls[c].st \in {"asked", "running", "answered"}
    /\ r.st = "saving" => ~IsRenderPayloadTool(r.tool)
    /\ UNCHANGED <<artifacts, pushes, contents, request, asked, turnUser, phase, docRows, docEdits, pages>>

LEMMA CallGoesThrough ==
  ASSUME PipeInv, NEW c \in PipeCalls, NEW r, GoesThrough(c, r)
  PROVE  PipeInv'
<1> USE DEF PipeInv, GoesThrough
<1>1. /\ \A d \in PipeCalls \ {c} : toolCalls'[d] = toolCalls[d]
      /\ toolCalls'[c] = r
  BY DEF PipeTyped
<1>2. PipeTyped'
  <2>1. r \in [st : CallStates, tool : DOMAIN PipeTools \cup {NoResponse},
               body : Bodies, big : BOOLEAN, response : Bodies \cup {"pointer"}]
    BY DEF PipeTyped, CallStates
  <2> QED
    BY <2>1 DEF PipeTyped
<1>3. CallsFollow'
  BY <1>1 DEF CallsFollow
<1>4. PushesFollow'
  BY <1>1 DEF PushesFollow, NotPushed, PushedOnce
<1>5. EventsFollow'
  <2>1. \A d \in PipeCalls : toolCalls'[d].st \in {"unused", "seen"} <=> toolCalls[d].st \in {"unused", "seen"}
    BY <1>1
  <2> QED
    BY <2>1, <1>1 DEF EventsFollow
<1>6. AttachmentsInPlace'
  <2>1. request' = request /\ AttachmentsInPlace
    OBVIOUS
  <2> QED
    BY <2>1 DEF AttachmentsInPlace
<1>7. PagesFollow'
  BY DEF PagesFollow
<1> QED
  BY <1>2, <1>3, <1>4, <1>5, <1>6, <1>7

LEMMA CallSteps ==
  ASSUME PipeInv, NEW c \in PipeCalls, StartCall(c) \/ ToolAnswers(c) \/ BeginOffload(c)
  PROVE  PipeInv'
<1>0. /\ toolCalls \in [PipeCalls -> [st : CallStates, tool : DOMAIN PipeTools \cup {NoResponse},
                                    body : Bodies, big : BOOLEAN, response : Bodies \cup {"pointer"}]]
      /\ toolCalls[c].st # "unused" => toolCalls[c].tool \in DOMAIN PipeTools
  BY DEF PipeInv, PipeTyped, CallsFollow
<1>1. CASE StartCall(c)
  <2>1. CASE BeforeTool(toolCalls[c].tool) = NoResponse
    <3>1. GoesThrough(c, [toolCalls[c] EXCEPT !.st = "running"])
      BY <1>0, <1>1, <2>1 DEF StartCall, GoesThrough
    <3> QED
      BY <3>1, CallGoesThrough
  <2>2. CASE BeforeTool(toolCalls[c].tool) # NoResponse
    <3>1. BeforeTool(toolCalls[c].tool) \in Bodies
      BY DEF BeforeTool, Bodies
    <3>2. GoesThrough(c, [toolCalls[c] EXCEPT !.st = "answered", !.body = BeforeTool(toolCalls[c].tool)])
      BY <1>0, <1>1, <2>2, <3>1 DEF StartCall, GoesThrough
    <3> QED
      BY <3>2, CallGoesThrough
  <2> QED
    BY <2>1, <2>2
<1>2. CASE ToolAnswers(c)
  <2>1. PICK body \in PipeTools[toolCalls[c].tool].bodies, big \in BOOLEAN :
           toolCalls' = [toolCalls EXCEPT ![c].st = "answered", ![c].body = body, ![c].big = big]
    BY <1>2 DEF ToolAnswers
  <2>2. body \in Bodies
    BY <1>0, <1>2, <2>1 DEF ToolAnswers, Bodies
  <2>3. PICK r : r = [toolCalls[c] EXCEPT !.st = "answered", !.body = body, !.big = big]
    OBVIOUS
  <2>4. toolCalls' = [toolCalls EXCEPT ![c] = r]
    BY <1>0, <2>1, <2>3
  <2>5. r \in [st : {"running", "answered", "saving"}, tool : {toolCalls[c].tool},
               body : Bodies, big : BOOLEAN, response : {toolCalls[c].response}]
    BY <1>0, <2>1, <2>2, <2>3
  <2>6. r.st # "saving"
    BY <1>0, <2>3
  <2>7. GoesThrough(c, r)
    BY <1>2, <2>4, <2>5, <2>6 DEF ToolAnswers, GoesThrough
  <2> QED
    BY <2>7, CallGoesThrough
<1>3. CASE BeginOffload(c)
  <2>1. GoesThrough(c, [toolCalls[c] EXCEPT !.st = "saving"])
    BY <1>0, <1>3 DEF BeginOffload, GoesThrough, Offloads
  <2> QED
    BY <2>1, CallGoesThrough
<1> QED
  BY <1>1, <1>2, <1>3

\* A call whose chain ends, with what the observers and the model see.
Ends(c, body) ==
    /\ AfterTool(c, body)
    /\ toolCalls[c].st \in {"answered", "saving"}
    /\ body \in Bodies \cup {"pointer"}
    /\ ShownOn(toolCalls[c].tool, body) = ShownOn(toolCalls[c].tool, toolCalls[c].body)
    /\ artifacts' \in [DOMAIN PipeTools -> PipeCalls \cup {None}]
    /\ \A t \in DOMAIN PipeTools : artifacts[t] # None => artifacts'[t] # None
    /\ body = "pointer" => turnUser # None /\ artifacts'[toolCalls[c].tool] # None
    /\ UNCHANGED <<contents, request, asked, turnUser, docRows, docEdits, pages, phase>>

\* What the emitter adds to the screen.
LEMMA EmittedOnce ==
  ASSUME PipeInv, NEW c \in PipeCalls, NEW body, toolCalls[c].st \in {"answered", "saving"},
         ShownOn(toolCalls[c].tool, body) = ShownOn(toolCalls[c].tool, toolCalls[c].body)
  PROVE  /\ Emitted(c, body) \in PushLists
         /\ IF ShownOn(toolCalls[c].tool, toolCalls[c].body) = None
            THEN NotPushed(c, Emitted(c, body))
            ELSE PushedOnce(c, ShownOn(toolCalls[c].tool, toolCalls[c].body), Emitted(c, body))
         /\ \A d \in PipeCalls \ {c} :
               /\ NotPushed(d, pushes) => NotPushed(d, Emitted(c, body))
               /\ \A on : PushedOnce(d, on, pushes) => PushedOnce(d, on, Emitted(c, body))
<1> DEFINE on == ShownOn(toolCalls[c].tool, body)
           push == [surface |-> on, of |-> c, seq |-> Len(pushes) + 1]
<1>1. /\ pushes \in PushLists
      /\ NotPushed(c, pushes)
      /\ toolCalls[c].tool \in DOMAIN PipeTools /\ toolCalls[c].body \in Bodies
  BY DEF PipeInv, PipeTyped, PushesFollow, CallsFollow
<1>2. CASE on = None
  <2>1. Emitted(c, body) = pushes
    BY <1>2 DEF Emitted
  <2> QED
    BY <2>1, <1>1, <1>2
<1>3. CASE on # None
  <2>1. Emitted(c, body) = Append(pushes, push)
    BY <1>3 DEF Emitted
  <2>2. on \in ShownSurfaces
    BY <1>1 DEF ShownSurfaces
  <2>3. push \in [surface : ShownSurfaces, of : PipeCalls, seq : Nat] /\ push.of = c /\ push.surface = on
    BY <1>1, <2>2
  <2> HIDE DEF push, on
  <2>4. /\ Append(pushes, push) \in PushLists
        /\ DOMAIN pushes = 1 .. Len(pushes) /\ Len(pushes) \in Nat
        /\ DOMAIN Append(pushes, push) = 1 .. Len(pushes) + 1
        /\ \A i \in 1 .. Len(pushes) : Append(pushes, push)[i] = pushes[i]
        /\ Append(pushes, push)[Len(pushes) + 1] = push
    BY <1>1, <2>3 DEF PushLists
  <2>5. PushedOnce(c, on, Append(pushes, push))
    <3>1. /\ Append(pushes, push)[Len(pushes) + 1].of = c
          /\ Append(pushes, push)[Len(pushes) + 1].surface = on
      BY <2>3, <2>4
    <3>2. \A j \in DOMAIN Append(pushes, push) : Append(pushes, push)[j].of = c => j = Len(pushes) + 1
      BY <1>1, <2>4 DEF NotPushed
    <3> QED
      BY <3>1, <3>2, <2>4 DEF PushedOnce
  <2>6. ASSUME NEW d \in PipeCalls \ {c}, NotPushed(d, pushes)
        PROVE  NotPushed(d, Append(pushes, push))
    BY <2>3, <2>4, <2>6 DEF NotPushed
  <2>7. ASSUME NEW d \in PipeCalls \ {c}, NEW w, PushedOnce(d, w, pushes)
        PROVE  PushedOnce(d, w, Append(pushes, push))
    <3>1. PICK i \in DOMAIN pushes :
             /\ pushes[i].of = d /\ pushes[i].surface = w
             /\ \A j \in DOMAIN pushes : pushes[j].of = d => j = i
      BY <2>7 DEF PushedOnce
    <3>2. /\ i \in DOMAIN Append(pushes, push)
          /\ Append(pushes, push)[i].of = d /\ Append(pushes, push)[i].surface = w
      BY <3>1, <2>4
    <3>3. \A j \in DOMAIN Append(pushes, push) : Append(pushes, push)[j].of = d => j = i
      BY <3>1, <2>3, <2>4
    <3> QED
      BY <3>2, <3>3 DEF PushedOnce
  <2>8. ShownOn(toolCalls[c].tool, toolCalls[c].body) = on /\ on # None
    BY <1>3 DEF on
  <2> QED
    BY <2>1, <2>4, <2>5, <2>6, <2>7, <2>8
<1> QED
  BY <1>2, <1>3

LEMMA CallEnds ==
  ASSUME PipeInv, NEW c \in PipeCalls, NEW body, Ends(c, body)
  PROVE  PipeInv'
<1>a. /\ toolCalls[c].st \in {"answered", "saving"}
      /\ ShownOn(toolCalls[c].tool, body) = ShownOn(toolCalls[c].tool, toolCalls[c].body)
      /\ pushes' = Emitted(c, body)
  BY DEF Ends, AfterTool
<1>e. pushes' \in PushLists
  BY <1>a, EmittedOnce
<1> USE DEF PipeInv, Ends
<1>0. pushes' = Emitted(c, body) /\ toolCalls' = [toolCalls EXCEPT ![c].st = "done", ![c].response = body]
  BY DEF AfterTool
<1>1. /\ \A d \in PipeCalls \ {c} : toolCalls'[d] = toolCalls[d]
      /\ toolCalls'[c].st = "done" /\ toolCalls'[c].response = body
      /\ toolCalls'[c].tool = toolCalls[c].tool /\ toolCalls'[c].body = toolCalls[c].body
      /\ toolCalls' \in [PipeCalls -> [st : CallStates, tool : DOMAIN PipeTools \cup {NoResponse},
                                    body : Bodies, big : BOOLEAN, response : Bodies \cup {"pointer"}]]
  BY <1>0, ZenonT(60) DEF PipeTyped, CallStates
<1>2. PipeTyped'
  <2>1. pushes' \in PushLists
    BY <1>e
  <2>2. /\ contents' = contents /\ phase' = phase /\ asked' = asked
        /\ artifacts' \in [DOMAIN PipeTools -> PipeCalls \cup {None}]
        /\ PipeTyped
    OBVIOUS
  <2> HIDE DEF PipeInv, Ends
  <2> QED
    BY <1>1, <2>1, <2>2 DEF PipeTyped
<1>3. CallsFollow'
  BY <1>1 DEF CallsFollow
<1>4. PushesFollow'
  <2> SUFFICES ASSUME NEW d \in PipeCalls
               PROVE  IF toolCalls'[d].st \notin {"done", "seen"} \/ ShownOn(toolCalls'[d].tool, toolCalls'[d].body) = None
                      THEN NotPushed(d, pushes')
                      ELSE PushedOnce(d, ShownOn(toolCalls'[d].tool, toolCalls'[d].body), pushes')
    BY DEF PushesFollow
  <2>1. CASE d = c
    BY <1>0, <1>1, <2>1, EmittedOnce
  <2>2. CASE d # c
    <3>1. toolCalls'[d] = toolCalls[d]
      BY <1>1, <2>2
    <3>2. /\ NotPushed(d, pushes) => NotPushed(d, pushes')
          /\ \A on : PushedOnce(d, on, pushes) => PushedOnce(d, on, pushes')
      BY <1>0, <2>2, EmittedOnce
    <3> QED
      BY <3>1, <3>2 DEF PushesFollow
  <2> QED
    BY <2>1, <2>2
<1>5. EventsFollow'
  <2>1. \A d \in PipeCalls : toolCalls'[d].st \in {"unused", "seen"} <=> toolCalls[d].st \in {"unused", "seen"}
    BY <1>1
  <2> QED
    BY <2>1, <1>1 DEF EventsFollow
<1>6. AttachmentsInPlace'
  <2>1. request' = request /\ AttachmentsInPlace
    OBVIOUS
  <2> QED
    BY <2>1 DEF AttachmentsInPlace
<1>7. PagesFollow'
  BY DEF PagesFollow
<1> QED
  BY <1>2, <1>3, <1>4, <1>5, <1>6, <1>7

LEMMA EndSteps ==
  ASSUME PipeInv, NEW c \in PipeCalls, KeepOutput(c) \/ SaveArtifact(c) \/ SaveArtifactFails(c)
  PROVE  PipeInv'
<1>0. /\ toolCalls[c].body \in Bodies
      /\ artifacts \in [DOMAIN PipeTools -> PipeCalls \cup {None}]
      /\ toolCalls[c].st # "unused" => toolCalls[c].tool \in DOMAIN PipeTools
      /\ toolCalls[c].st = "saving" => ~IsRenderPayloadTool(toolCalls[c].tool)
  BY DEF PipeInv, PipeTyped, CallsFollow
<1>1. "pointer" \notin Bodies
  BY PipeAssumption DEF Bodies, NoResponse
<1>2. CASE KeepOutput(c)
  <2>1. Ends(c, toolCalls[c].body)
    BY <1>0, <1>1, <1>2 DEF KeepOutput, Ends
  <2> QED
    BY <2>1, CallEnds
<1>3. CASE SaveArtifact(c)
  <2>1. Ends(c, "pointer")
    BY <1>0, <1>3, UnmappedShowsNothing, PipeAssumption DEF SaveArtifact, Ends, Scope
  <2> QED
    BY <2>1, CallEnds
<1>4. CASE SaveArtifactFails(c)
  <2>1. Ends(c, toolCalls[c].body)
    BY <1>0, <1>1, <1>4 DEF SaveArtifactFails, Ends
  <2> QED
    BY <2>1, CallEnds
<1> QED
  BY <1>2, <1>3, <1>4

\* The calls are untouched.
SameCalls == UNCHANGED <<toolCalls, artifacts, pushes, turnUser>>
LEMMA SameCallsKept ==
  ASSUME PipeInv, SameCalls
  PROVE  CallsFollow' /\ PushesFollow'
BY DEF PipeInv, SameCalls, CallsFollow, PushesFollow, NotPushed, PushedOnce

LEMMA SeqParts ==
  ASSUME NEW S, NEW s \in Seq(S)
  PROVE  /\ Len(s) \in Nat /\ DOMAIN s = 1 .. Len(s)
         /\ s \in [1 .. Len(s) -> S]
         /\ \A i \in DOMAIN s : s[i] \in S
OBVIOUS

LEMMA SeqWider ==
  ASSUME NEW S, NEW T, NEW s \in Seq(S), S \subseteq T
  PROVE  s \in Seq(T)
<1>1. s \in [1 .. Len(s) -> S] /\ Len(s) \in Nat
  OBVIOUS
<1>2. s \in [1 .. Len(s) -> T]
  BY <1>1
<1> QED
  BY <1>1, <1>2

\* The request that is built: the attachments, then the durable events.
LEMMA BlockBeforePrompt ==
  ASSUME PipeTyped, Paired(contents)
  PROVE  InPlace(WithAttachments(contents))
<1> DEFINE n == Len(Attachments)
           block == [i \in DOMAIN Attachments |-> AttachmentContent(Attachments[i])]
           cs == WithAttachments(contents)
<1>0. PICK events : contents \in Seq(events) /\ events = [kind : {"prompt", "calls", "responses"}, of : SUBSET PipeCalls]
  BY DEF PipeTyped
<1>1. n \in Nat /\ DOMAIN Attachments = 1 .. n
  BY PipeAssumption
<1>2. /\ Len(contents) \in Nat /\ Len(contents) > 0 /\ DOMAIN contents = 1 .. Len(contents)
      /\ contents[1].kind = "prompt"
      /\ \A i \in 2 .. Len(contents) : contents[i].kind \in {"calls", "responses"}
      /\ \A i \in 2 .. Len(contents) : contents[i].kind = "responses" =>
            contents[i - 1].kind = "calls" /\ contents[i - 1].of = contents[i].of
  <2>1. \A i \in DOMAIN contents : contents[i].kind \in {"prompt", "calls", "responses"}
    <3>1. \A i \in DOMAIN contents : contents[i] \in events
      BY <1>0, SeqParts, Zenon
    <3> QED
      BY <1>0, <3>1
  <2>2. Len(contents) \in Nat /\ DOMAIN contents = 1 .. Len(contents)
    BY <1>0
  <2> QED
    BY <2>1, <2>2 DEF Paired
<1>3. PromptIndex(contents) = 1
  <2>1. {i \in DOMAIN contents : IsPrompt(contents[i])} = {1}
    BY <1>2 DEF IsPrompt
  <2> QED
    BY <2>1 DEF PromptIndex
<1>4. /\ Len(cs) = n + Len(contents) /\ DOMAIN cs = 1 .. (n + Len(contents))
      /\ \A i \in 1 .. n : cs[i] = AttachmentContent(Attachments[i])
      /\ \A i \in 1 .. Len(contents) : cs[n + i] = contents[i]
  <2>1. PICK kinds : kinds = {AttachmentContent(Attachments[i]) : i \in DOMAIN Attachments}
                          \cup [kind : {"prompt", "calls", "responses"}, of : SUBSET PipeCalls]
    OBVIOUS
  <2>2. block \in Seq(kinds) /\ Len(block) = n /\ \A i \in 1 .. n : block[i] = AttachmentContent(Attachments[i])
    <3>1. block \in [1 .. n -> kinds]
      BY <1>1, <2>1
    <3> QED
      BY <1>1, <3>1
  <2>3. contents \in Seq(kinds)
    <3>1. events \subseteq kinds
      BY <1>0, <2>1
    <3> QED
      BY <1>0, <3>1, SeqWider, Zenon
  <2>4. cs = SubSeq(contents, 1, 0) \o block \o SubSeq(contents, 1, Len(contents))
    BY <1>3 DEF WithAttachments
  <2>5. SubSeq(contents, 1, 0) = <<>> /\ SubSeq(contents, 1, Len(contents)) = contents
    BY <2>3
  <2> HIDE DEF block, cs, n
  <2>6. <<>> \o block = block
    BY <2>2
  <2>7. cs = block \o contents
    BY <2>4, <2>5, <2>6
  <2>8. Len(cs) = n + Len(contents) /\ DOMAIN cs = 1 .. (n + Len(contents))
    <3>1. block \o contents \in Seq(kinds) /\ Len(block \o contents) = Len(block) + Len(contents)
      BY <2>2, <2>3
    <3>2. cs \in Seq(kinds) /\ Len(cs) = n + Len(contents)
      BY <2>2, <2>7, <3>1
    <3> QED
      BY <3>2
  <2>9. \A i \in 1 .. n : cs[i] = block[i]
    BY <2>2, <2>3, <2>7, <1>1, <1>2
  <2>10. \A i \in 1 .. Len(contents) : cs[n + i] = contents[i]
    BY <2>2, <2>3, <2>7, <1>1, <1>2
  <2> QED
    BY <2>2, <2>8, <2>9, <2>10
<1> HIDE DEF cs, n
<1>5. /\ \A i \in 1 .. n : cs[i].kind = "attachment" /\ cs[i].doc = Attachments[i]
      /\ cs[n + 1].kind = "prompt"
      /\ \A i \in DOMAIN cs : i > n + 1 => cs[i].kind \in {"calls", "responses"}
      /\ \A i \in DOMAIN cs : i > n + 1 /\ cs[i].kind = "responses" =>
            cs[i - 1].kind = "calls" /\ cs[i - 1].of = cs[i].of
  <2>1. \A i \in 1 .. n : cs[i].kind = "attachment" /\ cs[i].doc = Attachments[i]
    <3>1. \A d : AttachmentContent(d).kind = "attachment" /\ AttachmentContent(d).doc = d
      BY DEF AttachmentContent
    <3> QED
      BY <1>4, <3>1
  <2>2. \A i \in DOMAIN cs : i > n + 1 => /\ i - n \in 2 .. Len(contents)
                                         /\ cs[i] = contents[i - n] /\ cs[i - 1] = contents[i - n - 1]
    <3> SUFFICES ASSUME NEW i \in DOMAIN cs, i > n + 1
                 PROVE  /\ i - n \in 2 .. Len(contents)
                        /\ cs[i] = contents[i - n] /\ cs[i - 1] = contents[i - n - 1]
      OBVIOUS
    <3>1. i - n \in 1 .. Len(contents) /\ i - n - 1 \in 1 .. Len(contents)
      BY <1>1, <1>2, <1>4
    <3>2. n + (i - n) = i /\ n + (i - n - 1) = i - 1
      BY <1>1, <1>2, <1>4
    <3> QED
      BY <1>1, <1>2, <1>4, <3>1, <3>2
  <2> QED
    BY <1>1, <1>2, <1>4, <2>1, <2>2, SMTT(60)
<1>6. \A i \in DOMAIN cs : IsPrompt(cs[i]) <=> i = n + 1
  BY <1>1, <1>2, <1>4, <1>5 DEF IsPrompt
<1>7. (CHOOSE i \in DOMAIN cs : IsPrompt(cs[i]) /\ \A j \in i + 1 .. Len(cs) : ~IsPrompt(cs[j])) = n + 1
  <2>1. \A i \in DOMAIN cs : (IsPrompt(cs[i]) /\ \A j \in i + 1 .. Len(cs) : ~IsPrompt(cs[j])) <=> i = n + 1
    BY <1>1, <1>2, <1>4, <1>6
  <2>2. n + 1 \in DOMAIN cs
    BY <1>1, <1>2, <1>4
  <2> QED
    BY <2>1, <2>2
<1>8. \A i \in DOMAIN Attachments :
         Cardinality({j \in DOMAIN cs : cs[j].kind = "attachment" /\ cs[j].doc = Attachments[i]}) = 1
  <2> SUFFICES ASSUME NEW i \in DOMAIN Attachments
               PROVE  {j \in DOMAIN cs : cs[j].kind = "attachment" /\ cs[j].doc = Attachments[i]} = {i}
    BY FS_Singleton
  <2>1. \A j \in DOMAIN cs : cs[j].kind = "attachment" => j \in 1 .. n
    <3> SUFFICES ASSUME NEW j \in DOMAIN cs, cs[j].kind = "attachment"
                 PROVE  j \in 1 .. n
      OBVIOUS
    <3>1. j \in Nat /\ 1 <= j
      BY <1>1, <1>2, <1>4
    <3>2. j # n + 1
      BY <1>5
    <3>3. ~(j > n + 1)
      BY <1>5
    <3> QED
      BY <1>1, <3>1, <3>2, <3>3
  <2> QED
    BY <1>1, <1>2, <1>4, <1>5, <2>1, PipeAssumption
<1>9. \A i \in DOMAIN Attachments : (n + 1) - n - 1 + i = i
  BY <1>1
<1>10. \A i \in DOMAIN cs : cs[i].kind = "responses" => cs[i - 1].kind = "calls" /\ cs[i - 1].of = cs[i].of
  <2>1. \A i \in DOMAIN cs : cs[i].kind = "responses" => i > n + 1
    BY <1>1, <1>2, <1>4, <1>5
  <2> QED
    BY <2>1, <1>5
<1>11. n + 1 > n
  BY <1>1
<1> QED
  BY <1>1, <1>5, <1>7, <1>8, <1>9, <1>10, <1>11 DEF InPlace, n, cs

LEMMA ExcerptFits ==
  ASSUME PagesFollow, NEW d \in ToSet(Attachments)
  PROVE  Excerpt(d) \in Nat /\ Excerpt(d) <= docRows[d].len
<1> DEFINE n == IF Attachments = <<>> THEN 1 ELSE Len(Attachments)
<1>1. n \in Nat /\ n > 0
  BY PipeAssumption
<1>2. Share \in Nat
  <2> HIDE DEF n
  <2>1. Allowance \div n \in Nat
    BY <1>1, PipeAssumption
  <2> QED
    BY <2>1 DEF Share, n
<1> QED
  BY <1>2 DEF Excerpt, PagesFollow

LEMMA BuildKeeps ==
  ASSUME PipeInv, BuildRequest
  PROVE  PipeInv'
<1>1. /\ phase = "request" /\ asked < MaxRequests /\ phase' = "model" /\ asked' = asked + 1
      /\ UNCHANGED <<toolCalls, artifacts, pushes, contents, turnUser, docRows, docEdits>>
      /\ PipeTyped /\ EventsFollow /\ PagesFollow
  BY DEF BuildRequest, PipeInv
<1>2. PipeTyped'
  BY <1>1, PipeAssumption DEF PipeTyped
<1>3. CallsFollow' /\ PushesFollow'
  BY <1>1, SameCallsKept DEF SameCalls
<1>4. EventsFollow'
  BY <1>1 DEF EventsFollow
<1>5. AttachmentsInPlace'
  <2>1. PICK s \in Surroundings :
           request' = [contents |-> WithAttachments(contents), instruction |-> Instruction(s)]
    BY DEF BuildRequest
  <2>2. request'.contents = WithAttachments(contents)
    BY <2>1
  <2>3. InPlace(WithAttachments(contents))
    BY <1>1, BlockBeforePrompt DEF EventsFollow
  <2>4. InPlace(request'.contents)
    BY <2>2, <2>3
  <2>5. InPlace(request.contents)'
    BY <2>4 DEF InPlace
  <2> QED
    BY <2>5 DEF AttachmentsInPlace
<1>6. PagesFollow'
  <2>1. pages' = [d \in DOMAIN pages |->
                   [read |-> pages[d].read \cup 1 .. Excerpt(d),
                    next |-> IF pages[d].next > Excerpt(d) THEN pages[d].next
                             ELSE Excerpt(d)]]
    BY DEF BuildRequest
  <2>2. docRows' = docRows /\ DOMAIN pages' = ToSet(Attachments)
    BY <1>1, <2>1 DEF PagesFollow
  <2>3. ASSUME NEW d \in ToSet(Attachments)
        PROVE  /\ DOMAIN pages'[d] = {"read", "next"} /\ pages'[d].next \in Nat
               /\ docRows[d].version = 0 =>
                     pages'[d].next <= docRows[d].len /\ pages'[d].read = 1 .. pages'[d].next
    <3>1. /\ pages'[d] = [read |-> pages[d].read \cup 1 .. Excerpt(d),
                          next |-> IF pages[d].next > Excerpt(d) THEN pages[d].next ELSE Excerpt(d)]
      BY <1>1, <2>1 DEF PagesFollow
    <3>2. /\ DOMAIN pages'[d] = {"read", "next"}
          /\ pages'[d].read = pages[d].read \cup 1 .. Excerpt(d)
          /\ pages'[d].next = IF pages[d].next > Excerpt(d) THEN pages[d].next ELSE Excerpt(d)
      BY <3>1
    <3>3. Excerpt(d) \in Nat /\ Excerpt(d) <= docRows[d].len
      BY <1>1, ExcerptFits
    <3> QED
      BY <1>1, <3>2, <3>3 DEF PagesFollow
  <2> QED
    BY <1>1, <2>2, <2>3 DEF PagesFollow
<1> QED
  BY <1>2, <1>3, <1>4, <1>5, <1>6 DEF PipeInv

\* Steps that change neither the calls, the request nor the pages.
LEMMA PhaseKeeps ==
  ASSUME PipeInv, RequestRefused \/ ModelAnswers
  PROVE  PipeInv'
<1>1. /\ phase \in {"request", "model"} /\ phase' \in {"failed", "ended"}
      /\ UNCHANGED <<toolCalls, artifacts, pushes, contents, request, asked, turnUser, docRows, docEdits, pages>>
  BY DEF RequestRefused, ModelAnswers
<1>2. PipeTyped'
  BY <1>1 DEF PipeInv, PipeTyped
<1>3. CallsFollow' /\ PushesFollow'
  BY <1>1, SameCallsKept DEF SameCalls
<1>4. EventsFollow'
  BY <1>1 DEF PipeInv, EventsFollow
<1>5. AttachmentsInPlace' /\ PagesFollow'
  BY <1>1 DEF PipeInv, AttachmentsInPlace, PagesFollow
<1> QED
  BY <1>2, <1>3, <1>4, <1>5 DEF PipeInv

LEMMA SeqAppended ==
  ASSUME NEW S, NEW s \in Seq(S), NEW x \in S
  PROVE  /\ Append(s, x) \in Seq(S) /\ Len(s) \in Nat
         /\ Len(Append(s, x)) = Len(s) + 1
         /\ Append(s, x)[Len(s) + 1] = x
         /\ \A i \in 1 .. Len(s) : Append(s, x)[i] = s[i]
OBVIOUS

LEMMA NewEvent ==
  ASSUME PipeTyped, Paired(contents), NEW e \in [kind : {"calls", "responses"}, of : SUBSET PipeCalls],
         e.kind = "responses" => /\ contents[Len(contents)].kind = "calls"
                                 /\ contents[Len(contents)].of = e.of
  PROVE  /\ Paired(Append(contents, e))
         /\ Append(contents, e) \in Seq([kind : {"prompt", "calls", "responses"}, of : SUBSET PipeCalls])
         /\ Len(Append(contents, e)) = Len(contents) + 1
         /\ Append(contents, e)[Len(contents) + 1] = e
<1>0. PICK events : contents \in Seq(events) /\ events = [kind : {"prompt", "calls", "responses"}, of : SUBSET PipeCalls]
  BY DEF PipeTyped
<1>1. e \in events /\ e.kind \in {"calls", "responses"}
  BY <1>0
<1>2. /\ Append(contents, e) \in Seq(events) /\ Len(contents) \in Nat
      /\ Len(Append(contents, e)) = Len(contents) + 1
      /\ Append(contents, e)[Len(contents) + 1] = e
      /\ \A i \in 1 .. Len(contents) : Append(contents, e)[i] = contents[i]
  <2>1. contents \in Seq(events) /\ e \in events
    BY <1>0, <1>1
  <2> QED
    BY <2>1, SeqAppended
<1>3. Paired(Append(contents, e))
  <2>1. \A i \in 2 .. Len(contents) + 1 : i \in 2 .. Len(contents) \/ i = Len(contents) + 1
    BY <1>2
  <2>2. \A i \in 2 .. Len(contents) + 1 : i - 1 \in 1 .. Len(contents)
    BY <1>2
  <2>3. \A i \in 2 .. Len(contents) : i \in 1 .. Len(contents)
    BY <1>2
  <2>4. Len(contents) + 1 - 1 = Len(contents)
    BY <1>2, SMTT(60)
  <2>5. Len(contents) > 0
    BY SMTT(60) DEF Paired
  <2> QED
    BY <1>1, <1>2, <2>1, <2>2, <2>3, <2>4, <2>5 DEF Paired
<1> QED
  BY <1>0, <1>2, <1>3

LEMMA BatchBegins ==
  ASSUME PipeInv, ModelCallsTools
  PROVE  PipeInv'
<1>1. PICK batch \in SUBSET InState("unused"), tool \in [PipeCalls -> DOMAIN PipeTools] :
         /\ toolCalls' = [c \in PipeCalls |->
                IF c \in batch THEN [toolCalls[c] EXCEPT !.st = "asked", !.tool = tool[c]]
                ELSE toolCalls[c]]
         /\ contents' = Append(contents, [kind |-> "calls", of |-> batch])
  BY DEF ModelCallsTools
<1>2. /\ phase = "model" /\ phase' = "tools"
      /\ UNCHANGED <<artifacts, pushes, request, asked, turnUser, docRows, docEdits, pages>>
      /\ PipeTyped /\ EventsFollow /\ CallsFollow /\ PushesFollow
  BY DEF ModelCallsTools, PipeInv
<1>3. toolCalls \in [PipeCalls -> [st : CallStates, tool : DOMAIN PipeTools \cup {NoResponse},
                                    body : Bodies, big : BOOLEAN, response : Bodies \cup {"pointer"}]]
  BY <1>2 DEF PipeTyped
<1>4. \A c \in PipeCalls :
         /\ c \in batch => /\ toolCalls[c].st = "unused" /\ toolCalls'[c].st = "asked"
                           /\ toolCalls'[c].tool \in DOMAIN PipeTools
                           /\ toolCalls'[c].body = toolCalls[c].body
                           /\ toolCalls'[c].response = toolCalls[c].response
         /\ c \notin batch => toolCalls'[c] = toolCalls[c]
  BY <1>1, <1>3 DEF InState
<1>5. PICK e : e = [kind |-> "calls", of |-> batch]
  OBVIOUS
<1>6. /\ e \in [kind : {"calls", "responses"}, of : SUBSET PipeCalls]
      /\ e.kind = "calls" /\ e.of = batch
  BY <1>5 DEF InState
<1>7. /\ Paired(Append(contents, e))
      /\ Append(contents, e) \in Seq([kind : {"prompt", "calls", "responses"}, of : SUBSET PipeCalls])
      /\ Len(Append(contents, e)) = Len(contents) + 1
      /\ Append(contents, e)[Len(contents) + 1] = e
  <2>1. Paired(contents) /\ e.kind # "responses"
    BY <1>2, <1>6 DEF EventsFollow
  <2> QED
    BY <1>2, <1>6, <2>1, NewEvent, Zenon
<1>8. contents' = Append(contents, e)
  BY <1>1, <1>5
<1>9. PipeTyped'
  <2>1. toolCalls' \in [PipeCalls -> [st : CallStates, tool : DOMAIN PipeTools \cup {NoResponse},
                                    body : Bodies, big : BOOLEAN, response : Bodies \cup {"pointer"}]]
    BY <1>1, <1>3, ZenonT(60) DEF CallStates
  <2> QED
    BY <1>2, <1>7, <1>8, <2>1 DEF PipeTyped
<1>10. CallsFollow'
  BY <1>2, <1>4 DEF CallsFollow
<1>11. PushesFollow'
  BY <1>2, <1>4 DEF PushesFollow
<1>12. EventsFollow'
  <2>1. {c \in PipeCalls : toolCalls'[c].st \notin {"unused", "seen"}} = batch
    BY <1>2, <1>4 DEF EventsFollow, InState
  <2>2. contents'[Len(contents')] = e /\ Paired(contents')
    BY <1>7, <1>8
  <2> QED
    BY <1>2, <1>6, <2>1, <2>2 DEF EventsFollow
<1>13. AttachmentsInPlace' /\ PagesFollow'
  BY <1>2 DEF PipeInv, AttachmentsInPlace, PagesFollow
<1> QED
  BY <1>9, <1>10, <1>11, <1>12, <1>13, SMTT(60) DEF PipeInv

LEMMA BatchEnds ==
  ASSUME PipeInv, BatchDone
  PROVE  PipeInv'
<1>1. /\ phase = "tools" /\ phase' = "request"
      /\ \A c \in PipeCalls : toolCalls[c].st \in {"unused", "done", "seen"}
      /\ contents' = Append(contents, [kind |-> "responses", of |-> InState("done")])
      /\ toolCalls' = [c \in PipeCalls |->
             IF toolCalls[c].st = "done" THEN [toolCalls[c] EXCEPT !.st = "seen"]
             ELSE toolCalls[c]]
      /\ UNCHANGED <<artifacts, pushes, request, asked, turnUser, docRows, docEdits, pages>>
      /\ PipeTyped /\ EventsFollow /\ CallsFollow /\ PushesFollow
  BY DEF BatchDone, PipeInv
<1>3. toolCalls \in [PipeCalls -> [st : CallStates, tool : DOMAIN PipeTools \cup {NoResponse},
                                    body : Bodies, big : BOOLEAN, response : Bodies \cup {"pointer"}]]
  BY <1>1 DEF PipeTyped
<1>4. \A c \in PipeCalls :
         /\ toolCalls'[c].tool = toolCalls[c].tool /\ toolCalls'[c].body = toolCalls[c].body
         /\ toolCalls'[c].response = toolCalls[c].response
         /\ toolCalls[c].st = "done" => toolCalls'[c].st = "seen"
         /\ toolCalls[c].st # "done" => toolCalls'[c].st = toolCalls[c].st
  BY <1>1, <1>3
<1>5. PICK e : e = [kind |-> "responses", of |-> InState("done")]
  OBVIOUS
<1>6. /\ e \in [kind : {"calls", "responses"}, of : SUBSET PipeCalls]
      /\ e.of = InState("done")
  BY <1>5 DEF InState
<1>7. /\ Paired(Append(contents, e))
      /\ Append(contents, e) \in Seq([kind : {"prompt", "calls", "responses"}, of : SUBSET PipeCalls])
  <2>1. {c \in PipeCalls : toolCalls[c].st \notin {"unused", "seen"}} = InState("done")
    BY <1>1 DEF InState
  <2>2. /\ Paired(contents) /\ contents[Len(contents)].kind = "calls"
        /\ contents[Len(contents)].of = e.of
    BY <1>1, <1>6, <2>1 DEF EventsFollow
  <2> QED
    BY <1>1, <1>6, <2>2, NewEvent, Zenon
<1>8. contents' = Append(contents, e)
  BY <1>1, <1>5
<1>9. PipeTyped'
  <2>1. toolCalls' \in [PipeCalls -> [st : CallStates, tool : DOMAIN PipeTools \cup {NoResponse},
                                    body : Bodies, big : BOOLEAN, response : Bodies \cup {"pointer"}]]
    BY <1>1, <1>3 DEF CallStates
  <2> QED
    BY <1>1, <1>7, <1>8, <2>1 DEF PipeTyped
<1>10. CallsFollow'
  BY <1>1, <1>4 DEF CallsFollow
<1>11. PushesFollow'
  BY <1>1, <1>4 DEF PushesFollow
<1>12. EventsFollow'
  BY <1>1, <1>4, <1>7, <1>8 DEF EventsFollow
<1>13. AttachmentsInPlace' /\ PagesFollow'
  BY <1>1 DEF PipeInv, AttachmentsInPlace, PagesFollow
<1> QED
  BY <1>9, <1>10, <1>11, <1>12, <1>13 DEF PipeInv

LEMMA ReadKeepsPages ==
  ASSUME PipeInv, NEW d \in ToSet(Attachments), ReadAttachedDocument(d)
  PROVE  PipeInv'
<1> DEFINE from == pages[d].next
           to == PageEnd(d, pages[d].next)
<1>1. /\ pages[d].next < docRows[d].len
      /\ UNCHANGED <<toolCalls, artifacts, pushes, contents, request, asked, turnUser, docRows, docEdits, phase>>
      /\ PagesFollow
  BY DEF ReadAttachedDocument, PipeInv
<1>2. /\ from \in Nat /\ to \in Nat /\ from <= to /\ to <= docRows[d].len
  BY <1>1, PipeAssumption DEF PagesFollow, PageEnd
<1>3. /\ DOMAIN pages' = DOMAIN pages
      /\ \A y \in ToSet(Attachments) \ {d} : pages'[y] = pages[y]
      /\ DOMAIN pages'[d] = {"read", "next"}
      /\ pages'[d].read = pages[d].read \cup (from + 1 .. to)
      /\ pages'[d].next = to
  BY <1>1 DEF ReadAttachedDocument, PagesFollow, NextOffset
<1>4. docRows[d].version = 0 => pages'[d].read = 1 .. to
  <2>1. 1 .. from \cup (from + 1 .. to) = 1 .. to
    <3> HIDE DEF from, to
    <3> QED
      BY <1>2
  <2> QED
    BY <1>1, <1>3, <2>1 DEF PagesFollow
<1>5. PagesFollow'
  <2> HIDE DEF from, to
  <2> QED
    BY <1>1, <1>2, <1>3, <1>4 DEF PagesFollow
<1>6. PipeTyped' /\ EventsFollow' /\ AttachmentsInPlace'
  BY <1>1 DEF PipeInv, PipeTyped, EventsFollow, AttachmentsInPlace
<1>7. CallsFollow' /\ PushesFollow'
  BY <1>1, SameCallsKept DEF SameCalls
<1> QED
  BY <1>5, <1>6, <1>7 DEF PipeInv

LEMMA EditKeepsPages ==
  ASSUME PipeInv, NEW d \in ToSet(Attachments), DocumentChanges(d)
  PROVE  PipeInv'
<1>1. /\ UNCHANGED <<toolCalls, artifacts, pushes, contents, request, asked, phase, turnUser, pages>>
      /\ PagesFollow
  BY DEF DocumentChanges, PipeInv
<1>2. /\ DOMAIN docRows' = DOMAIN docRows
      /\ \A y \in ToSet(Attachments) \ {d} : docRows'[y] = docRows[y]
      /\ DOMAIN docRows'[d] = {"owned", "deleting", "parsed", "len", "version"}
      /\ docRows'[d].len \in Nat /\ docRows'[d].version \in Nat
      /\ docRows'[d].version = 0 => docRows'[d].len = docRows[d].len /\ docRows[d].version = 0
  <2>1. CASE \E n \in TextLengths :
            docRows' = [docRows EXCEPT ![d].len = n, ![d].version = @ + 1]
    BY <1>1, <2>1, PipeAssumption DEF PagesFollow
  <2>2. CASE docRows' = [docRows EXCEPT ![d].deleting = TRUE]
    BY <1>1, <2>2 DEF PagesFollow
  <2> QED
    BY <2>1, <2>2 DEF DocumentChanges
<1>3. PagesFollow'
  BY <1>1, <1>2 DEF PagesFollow
<1>4. PipeTyped' /\ EventsFollow' /\ AttachmentsInPlace'
  BY <1>1 DEF PipeInv, PipeTyped, EventsFollow, AttachmentsInPlace
<1>5. CallsFollow' /\ PushesFollow'
  BY <1>1, SameCallsKept DEF SameCalls
<1> QED
  BY <1>3, <1>4, <1>5 DEF PipeInv

LEMMA PipeKeeps == PipeInv /\ [PipeNext]_pipeVars => PipeInv'
<1> SUFFICES ASSUME PipeInv, [PipeNext]_pipeVars PROVE PipeInv'
  OBVIOUS
<1>1. CASE UNCHANGED pipeVars
  <2>1. /\ UNCHANGED <<toolCalls, artifacts, pushes, contents, request, asked, phase, turnUser, docRows, pages>>
        /\ PipeTyped /\ EventsFollow /\ AttachmentsInPlace /\ PagesFollow
    BY <1>1 DEF pipeVars, PipeInv
  <2>2. PipeTyped' /\ EventsFollow' /\ AttachmentsInPlace' /\ PagesFollow'
    BY <2>1 DEF PipeTyped, EventsFollow, AttachmentsInPlace, PagesFollow
  <2>3. CallsFollow' /\ PushesFollow'
    BY <2>1, SameCallsKept DEF SameCalls
  <2> QED
    BY <2>2, <2>3 DEF PipeInv
<1>2. CASE PipeNext
  BY <1>2, BuildKeeps, PhaseKeeps, BatchBegins, BatchEnds, CallSteps, EndSteps, ReadKeepsPages, EditKeepsPages
  DEF PipeNext
<1> QED
  BY <1>1, <1>2

\* The invariant gives each of the promises.
LEMMA PipePromises ==
  ASSUME PipeInv
  PROVE  PipeTypeOK /\ RenderedWhole /\ PointerResolves /\ AttachmentsInPlace /\ PagesCoverDocument
<1>1. PipeTypeOK
  <2>1. \A i \in DOMAIN pushes : pushes[i].of \in PipeCalls
    <3>1. PICK S : pushes \in Seq(S) /\ S = [surface : ShownSurfaces, of : PipeCalls, seq : Nat]
      BY DEF PipeInv, PipeTyped, PushLists
    <3>2. \A i \in DOMAIN pushes : pushes[i] \in S
      BY <3>1, SeqParts, Zenon
    <3> QED
      BY <3>1, <3>2
  <2>2. \A i \in DOMAIN pushes : pushes[i].of \in Finished
    BY <2>1 DEF PipeInv, PushesFollow, NotPushed, Finished
  <2> QED
    BY <2>2 DEF PipeInv, PipeTyped, PipeTypeOK, CallStates
<1>2. RenderedWhole
  <2> SUFFICES ASSUME NEW c \in Finished, NEW on, on = ShownOn(toolCalls[c].tool, toolCalls[c].body),
                      NEW mine, mine = {i \in DOMAIN pushes : pushes[i].of = c}
               PROVE  IF on = None THEN mine = {}
                      ELSE Cardinality(mine) = 1 /\ \A i \in mine : pushes[i].surface = on
    BY DEF RenderedWhole
  <2>1. c \in PipeCalls /\ toolCalls[c].st \in {"done", "seen"}
    BY DEF Finished
  <2>2. CASE on = None
    BY <2>1, <2>2 DEF PipeInv, PushesFollow, NotPushed
  <2>3. CASE on # None
    <3>1. PICK i \in DOMAIN pushes :
             /\ pushes[i].of = c /\ pushes[i].surface = on
             /\ \A j \in DOMAIN pushes : pushes[j].of = c => j = i
      BY <2>1, <2>3 DEF PipeInv, PushesFollow, PushedOnce
    <3>2. mine = {i}
      BY <3>1
    <3> QED
      BY <2>3, <3>1, <3>2, FS_Singleton
  <2> QED
    BY <2>2, <2>3
<1>3. PointerResolves
  BY DEF PipeInv, CallsFollow, PointerResolves, RetrieveArtifact, Scope, Finished
<1>4. AttachmentsInPlace
  BY DEF PipeInv
<1>5. PagesCoverDocument
  BY DEF PipeInv, PagesFollow, PagesCoverDocument
<1> QED
  BY <1>1, <1>2, <1>3, <1>4, <1>5

(* A result is on screen once and where its mapping says, a pointer can be   *)
(* loaded, attachments stand before the prompt of every request and paging  *)
(* through a document reads all of it.                                      *)
THEOREM PipelineKeepsResults ==
  PipeSpec => [](PipeTypeOK /\ RenderedWhole /\ PointerResolves /\ AttachmentsInPlace /\ PagesCoverDocument)
<1> QED
  BY PipeStarts, PipeKeeps, PipePromises, PTL DEF PipeSpec

-----------------------------------------------------------------------------
(* The parts together: a behaviour of the whole is a behaviour of each part, *)
(* since the parts share no state.                                          *)
wholeVars == <<part, vars, surfaceVars, pipeVars, authoredVars, toolVars, payloadVars>>

LEMMA SurfacesInParts ==
  ASSUME [SurfacesNext]_wholeVars
  PROVE  /\ [Next]_vars
         /\ [SurfaceNext]_surfaceVars
         /\ [PipeNext]_pipeVars
         /\ [AuthoredNext]_authoredVars
         /\ [ToolsNext]_toolVars
         /\ [PayloadNext]_payloadVars
<1>1. CASE SurfacesNext
  BY <1>1 DEF SurfacesNext
<1>2. CASE UNCHANGED wholeVars
  BY <1>2 DEF wholeVars
<1> QED
  BY <1>1, <1>2

LEMMA PartsAreSpecs ==
  SurfacesSpec => /\ Spec
                  /\ SurfaceSpec
                  /\ PipeSpec
                  /\ AuthoredSpec
                  /\ ToolsSpec
                  /\ PayloadSpec
<1>1. SurfacesInit => /\ Init
                      /\ SurfaceInit
                      /\ PipeInit
                      /\ AuthoredInit
                      /\ ToolsInit
                      /\ PayloadInit
  BY DEF SurfacesInit
<1> QED
  BY <1>1, SurfacesInParts, PTL
  DEF SurfacesSpec, wholeVars, Spec, SurfaceSpec, PipeSpec, AuthoredSpec, ToolsSpec, PayloadSpec

(* What a surface shows is what was done to it, in the composed system.     *)
THEOREM SurfacesAreKept == ~Overlap => (SurfacesSpec => []SurfacesKept)
<1> SUFFICES ASSUME ~Overlap PROVE SurfacesSpec => []SurfacesKept
  OBVIOUS
<1>1. SubmittedFormIsRead /\ StatusIsReported /\ ReplayKeepsLayout => SurfacesKept
  BY DEF SurfacesKept
<1>2. SurfaceSpec => [](SubmittedFormIsRead /\ StatusIsReported)
  BY FormsAndStatus
<1> QED
  BY <1>1, <1>2, PartsAreSpecs, LayoutIsReplayed, PTL

(* Contract tools answer what they are asked and show obligations that are  *)
(* ordered, complete and flagged, in the composed system.                   *)
THEOREM ContractsAreSound == SurfacesSpec => []ContractsSound
<1>1. AnswersTheQuestion /\ FormsAppend /\ TimelineKept /\ PayloadHonest => ContractsSound
  BY DEF ContractsSound
<1> QED
  BY <1>1, PartsAreSpecs, AnswersAreSound, PayloadIsTrue, PTL

(* What passes between model, tools and documents arrives whole, in the      *)
(* composed system.                                                         *)
THEOREM PipelineIsWhole == SurfacesSpec => []PipelineWhole
<1>1. PipeTypeOK /\ RenderedWhole /\ PointerResolves /\ AttachmentsInPlace /\ PagesCoverDocument => PipelineWhole
  BY DEF PipelineWhole
<1> QED
  BY <1>1, PartsAreSpecs, PipelineKeepsResults, PTL
=============================================================================
