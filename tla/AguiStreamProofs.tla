-------------------------- MODULE AguiStreamProofs --------------------------
(***************************************************************************)
(* Proofs about stream_agui_events and the HTTP turn around it, for any    *)
(* tool calls, any number of events, marks and silence ticks, on either    *)
(* route: what the generator yields, and what stands on the wire behind    *)
(* the filters.                                                            *)
(***************************************************************************)
EXTENDS TurnStream, SequenceTheorems, TLAPS

(* Is there a terminal on the output?                                       *)
HasTerminal == \E i \in 1..Len(out) : IsTerminal(out[i])

(* Is there a surface among the tracker's queued events?                    *)
SurfaceQueued == \E i \in 1..Len(stageEvents) : IsAnswer(stageEvents[i])

(* The inductive invariant.  The flags the generator keeps agree with what  *)
(* it yielded: terminalEventYielded with the presence of a terminal, and    *)
(* producedOutput, while the run is open, with the presence of an answer.   *)
(* A surface reaches the output past producedOutput, through the tracker;   *)
(* the call it stems from was forwarded, is in flight, or is still owed by  *)
(* the adapter.                                                             *)
FlagsAgree ==
    /\ terminalEventYielded <=> HasTerminal
    /\ ~terminalEventYielded /\ producedOutput => RunShown

CallComes == producedOutput \/ owed \/ pending.type \in VisibleTypes

AnswerAccounted == ~terminalEventYielded /\ (RunShown \/ SurfaceQueued) => CallComes

(* The adapter's phase bounds what can still be pulled: before it produced  *)
(* a terminal there is none, on the output or in flight, and it does not    *)
(* finish while it owes the start of a call.                                *)
PhaseAgrees ==
    /\ terminalEventYielded => pc \in {"pull", "closed"}
    /\ phase \in {"new", "running"} => ~terminalEventYielded /\ ~IsTerminal(pending)
    /\ pending.type = "RUN_FINISHED" => ~owed

StreamInv ==
    /\ TypeOK /\ FlagsAgree /\ AnswerAccounted /\ PhaseAgrees
    /\ TerminalLast /\ BlockedTurnSaysWhy
-----------------------------------------------------------------------------
(* Events the generator adds of its own: none of them closes a run, and     *)
(* only a surface answers it.                                               *)
AddedEvents ==
    {Thinking} \cup Tracked \cup {Heartbeat(n) : n \in 1..MaxBeats}

(* They are output events; stages are tracked events, and neither a stage,  *)
(* a heartbeat nor the thinking label is an answer.                         *)
LEMMA AddedFacts ==
    /\ AddedEvents \subseteq OutEvents
    /\ Stages \subseteq Tracked /\ Tracked \subseteq AddedEvents
    /\ \A e \in AddedEvents : ~IsTerminal(e)
    /\ \A e \in Stages : ~IsAnswer(e)
    /\ \A n : ~IsAnswer(Heartbeat(n))
    /\ ~IsAnswer(Thinking)
BY DEF AddedEvents, OutEvents, Tracked, Stages, IsTerminal, IsAnswer, Thinking, Stage, Surface,
       Heartbeat, Ev

(* Appending such events closes nothing and shows the surfaces among them.  *)
LEMMA AppendAdded ==
    ASSUME TypeOK, NEW s \in Seq(AddedEvents), out' = out \o s
    PROVE  /\ out' \in Seq(OutEvents)
           /\ HasTerminal' <=> HasTerminal
           /\ RunShown' <=> (RunShown \/ \E i \in 1..Len(s) : IsAnswer(s[i]))
<1>1. s \in Seq(OutEvents) /\ out \in Seq(OutEvents)
  BY AddedFacts DEF TypeOK
<1>2. out' \in Seq(OutEvents) /\ Len(out') = Len(out) + Len(s)
  BY <1>1
<1>3. \A i \in 1..Len(out) : i \in 1..Len(out') /\ out'[i] = out[i]
  BY <1>1, <1>2
<1>4. \A i \in 1..Len(s) : Len(out) + i \in 1..Len(out') /\ out'[Len(out) + i] = s[i]
  BY <1>1, <1>2
<1>5. \A i \in 1..Len(out') : i \in 1..Len(out) \/ (i - Len(out) \in 1..Len(s) /\ out'[i] = s[i - Len(out)])
  BY <1>1, <1>2
<1>6. \A i \in 1..Len(s) : ~IsTerminal(s[i])
  BY AddedFacts
<1>7. HasTerminal' <=> HasTerminal
  BY <1>3, <1>5, <1>6 DEF HasTerminal
<1>8. ASSUME RunShown' PROVE RunShown \/ \E i \in 1..Len(s) : IsAnswer(s[i])
  BY <1>3, <1>5, <1>8 DEF RunShown
<1>9. ASSUME RunShown \/ \E i \in 1..Len(s) : IsAnswer(s[i]) PROVE RunShown'
  BY <1>3, <1>4, <1>9 DEF RunShown
<1> QED
  BY <1>2, <1>7, <1>8, <1>9

(* Appending one event shows exactly that event in addition.                *)
LEMMA AppendOne ==
    ASSUME TypeOK, NEW e \in OutEvents, out' = Append(out, e)
    PROVE  /\ out' \in Seq(OutEvents)
           /\ HasTerminal' <=> (HasTerminal \/ IsTerminal(e))
           /\ RunShown' <=> (RunShown \/ IsAnswer(e))
           /\ Len(out') = Len(out) + 1
           /\ out'[Len(out')] = e
           /\ \A i \in 1..Len(out) : out'[i] = out[i]
<1>1. out \in Seq(OutEvents)
  BY DEF TypeOK
<1>2. /\ out' \in Seq(OutEvents) /\ Len(out') = Len(out) + 1 /\ out'[Len(out')] = e
      /\ \A i \in 1..Len(out) : out'[i] = out[i]
  BY <1>1
<1>3. \A i \in 1..Len(out') : i \in 1..Len(out) \/ i = Len(out')
  BY <1>1, <1>2
<1>4. \A i \in 1..Len(out) : i \in 1..Len(out')
  BY <1>1, <1>2
<1>5. Len(out') \in 1..Len(out')
  BY <1>1, <1>2
<1> QED
  BY <1>2, <1>3, <1>4, <1>5 DEF HasTerminal, RunShown

(* Every event the adapter can deliver may be yielded, and so may every     *)
(* terminal the generator puts in its place; the markers of the anext task  *)
(* are not events.                                                          *)
LEMMA SourceFacts ==
    /\ SourceEvents \subseteq OutEvents
    /\ ~IsTerminal(Waiting) /\ ~IsTerminal(Stop) /\ ~IsTerminal(Raise) /\ ~IsTerminal(TimedOut)
    /\ Waiting \notin SourceEvents /\ Stop \notin SourceEvents
    /\ Raise \notin SourceEvents /\ TimedOut \notin SourceEvents
    /\ \A e \in SourceEvents : e.type \in TerminalTypes <=> IsTerminal(e)
    /\ \A e \in SourceEvents : e.type \in VisibleTypes <=> IsAnswer(e)
    /\ \A e \in SourceEvents : ~(IsTerminal(e) /\ IsAnswer(e))
<1>1. SourceEvents \subseteq OutEvents
  BY DEF OutEvents
<1>2. ~IsTerminal(Waiting) /\ ~IsTerminal(Stop) /\ ~IsTerminal(Raise) /\ ~IsTerminal(TimedOut)
  BY DEF IsTerminal, Waiting, Stop, Raise, TimedOut, Ev
<1>3. \A e \in SourceEvents : e.type \in {"RUN_STARTED", "TEXT_MESSAGE_CONTENT", "REASONING",
         "A2UI_SURFACE", "TOOL_CALL_START", "TOOL_CALL_RESULT", "RUN_FINISHED", "RUN_ERROR"}
  BY DEF SourceEvents, RunStarted, BodyEvents, TerminalEvents, Ev
<1>4. Waiting.type = "WAITING" /\ Stop.type = "STOP" /\ Raise.type = "RAISE"
      /\ TimedOut.type = "TIMED_OUT"
  BY DEF Waiting, Stop, Raise, TimedOut, Ev
<1>5. /\ Waiting \notin SourceEvents /\ Stop \notin SourceEvents
      /\ Raise \notin SourceEvents /\ TimedOut \notin SourceEvents
  BY <1>3, <1>4
<1>6. \A e \in SourceEvents : /\ e.type \in TerminalTypes <=> IsTerminal(e)
                              /\ e.type \in VisibleTypes <=> IsAnswer(e)
                              /\ ~(IsTerminal(e) /\ IsAnswer(e))
  BY DEF TerminalTypes, VisibleTypes, IsTerminal, IsAnswer
<1> QED
  BY <1>1, <1>2, <1>5, <1>6

(* The terminal that replaces the adapter's is a terminal of the output,    *)
(* not an answer, and carries the typed error if there is one.              *)
LEMMA TerminalForFacts ==
    ASSUME TypeOK, NEW e \in SourceEvents, IsTerminal(e)
    PROVE  /\ TerminalFor(e) \in OutEvents
           /\ IsTerminal(TerminalFor(e)) /\ ~IsAnswer(TerminalFor(e))
           /\ typedError # NoError => TerminalFor(e).code = typedError
           /\ TerminalFor(e).type = "RUN_FINISHED" => producedOutput
           /\ TerminalFor(e).code = "EMPTY_RUN" => ~producedOutput
<1>1. e \in OutEvents /\ ~IsAnswer(e)
  BY SourceFacts
<1>2. e.code # "EMPTY_RUN" /\ (e.type = "RUN_FINISHED" \/ e.type = "RUN_ERROR")
  BY DEF SourceEvents, Ev, RunStarted, BodyEvents, TerminalEvents, IsTerminal, NoError
<1>3. typedError = NoError \/ typedError = Typed
  BY DEF TypeOK
<1>4. CASE typedError # NoError
  <2>1. TerminalFor(e) = Ev("RUN_ERROR", 0, Typed) /\ typedError = Typed
    BY <1>3, <1>4 DEF TerminalFor
  <2> QED
    BY <2>1 DEF OutEvents, Ev, IsTerminal, IsAnswer, Typed
<1>5. CASE typedError = NoError /\ e.type = "RUN_FINISHED" /\ ~producedOutput
  <2>1. TerminalFor(e) = EmptyRun
    BY <1>5 DEF TerminalFor
  <2> QED
    BY <2>1, <1>5 DEF OutEvents, EmptyRun, Ev, IsTerminal, IsAnswer
<1>6. CASE typedError = NoError /\ ~(e.type = "RUN_FINISHED" /\ ~producedOutput)
  <2>1. TerminalFor(e) = e
    BY <1>6 DEF TerminalFor
  <2> QED
    BY <2>1, <1>1, <1>2, <1>6
<1> QED
  BY <1>4, <1>5, <1>6
(* The generator reports an empty run only in the place of a RUN_FINISHED.  *)
LEMMA EmptyMeansFinished ==
    ASSUME TypeOK, NEW e \in SourceEvents, IsTerminal(e), TerminalFor(e).code = "EMPTY_RUN"
    PROVE  e.type = "RUN_FINISHED" /\ ~producedOutput
<1>1. e.code # "EMPTY_RUN"
  BY DEF SourceEvents, Ev, RunStarted, BodyEvents, TerminalEvents, NoError
<1>2. typedError = NoError
  BY DEF TypeOK, TerminalFor, Ev, Typed, NoError
<1> QED
  BY <1>1, <1>2 DEF TerminalFor
-----------------------------------------------------------------------------
(* The invariant holds when the generator is first resumed.                 *)
LEMMA InitInv == Init => StreamInv
<1> SUFFICES ASSUME Init PROVE StreamInv
  OBVIOUS
<1>1. TypeOK
  <2>1. PICK n \in 0..MaxMarks : marks = n /\ buffered = [i \in 1..n |-> Stage(i)]
    BY DEF Init
  <2>2. buffered \in Seq(Stages)
    <3>1. \A i \in 1..n : Stage(i) \in Stages
      BY StreamAssumption DEF Stages
    <3> QED
      BY <2>1, <3>1, StreamAssumption
  <2>3. /\ pending \in SourceEvents \cup {Waiting, Stop, Raise, TimedOut}
        /\ stageEvents \in Seq(Tracked) /\ out \in Seq(OutEvents)
        /\ typedError \in {NoError, Typed}
    BY DEF Init
  <2>4. pulled \in 0..MaxEvents /\ marks \in 0..MaxMarks /\ hbCount \in 0..MaxBeats
    BY <2>1, StreamAssumption DEF Init
  <2> QED
    BY <2>2, <2>3, <2>4 DEF Init, TypeOK
<1>2. ~HasTerminal /\ ~RunShown /\ ~SurfaceQueued /\ TerminalLast /\ BlockedTurnSaysWhy
  BY DEF Init, HasTerminal, RunShown, SurfaceQueued, TerminalLast, BlockedTurnSaysWhy
<1> QED
  BY <1>1, <1>2, SourceFacts DEF Init, StreamInv, FlagsAgree, AnswerAccounted, PhaseAgrees

(* A silence tick appends events of that kind, and answers only with        *)
(* surfaces that were queued.                                               *)
LEMMA TickIsAdded ==
    ASSUME TypeOK, SilenceTick
    PROVE  \E q \in Seq(AddedEvents) :
              /\ out' = out \o q
              /\ \A i \in 1..Len(q) : IsAnswer(q[i]) => SurfaceQueued
<1> DEFINE beat == <<Heartbeat(hbCount + 1)>>
           last == IF stageEvents = <<>> /\ ~firstModelTokenSeen THEN <<Thinking>> ELSE <<>>
           q == beat \o stageEvents \o last
<1>1. Heartbeat(hbCount + 1) \in AddedEvents /\ Thinking \in AddedEvents
  <2>1. hbCount + 1 \in 1..MaxBeats
    BY StreamAssumption DEF TypeOK, SilenceTick
  <2> QED
    BY <2>1 DEF AddedEvents
<1>2. beat \in Seq(AddedEvents) /\ last \in Seq(AddedEvents)
  BY <1>1
<1>3. stageEvents \in Seq(AddedEvents) /\ out \in Seq(OutEvents)
  BY AddedFacts DEF TypeOK
<1>4. AddedEvents \subseteq OutEvents
  BY AddedFacts
<1>5. out' = (out \o beat \o stageEvents) \o last
  BY DEF SilenceTick
<1>6. /\ Len(beat) = 1 /\ ~IsAnswer(beat[1])
      /\ \A i \in 1..Len(last) : ~IsAnswer(last[i])
  BY AddedFacts
<1> HIDE DEF beat, last
<1>7. out' = out \o q
  <2>1. beat \in Seq(OutEvents) /\ stageEvents \in Seq(OutEvents) /\ last \in Seq(OutEvents)
    BY <1>2, <1>3, <1>4
  <2>2. out \o beat \in Seq(OutEvents) /\ beat \o stageEvents \in Seq(OutEvents)
    BY <1>3, <2>1
  <2>3. (out \o beat) \o stageEvents = out \o (beat \o stageEvents)
    BY <1>3, <2>1, ConcatAssociative
  <2>4. (out \o (beat \o stageEvents)) \o last = out \o ((beat \o stageEvents) \o last)
    BY <1>3, <2>1, <2>2, ConcatAssociative, SMTT(60)
  <2> QED
    BY <1>5, <2>3, <2>4
<1>8. q \in Seq(AddedEvents)
  BY <1>2, <1>3
<1>9. ASSUME NEW i \in 1..Len(q), IsAnswer(q[i]) PROVE SurfaceQueued
  <2>1. \/ i = 1 /\ q[i] = beat[1]
        \/ i - 1 \in 1..Len(stageEvents) /\ q[i] = stageEvents[i - 1]
        \/ i - 1 - Len(stageEvents) \in 1..Len(last) /\ q[i] = last[i - 1 - Len(stageEvents)]
    <3> DEFINE p == beat \o stageEvents
    <3>1. /\ p \in Seq(AddedEvents) /\ Len(p) = 1 + Len(stageEvents) /\ p[1] = beat[1]
          /\ \A k \in 2..Len(p) : k - 1 \in 1..Len(stageEvents) /\ p[k] = stageEvents[k - 1]
      <4>1. p \in Seq(AddedEvents) /\ Len(p) = Len(beat) + Len(stageEvents)
        BY <1>2, <1>3
      <4>2. Len(stageEvents) \in Nat
        BY <1>3
      <4>3. p[1] = beat[1]
        <5>1. 1 \in 1..Len(beat) + Len(stageEvents) /\ 1 <= Len(beat)
          BY <1>6, <4>2
        <5> HIDE DEF q
        <5> QED
          BY <1>2, <1>3, <5>1, ConcatProperties
      <4>4. ASSUME NEW k \in 2..Len(p)
            PROVE  k - 1 \in 1..Len(stageEvents) /\ p[k] = stageEvents[k - 1]
        <5>1. k \in 1..Len(beat) + Len(stageEvents) /\ ~(k <= Len(beat)) /\ k - Len(beat) = k - 1
          BY <1>6, <4>1, <4>2
        <5> HIDE DEF q
        <5>2. p[k] = stageEvents[k - Len(beat)]
          BY <1>2, <1>3, <5>1
        <5> QED
          BY <1>6, <4>2, <5>1, <5>2
      <4> QED
        BY <1>6, <4>1, <4>3, <4>4
    <3> HIDE DEF p
    <3>2. q = p \o last
      BY DEF p
    <3>3. /\ i \in 1..Len(p) => q[i] = p[i]
          /\ i \notin 1..Len(p) => i - Len(p) \in 1..Len(last) /\ q[i] = last[i - Len(p)]
      BY <1>2, <3>1, <3>2
    <3>4. Len(stageEvents) \in Nat /\ i \in Nat
      BY <1>3
    <3>5. i \in 1..Len(p) => i = 1 \/ i \in 2..Len(p)
      BY <3>1, <3>4
    <3>6. i - Len(p) = i - 1 - Len(stageEvents)
      BY <3>1, <3>4
    <3> QED
      BY <3>1, <3>3, <3>5, <3>6
  <2> QED
    BY <1>6, <1>9, <2>1 DEF SurfaceQueued
<1> HIDE DEF q
<1> QED
  BY <1>7, <1>8, <1>9

(* Every step keeps the types: what is yielded is an output event.          *)
LEMMA TypeStep == TypeOK /\ [Next]_vars => TypeOK'
<1> SUFFICES ASSUME TypeOK, [Next]_vars PROVE TypeOK'
  OBVIOUS
<1> USE StreamAssumption DEF runVars, flagVars
<1>1. ASSUME NEW e \in SourceEvents, SourceEvent(e) PROVE TypeOK'
  BY <1>1 DEF TypeOK, SourceEvent
<1>2. ASSUME NEW how, SourceEnd(how) PROVE TypeOK'
  BY <1>2 DEF TypeOK, SourceEnd
<1>3. ASSUME Mark PROVE TypeOK'
  <2>0. marks + 1 \in 1..MaxMarks
    BY <1>3 DEF TypeOK, Mark
  <2>1. Stage(marks + 1) \in Stages
    BY <2>0 DEF Stages
  <2>2. stageEvents' \in Seq(Tracked) /\ marks' \in 0..MaxMarks
    BY <1>3, <2>0, <2>1, AddedFacts DEF TypeOK, Mark
  <2> QED
    BY <1>3, <2>2 DEF TypeOK, Mark
<1>14. ASSUME EmitSurface PROVE TypeOK'
  <2>0. marks + 1 \in 1..MaxMarks
    BY <1>14 DEF TypeOK, EmitSurface
  <2>1. Surface(marks + 1) \in Tracked
    BY <2>0 DEF Tracked
  <2>2. stageEvents' \in Seq(Tracked) /\ marks' \in 0..MaxMarks /\ owed' \in BOOLEAN
    BY <1>14, <2>0, <2>1 DEF TypeOK, EmitSurface
  <2> QED
    BY <1>14, <2>2 DEF TypeOK, EmitSurface
<1>4. ASSUME RecordRunError PROVE TypeOK'
  BY <1>4 DEF TypeOK, RecordRunError
<1>5. ASSUME SilenceTick PROVE TypeOK'
  <2>1. out' \in Seq(OutEvents)
    BY <1>5, TickIsAdded, AppendAdded
  <2>2. stageEvents' \in Seq(Tracked) /\ hbCount' \in 0..MaxBeats
    BY <1>5 DEF TypeOK, SilenceTick
  <2> QED
    BY <1>5, <2>1, <2>2 DEF TypeOK, SilenceTick
<1>6. ASSUME Forward PROVE TypeOK'
  <2>1. out' \in Seq(OutEvents)
    BY <1>6, SourceFacts, AppendOne DEF Forward
  <2> QED
    BY <1>6, <2>1 DEF TypeOK, Forward
<1>7. ASSUME Flush PROVE TypeOK'
  <2>1. buffered \in Seq(AddedEvents)
    BY AddedFacts DEF TypeOK
  <2>2. out' \in Seq(OutEvents)
    BY <1>7, <2>1, AppendAdded DEF Flush
  <2>3. buffered' \in Seq(Stages)
    BY <1>7 DEF Flush
  <2> QED
    BY <1>7, <2>2, <2>3 DEF TypeOK, Flush
<1>8. ASSUME Drain PROVE TypeOK'
  <2>1. stageEvents \in Seq(AddedEvents)
    BY AddedFacts DEF TypeOK
  <2>2. out' \in Seq(OutEvents)
    BY <1>8, <2>1, AppendAdded DEF Drain
  <2>3. stageEvents' \in Seq(Tracked)
    BY <1>8 DEF Drain
  <2> QED
    BY <1>8, <2>2, <2>3 DEF TypeOK, Drain
<1>9. ASSUME Terminate PROVE TypeOK'
  <2>1. out' \in Seq(OutEvents)
    BY <1>9, SourceFacts, TerminalForFacts, AppendOne DEF Terminate
  <2> QED
    BY <1>9, <2>1 DEF TypeOK, Terminate
<1>10. ASSUME DropLate PROVE TypeOK'
  BY <1>10 DEF TypeOK, DropLate
<1>11. ASSUME Finish PROVE TypeOK'
  BY <1>11 DEF TypeOK, Finish
<1>12. ASSUME Disconnect PROVE TypeOK'
  BY <1>12 DEF TypeOK, Disconnect
<1>13. ASSUME UNCHANGED vars PROVE TypeOK'
  BY <1>13 DEF TypeOK, vars
<1> QED
  BY <1>1, <1>2, <1>3, <1>4, <1>5, <1>6, <1>7, <1>8, <1>9, <1>10, <1>11, <1>12, <1>13,
     <1>14 DEF Next, Adapter, Generator

(* Steps that yield nothing and leave the flags and the slot alone keep the *)
(* part of the invariant that speaks of the output.                         *)
LEMMA SilentStep ==
    ASSUME StreamInv, UNCHANGED <<out, terminalEventYielded, producedOutput, typedError>>
    PROVE  FlagsAgree' /\ TerminalLast' /\ BlockedTurnSaysWhy'
BY DEF StreamInv, FlagsAgree, HasTerminal, RunShown, TerminalLast, BlockedTurnSaysWhy

(* So do steps that yield events of the generator's own while the run is    *)
(* open, if the surfaces among them were queued.                            *)
LEMMA AddedStep ==
    ASSUME StreamInv, ~terminalEventYielded, NEW q \in Seq(AddedEvents), out' = out \o q,
           \A i \in 1..Len(q) : IsAnswer(q[i]) => SurfaceQueued,
           SurfaceQueued' => SurfaceQueued,
           UNCHANGED <<terminalEventYielded, producedOutput, typedError, owed, pending>>
    PROVE  FlagsAgree' /\ AnswerAccounted' /\ TerminalLast' /\ BlockedTurnSaysWhy'
<1>1. ~HasTerminal' /\ (RunShown => RunShown') /\ (RunShown' => RunShown \/ SurfaceQueued)
  BY AppendAdded DEF StreamInv, FlagsAgree
<1>2. TerminalLast' /\ BlockedTurnSaysWhy'
  BY <1>1 DEF HasTerminal, TerminalLast, BlockedTurnSaysWhy
<1>3. FlagsAgree'
  BY <1>1 DEF StreamInv, FlagsAgree
<1>4. AnswerAccounted'
  BY <1>1 DEF StreamInv, AnswerAccounted, CallComes
<1> QED
  BY <1>2, <1>3, <1>4

(* Queueing an event queues a surface only if it is one.                    *)
LEMMA AppendQueued ==
    ASSUME TypeOK, NEW e \in Tracked, stageEvents' = Append(stageEvents, e)
    PROVE  SurfaceQueued' => (SurfaceQueued \/ IsAnswer(e))
<1>1. /\ Len(stageEvents') = Len(stageEvents) + 1
      /\ stageEvents'[Len(stageEvents')] = e
      /\ \A i \in 1..Len(stageEvents) : stageEvents'[i] = stageEvents[i]
      /\ Len(stageEvents) \in Nat
  BY DEF TypeOK
<1>2. \A i \in 1..Len(stageEvents') : i \in 1..Len(stageEvents) \/ i = Len(stageEvents')
  BY <1>1
<1> QED
  BY <1>1, <1>2 DEF SurfaceQueued

(* Every step keeps the invariant.                                          *)
LEMMA InvStep == StreamInv /\ [Next]_vars => StreamInv'
<1> SUFFICES ASSUME StreamInv, [Next]_vars PROVE StreamInv'
  OBVIOUS
<1> USE DEF runVars, flagVars
<1>0. TypeOK /\ TypeOK'
  BY TypeStep DEF StreamInv
<1> DEFINE Rest == /\ FlagsAgree /\ AnswerAccounted /\ PhaseAgrees
                  /\ TerminalLast /\ BlockedTurnSaysWhy
<1> SUFFICES Rest'
  BY <1>0 DEF StreamInv
<1>1. ASSUME UNCHANGED <<out, stageEvents>>
      PROVE  UNCHANGED <<RunShown, SurfaceQueued>>
  BY <1>1 DEF RunShown, SurfaceQueued
<1>2. ASSUME NEW e \in SourceEvents, SourceEvent(e) PROVE Rest'
  <2>1. FlagsAgree' /\ TerminalLast' /\ BlockedTurnSaysWhy'
    BY <1>2, SilentStep DEF SourceEvent
  <2>2. PhaseAgrees'
    <3>1. owed => e.type # "RUN_FINISHED"
      BY <1>2 DEF SourceEvent, Offered, RunStarted, Ev
    <3>2. (pending.type = "RUN_FINISHED" => ~owed)'
      BY <1>2, <3>1 DEF SourceEvent
    <3>3. e.type \in TerminalTypes <=> IsTerminal(e)
      BY SourceFacts
    <3> QED
      BY <1>2, <3>2, <3>3 DEF SourceEvent, StreamInv, PhaseAgrees
  <2>3. AnswerAccounted'
    <3>1. CallComes => producedOutput \/ owed
      BY <1>2 DEF SourceEvent, CallComes, VisibleTypes, Waiting, Ev
    <3>2. (producedOutput \/ owed) => CallComes'
      BY <1>2 DEF SourceEvent, CallComes, VisibleTypes
    <3> QED
      BY <1>1, <1>2, <3>1, <3>2 DEF SourceEvent, StreamInv, AnswerAccounted
  <2> QED
    BY <2>1, <2>2, <2>3
<1>3. ASSUME NEW how, SourceEnd(how) PROVE Rest'
  <2>1. FlagsAgree' /\ TerminalLast' /\ BlockedTurnSaysWhy'
    BY <1>3, SilentStep DEF SourceEnd
  <2>2. PhaseAgrees'
    BY <1>3 DEF SourceEnd, StreamInv, PhaseAgrees, Stop, Raise, TimedOut, Ev
  <2>3. AnswerAccounted'
    <3>1. CallComes => CallComes'
      BY <1>3 DEF SourceEnd, CallComes, VisibleTypes, Waiting, Ev
    <3> QED
      BY <1>1, <1>3, <3>1 DEF SourceEnd, StreamInv, AnswerAccounted
  <2> QED
    BY <2>1, <2>2, <2>3
<1>4. ASSUME Mark PROVE Rest'
  <2>1. FlagsAgree' /\ TerminalLast' /\ BlockedTurnSaysWhy'
    BY <1>4, SilentStep DEF Mark
  <2>2. PhaseAgrees'
    BY <1>4 DEF Mark, StreamInv, PhaseAgrees
  <2>3. Stage(marks + 1) \in Stages
    BY <1>0, <1>4, StreamAssumption DEF Mark, TypeOK, Stages
  <2>4. SurfaceQueued' => SurfaceQueued
    BY <1>0, <1>4, <2>3, AddedFacts, AppendQueued DEF Mark
  <2>5. RunShown' = RunShown
    BY <1>4 DEF Mark, RunShown
  <2>6. AnswerAccounted'
    BY <1>4, <2>4, <2>5 DEF Mark, StreamInv, AnswerAccounted, CallComes
  <2> QED
    BY <2>1, <2>2, <2>6
<1>15. ASSUME EmitSurface PROVE Rest'
  <2>1. FlagsAgree' /\ TerminalLast' /\ BlockedTurnSaysWhy'
    BY <1>15, SilentStep DEF EmitSurface
  <2>2. PhaseAgrees'
    BY <1>15 DEF EmitSurface, StreamInv, PhaseAgrees, IsTerminal
  <2>3. CallSeen => pending.type \in VisibleTypes \/ RunShown
    BY DEF CallSeen, VisibleTypes, RunShown, IsAnswer
  <2>4. ~terminalEventYielded
    BY <1>15 DEF EmitSurface, StreamInv, PhaseAgrees
  <2>5. RunShown => CallComes
    BY <2>4 DEF StreamInv, AnswerAccounted
  <2>6. CallComes'
    BY <1>15, <2>3, <2>5 DEF EmitSurface, CallComes
  <2> QED
    BY <2>1, <2>2, <2>6 DEF AnswerAccounted
<1>5. ASSUME RecordRunError PROVE Rest'
  <2>1. FlagsAgree' /\ PhaseAgrees' /\ TerminalLast'
    BY <1>5 DEF RecordRunError, StreamInv, FlagsAgree, PhaseAgrees, HasTerminal, RunShown, TerminalLast
  <2>2. ~HasTerminal /\ out' = out
    BY <1>5 DEF RecordRunError, StreamInv, FlagsAgree, PhaseAgrees
  <2>3. BlockedTurnSaysWhy'
    BY <2>2 DEF HasTerminal, BlockedTurnSaysWhy
  <2>4. AnswerAccounted'
    BY <1>1, <1>5 DEF RecordRunError, StreamInv, AnswerAccounted, CallComes
  <2> QED
    BY <2>1, <2>3, <2>4
<1>6. ASSUME SilenceTick PROVE Rest'
  <2>1. ~SurfaceQueued'
    BY <1>6 DEF SilenceTick, SurfaceQueued
  <2>2. FlagsAgree' /\ AnswerAccounted' /\ TerminalLast' /\ BlockedTurnSaysWhy'
    BY <1>0, <1>6, <2>1, TickIsAdded, AddedStep DEF SilenceTick
  <2>3. PhaseAgrees'
    BY <1>6 DEF SilenceTick, StreamInv, PhaseAgrees
  <2> QED
    BY <2>2, <2>3
<1>7. ASSUME Forward PROVE Rest'
  <2>1. /\ pending \in OutEvents /\ ~IsTerminal(pending)
        /\ pending.type \in VisibleTypes <=> IsAnswer(pending)
    BY <1>7, SourceFacts DEF Forward
  <2>2. ~HasTerminal /\ (producedOutput => RunShown)
    BY <1>7 DEF Forward, StreamInv, FlagsAgree
  <2>3. ~HasTerminal' /\ (RunShown' <=> (RunShown \/ IsAnswer(pending)))
    BY <1>0, <1>7, <2>1, <2>2, AppendOne DEF Forward
  <2>4. producedOutput' => RunShown'
    BY <1>7, <2>1, <2>2, <2>3 DEF Forward
  <2>5. TerminalLast' /\ BlockedTurnSaysWhy'
    BY <2>3 DEF HasTerminal, TerminalLast, BlockedTurnSaysWhy
  <2>6. PhaseAgrees'
    BY <1>7, SourceFacts DEF Forward, StreamInv, PhaseAgrees, Waiting, Ev
  <2>7. FlagsAgree'
    BY <1>7, <2>3, <2>4 DEF Forward, FlagsAgree
  <2>8. SurfaceQueued' = SurfaceQueued
    BY <1>7 DEF Forward, SurfaceQueued
  <2>9. CallComes \/ IsAnswer(pending) => CallComes'
    BY <1>7, <2>1 DEF Forward, CallComes
  <2>10. AnswerAccounted'
    BY <1>7, <2>3, <2>8, <2>9 DEF Forward, StreamInv, AnswerAccounted
  <2> QED
    BY <2>5, <2>6, <2>7, <2>10
<1>8. ASSUME Flush PROVE Rest'
  <2>1. ~terminalEventYielded /\ buffered \in Seq(AddedEvents)
    BY <1>0, <1>8, AddedFacts DEF Flush, StreamInv, PhaseAgrees, TypeOK
  <2>2. \A i \in 1..Len(buffered) : ~IsAnswer(buffered[i])
    BY <1>0, AddedFacts DEF TypeOK
  <2>3. SurfaceQueued' = SurfaceQueued
    BY <1>8 DEF Flush, SurfaceQueued
  <2>4. FlagsAgree' /\ AnswerAccounted' /\ TerminalLast' /\ BlockedTurnSaysWhy'
    BY <1>8, <2>1, <2>2, <2>3, AddedStep DEF Flush
  <2>5. PhaseAgrees'
    BY <1>8, <2>1 DEF Flush, StreamInv, PhaseAgrees
  <2> QED
    BY <2>4, <2>5
<1>9. ASSUME Drain PROVE Rest'
  <2>1. ~terminalEventYielded /\ stageEvents \in Seq(AddedEvents)
    BY <1>0, <1>9, AddedFacts DEF Drain, StreamInv, PhaseAgrees, TypeOK
  <2>2. \A i \in 1..Len(stageEvents) : IsAnswer(stageEvents[i]) => SurfaceQueued
    BY DEF SurfaceQueued
  <2>3. ~SurfaceQueued'
    BY <1>9 DEF Drain, SurfaceQueued
  <2>4. FlagsAgree' /\ AnswerAccounted' /\ TerminalLast' /\ BlockedTurnSaysWhy'
    BY <1>9, <2>1, <2>2, <2>3, AddedStep DEF Drain
  <2>5. PhaseAgrees'
    BY <1>9, <2>1 DEF Drain, StreamInv, PhaseAgrees
  <2> QED
    BY <2>4, <2>5
<1>10. ASSUME Terminate PROVE Rest'
  <2>1. pending \in SourceEvents /\ IsTerminal(pending)
    BY <1>10, SourceFacts DEF Terminate
  <2>2. /\ TerminalFor(pending) \in OutEvents /\ IsTerminal(TerminalFor(pending))
        /\ typedError # NoError => TerminalFor(pending).code = typedError
    BY <1>0, <2>1, TerminalForFacts
  <2>3. ~HasTerminal
    BY <1>10 DEF Terminate, StreamInv, FlagsAgree
  <2>4. /\ HasTerminal' /\ Len(out') = Len(out) + 1 /\ out'[Len(out')] = TerminalFor(pending)
        /\ \A i \in 1..Len(out) : out'[i] = out[i]
    BY <1>0, <1>10, <2>2, AppendOne DEF Terminate
  <2>5. \A i \in 1..Len(out') : i \in 1..Len(out) \/ i = Len(out')
    BY <1>0, <2>4 DEF TypeOK
  <2>6. \A i \in 1..Len(out') : IsTerminal(out'[i]) => i = Len(out')
    BY <2>3, <2>4, <2>5 DEF HasTerminal
  <2>7. TerminalLast' /\ BlockedTurnSaysWhy'
    <3>1. typedError' = typedError
      BY <1>10 DEF Terminate
    <3> QED
      BY <2>2, <2>4, <2>6, <3>1 DEF TerminalLast, BlockedTurnSaysWhy
  <2>8. FlagsAgree' /\ AnswerAccounted'
    BY <1>10, <2>4 DEF Terminate, FlagsAgree, AnswerAccounted
  <2>9. PhaseAgrees'
    BY <1>10, <2>1 DEF Terminate, StreamInv, PhaseAgrees, Waiting, Ev
  <2> QED
    BY <2>7, <2>8, <2>9
<1>11. ASSUME DropLate PROVE Rest'
  <2>1. FlagsAgree' /\ AnswerAccounted' /\ TerminalLast' /\ BlockedTurnSaysWhy'
    BY <1>11 DEF DropLate, StreamInv, FlagsAgree, AnswerAccounted, HasTerminal,
       TerminalLast, BlockedTurnSaysWhy
  <2>2. PhaseAgrees'
    BY <1>11, SourceFacts DEF DropLate, StreamInv, PhaseAgrees, Waiting, Ev
  <2> QED
    BY <2>1, <2>2
<1>12. ASSUME Finish \/ Disconnect \/ UNCHANGED vars PROVE Rest'
  <2>1. UNCHANGED <<out, stageEvents, pending, owed, terminalEventYielded, producedOutput, typedError>>
    BY <1>12 DEF Finish, Disconnect, vars
  <2>2. FlagsAgree' /\ TerminalLast' /\ BlockedTurnSaysWhy'
    BY <2>1, SilentStep
  <2>3. AnswerAccounted'
    BY <1>1, <2>1 DEF StreamInv, AnswerAccounted, CallComes
  <2>4. PhaseAgrees'
    BY <1>12 DEF Finish, Disconnect, vars, StreamInv, PhaseAgrees
  <2> QED
    BY <2>2, <2>3, <2>4
<1> QED
  BY <1>2, <1>3, <1>4, <1>5, <1>6, <1>7, <1>8, <1>9, <1>10, <1>11, <1>12, <1>15
     DEF Next, Adapter, Generator
-----------------------------------------------------------------------------
(* Every state of every run of stream_agui_events satisfies the invariant.  *)
THEOREM StreamInvariant == Spec => []StreamInv
BY InitInv, InvStep, PTL DEF Spec

(* Type correctness of the generator's state.                               *)
THEOREM TypeCorrect == Spec => []TypeOK
<1>1. StreamInv => TypeOK
  BY DEF StreamInv
<1> QED
  BY <1>1, StreamInvariant, PTL

(* Nothing follows a terminal event on the output of stream_agui_events.    *)
THEOREM TerminalIsLast == Spec => []TerminalLast
<1>1. StreamInv => TerminalLast
  BY DEF StreamInv
<1> QED
  BY <1>1, StreamInvariant, PTL

(* The terminal of a blocked run carries the typed error.                   *)
THEOREM BlockedIsTyped == Spec => []BlockedTurnSaysWhy
<1>1. StreamInv => BlockedTurnSaysWhy
  BY DEF StreamInv
<1> QED
  BY <1>1, StreamInvariant, PTL
-----------------------------------------------------------------------------
(* The outcome is open exactly while there is no terminal: the last event   *)
(* decides, since a terminal is the last.                                   *)
LEMMA OutcomeOpen == TypeOK /\ TerminalLast => (RunOutcome = "open" <=> ~HasTerminal)
<1> SUFFICES ASSUME TypeOK, TerminalLast PROVE RunOutcome = "open" <=> ~HasTerminal
  OBVIOUS
<1>1. out \in Seq(OutEvents)
  BY DEF TypeOK
<1>2. CASE out = <<>>
  BY <1>2 DEF RunOutcome, HasTerminal
<1>3. CASE out # <<>>
  <2>1. Len(out) \in 1..Len(out)
    BY <1>1, <1>3
  <2>2. HasTerminal <=> IsTerminal(out[Len(out)])
    BY <2>1 DEF HasTerminal, TerminalLast
  <2>3. OutcomeOf(out[Len(out)]) # "open"
    BY DEF OutcomeOf
  <2> QED
    BY <1>3, <2>2, <2>3 DEF RunOutcome
<1> QED
  BY <1>2, <1>3

(* A step that leaves the output alone is a stutter of the contract.        *)
LEMMA SilentStutters == out' = out => UNCHANGED <<RunOutcome, RunShown>>
BY DEF RunOutcome, RunShown

(* A step that yields events of the generator's own while the run is open   *)
(* is a stutter, or shows something.                                        *)
LEMMA AddedShows ==
    ASSUME StreamInv, StreamInv', ~terminalEventYielded,
           NEW q \in Seq(AddedEvents), out' = out \o q
    PROVE  Contract!Show \/ UNCHANGED <<RunOutcome, RunShown>>
<1>1. ~HasTerminal /\ ~HasTerminal' /\ (RunShown => RunShown')
  BY AppendAdded DEF StreamInv, FlagsAgree
<1>2. RunOutcome = "open"
  BY <1>1, OutcomeOpen DEF StreamInv
<1>3. (TypeOK /\ TerminalLast => (RunOutcome = "open" <=> ~HasTerminal))'
  BY OutcomeOpen, PTL
<1>4. RunOutcome' = "open"
  BY <1>1, <1>3 DEF StreamInv
<1>5. RunShown \in BOOLEAN /\ RunShown' \in BOOLEAN
  BY DEF RunShown
<1> QED
  BY <1>1, <1>2, <1>4, <1>5 DEF Contract!Show

(* Initial states of the generator are initial states of the contract.      *)
LEMMA ContractInit == Init => Contract!Init
BY DEF Init, Contract!Init, RunOutcome, RunShown

(* Every step of the generator is a step of the contract or a stutter.      *)
LEMMA ContractStep ==
    StreamInv /\ StreamInv' /\ [Next]_vars => [Contract!Next]_<<RunOutcome, RunShown>>
<1> SUFFICES ASSUME StreamInv, StreamInv', [Next]_vars
             PROVE  Contract!Next \/ UNCHANGED <<RunOutcome, RunShown>>
  OBVIOUS
<1>0. TypeOK /\ TypeOK' /\ TerminalLast /\ TerminalLast' /\ FlagsAgree /\ FlagsAgree'
  BY DEF StreamInv
<1>1. RunOutcome = "open" <=> ~HasTerminal
  BY <1>0, OutcomeOpen
<1>2. RunOutcome' = "open" <=> ~HasTerminal'
  <2>1. (TypeOK /\ TerminalLast => (RunOutcome = "open" <=> ~HasTerminal))'
    BY OutcomeOpen, PTL
  <2> QED
    BY <1>0, <2>1
<1>3. ASSUME Forward PROVE Contract!Next \/ UNCHANGED <<RunOutcome, RunShown>>
  <2>1. pending \in OutEvents /\ ~IsTerminal(pending) /\ ~HasTerminal /\ ~HasTerminal'
    BY <1>0, <1>3, SourceFacts DEF Forward, FlagsAgree
  <2>2. RunOutcome = "open" /\ RunOutcome' = "open"
    BY <1>1, <1>2, <2>1
  <2>3. RunShown' <=> (RunShown \/ IsAnswer(pending))
    BY <1>0, <1>3, <2>1, AppendOne DEF Forward
  <2>4. CASE IsAnswer(pending)
    BY <2>2, <2>3, <2>4 DEF Contract!Next, Contract!Show, RunShown
  <2>5. CASE ~IsAnswer(pending)
    BY <2>2, <2>3, <2>5 DEF RunShown
  <2> QED
    BY <2>4, <2>5
<1>4. ASSUME Terminate PROVE Contract!Next \/ UNCHANGED <<RunOutcome, RunShown>>
  <2> DEFINE t == TerminalFor(pending)
  <2>1. pending \in SourceEvents /\ IsTerminal(pending) /\ ~terminalEventYielded
    BY <1>4, SourceFacts DEF Terminate
  <2>2. /\ t \in OutEvents /\ IsTerminal(t) /\ ~IsAnswer(t)
        /\ t.type = "RUN_FINISHED" => producedOutput
        /\ t.code = "EMPTY_RUN" => ~producedOutput
    BY <1>0, <2>1, TerminalForFacts
  <2>3. out' = Append(out, t)
    BY <1>4 DEF Terminate
  <2> HIDE DEF t
  <2>4. /\ Len(out') = Len(out) + 1 /\ out'[Len(out')] = t /\ out' # <<>>
        /\ RunShown' <=> RunShown
    <3>1. TypeOK /\ out \in Seq(OutEvents)
      BY <1>0 DEF TypeOK
    <3>2. Len(out') = Len(out) + 1 /\ out'[Len(out')] = t /\ (RunShown' <=> RunShown)
      BY <2>2, <2>3, <3>1, AppendOne
    <3>3. out' # <<>>
      BY <2>2, <2>3, <3>1
    <3> QED
      BY <3>2, <3>3
  <2>5. RunOutcome' = OutcomeOf(t)
    BY <2>2, <2>4 DEF RunOutcome
  <2>6. RunOutcome = "open" /\ (producedOutput => RunShown)
    BY <1>0, <1>1, <2>1 DEF FlagsAgree
  <2>7. CASE t.type = "RUN_FINISHED"
    <3>1. RunOutcome' = "finished" /\ RunShown
      BY <2>2, <2>5, <2>6, <2>7 DEF OutcomeOf
    <3> QED
      BY <2>4, <2>6, <3>1 DEF Contract!Next, Contract!Close, RunShown
  <2>8. CASE t.type # "RUN_FINISHED" /\ t.code = "EMPTY_RUN"
    <3>0. pending.type = "RUN_FINISHED" /\ ~producedOutput
      BY <2>1, <2>2, <2>8, EmptyMeansFinished, <1>0 DEF t
    <3>1. ~RunShown
      BY <2>1, <3>0 DEF StreamInv, PhaseAgrees, AnswerAccounted, CallComes, VisibleTypes
    <3>2. RunOutcome' = "empty"
      BY <2>5, <2>8 DEF OutcomeOf
    <3> QED
      BY <2>4, <2>6, <3>1, <3>2 DEF Contract!Next, Contract!Close, RunShown
  <2>9. CASE t.type # "RUN_FINISHED" /\ t.code # "EMPTY_RUN"
    <3>1. RunOutcome' = "failed"
      BY <2>5, <2>9 DEF OutcomeOf
    <3> QED
      BY <2>4, <2>6, <3>1 DEF Contract!Next, Contract!Close, RunShown
  <2> QED
    BY <2>7, <2>8, <2>9
<1>5. ASSUME SilenceTick PROVE Contract!Next \/ UNCHANGED <<RunOutcome, RunShown>>
  BY <1>0, <1>5, TickIsAdded, AddedShows DEF SilenceTick, Contract!Next
<1>6. ASSUME Flush PROVE Contract!Next \/ UNCHANGED <<RunOutcome, RunShown>>
  <2>1. ~terminalEventYielded /\ buffered \in Seq(AddedEvents)
    BY <1>0, <1>6, AddedFacts DEF Flush, StreamInv, PhaseAgrees, TypeOK
  <2> QED
    BY <1>6, <2>1, AddedShows DEF Flush, Contract!Next
<1>7. ASSUME Drain PROVE Contract!Next \/ UNCHANGED <<RunOutcome, RunShown>>
  <2>1. ~terminalEventYielded /\ stageEvents \in Seq(AddedEvents)
    BY <1>0, <1>7, AddedFacts DEF Drain, StreamInv, PhaseAgrees, TypeOK
  <2> QED
    BY <1>7, <2>1, AddedShows DEF Drain, Contract!Next
<1>8. ASSUME \/ \E e \in SourceEvents : SourceEvent(e)
             \/ \E how \in {Stop, Raise, TimedOut} : SourceEnd(how)
             \/ Mark \/ EmitSurface \/ RecordRunError \/ DropLate \/ Finish \/ Disconnect \/ UNCHANGED vars
      PROVE UNCHANGED <<RunOutcome, RunShown>>
  <2>1. out' = out
    BY <1>8 DEF SourceEvent, SourceEnd, Mark, EmitSurface, RecordRunError, DropLate, Finish, Disconnect, vars
  <2> QED
    BY <2>1, SilentStutters
<1> QED
  BY <1>3, <1>4, <1>5, <1>6, <1>7, <1>8 DEF Next, Adapter, Generator

(* stream_agui_events implements the contract of a run.                     *)
THEOREM ImplementsContract == Spec => ContractHolds
<1>1. Init => Contract!Init
  BY ContractInit
<1>2. StreamInv /\ StreamInv' /\ [Next]_vars => [Contract!Next]_<<RunOutcome, RunShown>>
  BY ContractStep
<1> QED
  BY <1>1, <1>2, StreamInvariant, PTL DEF Spec, ContractHolds, Contract!Spec
-----------------------------------------------------------------------------
(* The order of the tracker's events.  The event numbered n is a label or a *)
(* surface; a sequence o carries the first m of them when each of its       *)
(* tracked events is one of those, they stand in the order of their numbers *)
(* and none is missing.                                                     *)
Numbered(n) == {Stage(n), Surface(n)}

Carries(o, m) ==
    /\ \A i \in 1..Len(o) : o[i] \in Tracked => o[i].ref \in 1..m
    /\ \A i, j \in 1..Len(o) : i < j /\ o[i] \in Tracked /\ o[j] \in Tracked => o[i].ref < o[j].ref
    /\ \A n \in 1..m : \E j \in 1..Len(o) : o[j] \in Numbered(n)

(* How many of the queued events have left the two queues.                  *)
Sent == marks - (Len(stageEvents) + Len(buffered))

Started == out # <<>> /\ out[1] = RunStarted

(* The inductive invariant of the order: each queue holds consecutive       *)
(* numbers, the buffer the lowest and the tracker's queue the highest; what *)
(* left them stands on the output; and nothing of the tracker's overtakes   *)
(* the buffer once RUN_STARTED is out.                                      *)
QueuesNumbered ==
    /\ Len(stageEvents) + Len(buffered) <= marks
    /\ \A i \in 1..Len(stageEvents) : stageEvents[i] \in Numbered(marks - Len(stageEvents) + i)
    /\ \A i \in 1..Len(buffered) : buffered[i] = Stage(i)

BufferFirst ==
    /\ out = <<>> => pc \in {"pull", "closed"} /\ Sent = 0
    /\ pc = "drain" => buffered = <<>>
    /\ Started /\ buffered # <<>> => pc \in {"flush", "closed"} /\ Sent = 0

OrderInv == QueuesNumbered /\ BufferFirst /\ (Started => Carries(out, Sent))

(* The number of a tracked event is its ref, and tells it from every other. *)
LEMMA NumberedFacts ==
    /\ \A n : \A e \in Numbered(n) : e.ref = n
    /\ \A n \in 1..MaxMarks : Numbered(n) \subseteq Tracked
    /\ \A e \in Tracked : e \in Numbered(e.ref) /\ e.ref \in 1..MaxMarks
<1>1. \A n : Stage(n).ref = n /\ Surface(n).ref = n
  BY DEF Stage, Surface, Ev
<1>2. \A n \in 1..MaxMarks : Numbered(n) \subseteq Tracked
  BY DEF Numbered, Tracked, Stages
<1>3. ASSUME NEW e \in Tracked PROVE e \in Numbered(e.ref) /\ e.ref \in 1..MaxMarks
  <2>1. PICK n \in 1..MaxMarks : e = Stage(n) \/ e = Surface(n)
    BY DEF Tracked, Stages
  <2>2. e.ref = n
    BY <1>1, <2>1
  <2> QED
    BY <2>1, <2>2 DEF Numbered
<1> QED
  BY <1>1, <1>2, <1>3 DEF Numbered

(* What the adapter delivers, a terminal, a heartbeat and the thinking      *)
(* label carry no number.                                                   *)
LEMMA Untracked ==
    /\ \A e \in SourceEvents : e \notin Tracked
    /\ \A n : Heartbeat(n) \notin Tracked
    /\ Thinking \notin Tracked
    /\ \A e : IsTerminal(e) => e \notin Tracked
<1>1. \A e \in Tracked : e.type \in {"STAGE", "A2UI_SURFACE"} /\ e.ref # 0
  BY DEF Tracked, Stages, Stage, Surface, Ev
<1>2. Thinking.type = "THINKING" /\ \A n : Heartbeat(n).type = "HEARTBEAT"
  BY DEF Thinking, Heartbeat, Ev
<1>3. \A e \in SourceEvents : e.type \notin {"STAGE", "A2UI_SURFACE"} \/ e.ref = 0
  BY DEF SourceEvents, RunStarted, BodyEvents, TerminalEvents, Ev
<1>4. \A e : IsTerminal(e) => e.type \notin {"STAGE", "A2UI_SURFACE"}
  BY DEF IsTerminal
<1> QED
  BY <1>1, <1>2, <1>3, <1>4

(* Events without a number change nothing.                                  *)
LEMMA CarriesOthers ==
    ASSUME NEW o \in Seq(OutEvents), NEW q \in Seq(OutEvents), NEW m \in Nat, Carries(o, m),
           \A i \in 1..Len(q) : q[i] \notin Tracked
    PROVE  Carries(o \o q, m)
<1> DEFINE r == o \o q
<1>1. /\ Len(r) = Len(o) + Len(q) /\ \A i \in 1..Len(o) : i \in 1..Len(r) /\ r[i] = o[i]
      /\ \A i \in 1..Len(r) : i \in 1..Len(o) \/ (i - Len(o) \in 1..Len(q) /\ r[i] = q[i - Len(o)])
  OBVIOUS
<1> HIDE DEF r
<1>2. \A i \in 1..Len(r) : r[i] \in Tracked => i \in 1..Len(o) /\ r[i] = o[i]
  BY <1>1
<1>3. Carries(r, m)
  BY <1>1, <1>2 DEF Carries
<1> QED
  BY <1>3 DEF r

(* The next events in their order extend what is carried.                   *)
LEMMA CarriesNext ==
    ASSUME NEW o \in Seq(OutEvents), NEW q \in Seq(OutEvents), NEW m \in Nat, Carries(o, m),
           m + Len(q) <= MaxMarks, \A i \in 1..Len(q) : q[i] \in Numbered(m + i)
    PROVE  Carries(o \o q, m + Len(q))
<1> DEFINE r == o \o q
           t == m + Len(q)
<1>1. /\ Len(r) = Len(o) + Len(q) /\ \A i \in 1..Len(o) : i \in 1..Len(r) /\ r[i] = o[i]
      /\ \A i \in 1..Len(r) : i \in 1..Len(o) \/ (i - Len(o) \in 1..Len(q) /\ r[i] = q[i - Len(o)])
      /\ \A i \in 1..Len(q) : Len(o) + i \in 1..Len(r) /\ r[Len(o) + i] = q[i]
      /\ Len(o) \in Nat /\ Len(q) \in Nat /\ t \in Nat
  OBVIOUS
<1> HIDE DEF r
<1>2. \A i \in 1..Len(q) : q[i].ref = m + i
  BY NumberedFacts
<1>3. \A i \in 1..Len(r) : r[i] \in Tracked =>
         \/ i \in 1..Len(o) /\ r[i] = o[i] /\ o[i].ref \in 1..m
         \/ i \notin 1..Len(o) /\ r[i].ref = m + (i - Len(o)) /\ i - Len(o) \in 1..Len(q)
  BY <1>1, <1>2 DEF Carries
<1>4. \A i \in 1..Len(r) : r[i] \in Tracked => r[i].ref \in 1..t
  BY <1>1, <1>3
<1>5. \A i, j \in 1..Len(r) : i < j /\ r[i] \in Tracked /\ r[j] \in Tracked => r[i].ref < r[j].ref
  <2> SUFFICES ASSUME NEW i \in 1..Len(r), NEW j \in 1..Len(r), i < j, r[i] \in Tracked, r[j] \in Tracked
               PROVE  r[i].ref < r[j].ref
    OBVIOUS
  <2>1. CASE j \in 1..Len(o)
    <3>1. i \in 1..Len(o)
      BY <2>1
    <3> QED
      BY <1>1, <2>1, <3>1 DEF Carries
  <2>2. CASE j \notin 1..Len(o)
    <3>1. r[j].ref = m + (j - Len(o)) /\ j - Len(o) \in 1..Len(q)
      BY <1>3, <2>2
    <3>2. r[i].ref \in 1..m \/ (r[i].ref = m + (i - Len(o)) /\ i - Len(o) \in 1..Len(q))
      BY <1>3
    <3> QED
      BY <1>1, <3>1, <3>2
  <2> QED
    BY <2>1, <2>2
<1>6. \A n \in 1..t : \E j \in 1..Len(r) : r[j] \in Numbered(n)
  <2> SUFFICES ASSUME NEW n \in 1..t PROVE \E j \in 1..Len(r) : r[j] \in Numbered(n)
    OBVIOUS
  <2>1. CASE n \in 1..m
    <3>1. PICK j \in 1..Len(o) : o[j] \in Numbered(n)
      BY <2>1 DEF Carries
    <3> QED
      BY <1>1, <3>1
  <2>2. CASE n \notin 1..m
    <3>1. n - m \in 1..Len(q) /\ m + (n - m) = n
      BY <1>1, <2>2
    <3>2. q[n - m] \in Numbered(n)
      BY <3>1
    <3> QED
      BY <1>1, <3>1, <3>2
  <2> QED
    BY <2>1, <2>2
<1>7. Carries(r, t)
  BY <1>4, <1>5, <1>6 DEF Carries
<1> QED
  BY <1>7 DEF r

(* What the output carries in order is what StageOrder asks for.            *)
LEMMA OrderInvOrders == TypeOK /\ OrderInv => StageOrder
<1> SUFFICES ASSUME TypeOK, OrderInv, Started, NEW i \in 1..Len(out), out[i] \in Tracked,
                    NEW n \in 1..out[i].ref
             PROVE  \E j \in 1..i : out[j] \in Numbered(n) /\ (j = i <=> n = out[i].ref)
  BY DEF StageOrder, Started, Numbered
<1>1. Carries(out, Sent)
  BY DEF OrderInv
<1>2. out[i].ref \in 1..Sent /\ out[i].ref \in 1..MaxMarks
  BY <1>1, NumberedFacts DEF Carries
<1>3. n \in 1..Sent /\ n \in 1..MaxMarks
  <2>1. MaxMarks \in Int /\ Sent \in Int
    BY StreamAssumption DEF Sent, TypeOK
  <2> QED
    BY <1>2, <2>1
<1>4. PICK j \in 1..Len(out) : out[j] \in Numbered(n)
  BY <1>1, <1>3 DEF Carries
<1>5. out[j] \in Tracked /\ out[j].ref = n
  BY <1>3, <1>4, NumberedFacts
<1>6. ~(i < j)
  BY <1>1, <1>2, <1>5 DEF Carries
<1>7. j < i => n # out[i].ref
  BY <1>1, <1>2, <1>5 DEF Carries
<1>8. j \in 1..i
  BY <1>6
<1> QED
  BY <1>4, <1>5, <1>7, <1>8

LEMMA OrderInit == Init => OrderInv
<1> SUFFICES ASSUME Init PROVE OrderInv
  OBVIOUS
<1>1. PICK n \in 0..MaxMarks : marks = n /\ buffered = [i \in 1..n |-> Stage(i)]
  BY DEF Init
<1>2. Len(buffered) = marks /\ \A i \in 1..Len(buffered) : buffered[i] = Stage(i)
  BY <1>1
<1>3. stageEvents = <<>> /\ out = <<>> /\ pc = "pull" /\ Len(stageEvents) = 0 /\ marks \in Nat
  BY <1>1 DEF Init
<1> QED
  BY <1>2, <1>3 DEF OrderInv, QueuesNumbered, BufferFirst, Sent, Started

(* Every step keeps the order.                                              *)
LEMMA OrderStep == StreamInv /\ OrderInv /\ [Next]_vars => OrderInv'
<1> SUFFICES ASSUME StreamInv, OrderInv, [Next]_vars PROVE OrderInv'
  OBVIOUS
<1>0. /\ TypeOK /\ QueuesNumbered /\ BufferFirst /\ (Started => Carries(out, Sent))
      /\ PhaseAgrees /\ FlagsAgree
      /\ marks \in Nat /\ marks <= MaxMarks /\ MaxMarks \in Nat
      /\ Len(stageEvents) \in Nat /\ Len(buffered) \in Nat /\ Sent \in Nat
      /\ out \in Seq(OutEvents) /\ buffered \in Seq(OutEvents) /\ stageEvents \in Seq(OutEvents)
  <2>1. TypeOK /\ QueuesNumbered
    BY DEF StreamInv, OrderInv
  <2>2. stageEvents \in Seq(OutEvents) /\ buffered \in Seq(OutEvents)
    BY <2>1, AddedFacts DEF TypeOK
  <2> QED
    BY <2>1, <2>2, StreamAssumption DEF StreamInv, OrderInv, TypeOK, QueuesNumbered, Sent
<1>1. ASSUME NEW e, Mark \/ EmitSurface, e \in Numbered(marks + 1), stageEvents' = Append(stageEvents, e)
      PROVE  OrderInv'
  <2>1. UNCHANGED <<pc, buffered, out>> /\ marks' = marks + 1
    BY <1>1 DEF Mark, EmitSurface
  <2>2. /\ Len(stageEvents') = Len(stageEvents) + 1
        /\ \A i \in 1..Len(stageEvents) : stageEvents'[i] = stageEvents[i]
        /\ stageEvents'[Len(stageEvents) + 1] = e
    BY <1>0, <1>1
  <2>3. Sent' = Sent /\ Len(stageEvents') + Len(buffered') <= marks'
    BY <1>0, <2>1, <2>2 DEF Sent, QueuesNumbered
  <2>4. ASSUME NEW i \in 1..Len(stageEvents')
        PROVE  stageEvents'[i] \in Numbered(marks' - Len(stageEvents') + i)
    <3>1. marks' - Len(stageEvents') + i = marks - Len(stageEvents) + i
      BY <1>0, <2>1, <2>2
    <3>2. i \in 1..Len(stageEvents) \/ (i = Len(stageEvents) + 1 /\ marks - Len(stageEvents) + i = marks + 1)
      BY <1>0, <2>2
    <3> QED
      BY <1>0, <1>1, <2>2, <3>1, <3>2 DEF QueuesNumbered
  <2> QED
    BY <1>0, <2>1, <2>3, <2>4 DEF OrderInv, QueuesNumbered, BufferFirst, Started
<1>2. CASE Mark
  BY <1>1, <1>2 DEF Mark, Numbered
<1>3. CASE EmitSurface
  BY <1>1, <1>3 DEF EmitSurface, Numbered
<1>4. CASE SilenceTick
  <2>1. pc = "pull" /\ UNCHANGED <<pc, marks, buffered>> /\ stageEvents' = <<>>
    BY <1>4 DEF SilenceTick
  <2>2. out' = out \o <<Heartbeat(hbCount + 1)>> \o stageEvents
                   \o (IF stageEvents = <<>> /\ ~firstModelTokenSeen THEN <<Thinking>> ELSE <<>>)
    BY <1>4 DEF SilenceTick
  <2> DEFINE beat == <<Heartbeat(hbCount + 1)>>
             last == IF stageEvents = <<>> /\ ~firstModelTokenSeen THEN <<Thinking>> ELSE <<>>
  <2>3. hbCount + 1 \in 1..MaxBeats
    BY <1>0, <1>4, StreamAssumption DEF SilenceTick, TypeOK
  <2>4. Heartbeat(hbCount + 1) \in OutEvents /\ Thinking \in OutEvents
    BY <2>3 DEF OutEvents
  <2>5. beat \in Seq(OutEvents) /\ Len(beat) = 1 /\ beat[1] = Heartbeat(hbCount + 1)
        /\ last \in Seq(OutEvents) /\ \A i \in 1..Len(last) : last[i] = Thinking
    BY <2>4
  <2> HIDE DEF beat, last
  <2>6. out' = ((out \o beat) \o stageEvents) \o last
    BY <2>2 DEF beat, last
  <2>7. out \o beat \in Seq(OutEvents) /\ (out \o beat) \o stageEvents \in Seq(OutEvents)
    BY <1>0, <2>5
  <2>8. out' # <<>> /\ (out = <<>> => out'[1] = beat[1]) /\ (out # <<>> => out'[1] = out[1])
    <3> DEFINE a == out \o beat
               b == a \o stageEvents
    <3>1. Len(a) = Len(out) + 1 /\ (out = <<>> => a[1] = beat[1]) /\ (out # <<>> => a[1] = out[1])
      <4>1. Len(a) = Len(out) + 1 /\ a[Len(out) + 1] = beat[1] /\ \A i \in 1..Len(out) : a[i] = out[i]
        <5> DEFINE h == Heartbeat(hbCount + 1)
        <5>1. h \in OutEvents /\ a = out \o <<h>> /\ beat[1] = h
          BY <2>4, <2>5 DEF a, beat
        <5> HIDE DEF a, h
        <5>2. a = Append(out, h)
          BY <1>0, <5>1
        <5> QED
          BY <1>0, <5>1, <5>2
      <4>2. out = <<>> => Len(out) + 1 = 1
        BY <1>0
      <4>3. out # <<>> => 1 \in 1..Len(out)
        BY <1>0
      <4> HIDE DEF a
      <4> QED
        BY <4>1, <4>2, <4>3
    <3>2. a \in Seq(OutEvents)
      BY <2>7
    <3> HIDE DEF a
    <3>3. b \in Seq(OutEvents) /\ Len(b) >= 1 /\ b[1] = a[1]
      BY <1>0, <3>1, <3>2
    <3>4. out' = b \o last
      BY <2>6 DEF a
    <3> HIDE DEF b
    <3>5. out' # <<>> /\ out'[1] = b[1]
      BY <2>5, <3>3, <3>4
    <3> QED
      BY <3>1, <3>3, <3>5
  <2>9. Heartbeat(hbCount + 1) # RunStarted
    BY DEF Heartbeat, RunStarted, Ev
  <2>10. Started' => Started
    BY <2>5, <2>8, <2>9 DEF Started
  <2>11. Sent' = Sent + Len(stageEvents)
    BY <1>0, <2>1 DEF Sent
  <2>12. ASSUME Started PROVE buffered = <<>> /\ Carries(out', Sent')
    <3>1. buffered = <<>>
      BY <1>0, <2>1, <2>12 DEF BufferFirst
    <3>2. Sent = marks - Len(stageEvents)
      BY <1>0, <3>1 DEF Sent
    <3>3. Carries(out \o beat, Sent)
      <4>1. \A i \in 1..Len(beat) : beat[i] \notin Tracked
        BY <2>5, Untracked
      <4> QED
        BY <1>0, <2>5, <2>12, <4>1, CarriesOthers
    <3>4. Carries((out \o beat) \o stageEvents, Sent + Len(stageEvents))
      <4>1. \A i \in 1..Len(stageEvents) : stageEvents[i] \in Numbered(Sent + i)
        BY <1>0, <3>2 DEF QueuesNumbered
      <4>2. Sent + Len(stageEvents) <= MaxMarks
        BY <1>0, <3>2
      <4> QED
        BY <1>0, <2>7, <3>3, <4>1, <4>2, CarriesNext
    <3>5. Carries(out', Sent + Len(stageEvents))
      <4>1. \A i \in 1..Len(last) : last[i] \notin Tracked
        BY <2>5, Untracked
      <4> DEFINE b == (out \o beat) \o stageEvents
                 m == Sent + Len(stageEvents)
      <4>2. b \in Seq(OutEvents) /\ m \in Nat /\ Carries(b, m) /\ out' = b \o last
        BY <1>0, <2>6, <2>7, <3>4
      <4> HIDE DEF b, m
      <4>3. Carries(b \o last, m)
        BY <2>5, <4>1, <4>2, CarriesOthers
      <4> QED
        BY <4>2, <4>3 DEF m
    <3> QED
      BY <2>11, <3>1, <3>5
  <2>13. QueuesNumbered'
    BY <1>0, <2>1 DEF QueuesNumbered
  <2>14. BufferFirst'
    BY <2>1, <2>8, <2>10, <2>12 DEF BufferFirst
  <2> QED
    BY <2>10, <2>12, <2>13, <2>14 DEF OrderInv
<1>5. CASE Forward
  <2>1. /\ pc = "pull" /\ pc' = "flush" /\ out' = Append(out, pending) /\ pending \in SourceEvents
        /\ UNCHANGED <<marks, buffered, stageEvents>>
    BY <1>5 DEF Forward
  <2>2. pending \in OutEvents /\ pending \notin Tracked
    BY <2>1, SourceFacts, Untracked
  <2>3. out' = out \o <<pending>> /\ <<pending>> \in Seq(OutEvents) /\ out' # <<>>
        /\ (out # <<>> => out'[1] = out[1]) /\ \A i \in 1..Len(<<pending>>) : <<pending>>[i] = pending
    BY <1>0, <2>1, <2>2
  <2>4. Sent' = Sent /\ QueuesNumbered'
    BY <1>0, <2>1 DEF Sent, QueuesNumbered
  <2>5. ASSUME Started' PROVE Carries(out', Sent) /\ (buffered # <<>> => Sent = 0)
    <3>1. CASE out = <<>>
      <4>1. Sent = 0 /\ Len(out) = 0
        BY <1>0, <3>1 DEF BufferFirst
      <4>2. Carries(out, Sent)
        BY <4>1 DEF Carries
      <4> QED
        BY <1>0, <2>2, <2>3, <4>1, <4>2, CarriesOthers
    <3>2. CASE out # <<>>
      <4>1. Started
        BY <2>3, <2>5, <3>2 DEF Started
      <4>2. Carries(out, Sent) /\ (buffered # <<>> => Sent = 0)
        BY <1>0, <4>1 DEF BufferFirst
      <4> QED
        BY <1>0, <2>2, <2>3, <4>2, CarriesOthers
    <3> QED
      BY <3>1, <3>2
  <2> QED
    BY <2>1, <2>3, <2>4, <2>5 DEF OrderInv, BufferFirst
<1>6. CASE Flush
  <2>1. /\ pc = "flush" /\ pc' = "drain" /\ out' = out \o buffered /\ buffered' = <<>>
        /\ UNCHANGED <<marks, stageEvents>>
    BY <1>6 DEF Flush
  <2>2. out # <<>> /\ out' # <<>> /\ out'[1] = out[1]
    BY <1>0, <2>1 DEF BufferFirst
  <2>3. Sent' = Sent + Len(buffered) /\ QueuesNumbered'
    BY <1>0, <2>1 DEF Sent, QueuesNumbered
  <2>4. ASSUME Started' PROVE Carries(out', Sent')
    <3>1. Started /\ Carries(out, Sent)
      BY <1>0, <2>2, <2>4 DEF Started
    <3>2. CASE buffered = <<>>
      <4>1. out' = out /\ Sent' = Sent
        BY <1>0, <2>1, <2>3, <3>2
      <4> QED
        BY <3>1, <4>1
    <3>3. CASE buffered # <<>>
      <4>1. Sent = 0
        BY <1>0, <3>1, <3>3 DEF BufferFirst
      <4>2. \A i \in 1..Len(buffered) : buffered[i] \in Numbered(Sent + i)
        BY <1>0, <4>1 DEF QueuesNumbered, Numbered
      <4>3. Sent + Len(buffered) <= MaxMarks
        BY <1>0 DEF Sent
      <4> QED
        BY <1>0, <2>1, <2>3, <3>1, <4>2, <4>3, CarriesNext
    <3> QED
      BY <3>2, <3>3
  <2> QED
    BY <2>1, <2>2, <2>3, <2>4 DEF OrderInv, BufferFirst
<1>7. CASE Drain
  <2>1. /\ pc = "drain" /\ pc' = "pull" /\ out' = out \o stageEvents /\ stageEvents' = <<>>
        /\ UNCHANGED <<marks, buffered>> /\ buffered = <<>>
    BY <1>0, <1>7 DEF Drain, BufferFirst
  <2>2. out # <<>> /\ out' # <<>> /\ out'[1] = out[1]
    BY <1>0, <2>1 DEF BufferFirst
  <2>3. Sent' = Sent + Len(stageEvents) /\ Sent = marks - Len(stageEvents) /\ QueuesNumbered'
    BY <1>0, <2>1 DEF Sent, QueuesNumbered
  <2>4. ASSUME Started' PROVE Carries(out', Sent')
    <3>1. Carries(out, Sent)
      BY <1>0, <2>2, <2>4 DEF Started
    <3>2. \A i \in 1..Len(stageEvents) : stageEvents[i] \in Numbered(Sent + i)
      BY <1>0, <2>3 DEF QueuesNumbered
    <3>3. Sent + Len(stageEvents) <= MaxMarks
      BY <1>0, <2>3
    <3> QED
      BY <1>0, <2>1, <2>3, <3>1, <3>2, <3>3, CarriesNext
  <2> QED
    BY <2>1, <2>2, <2>3, <2>4 DEF OrderInv, BufferFirst
<1>8. CASE Terminate
  <2>1. /\ pc = "pull" /\ pc' = "pull" /\ out' = Append(out, TerminalFor(pending))
        /\ pending \in SourceEvents /\ IsTerminal(pending) /\ UNCHANGED <<marks, buffered, stageEvents>>
    BY <1>8, SourceFacts DEF Terminate
  <2>2. TerminalFor(pending) \in OutEvents /\ IsTerminal(TerminalFor(pending))
    BY <1>0, <2>1, TerminalForFacts
  <2> DEFINE t == TerminalFor(pending)
  <2>3. t \in OutEvents /\ t \notin Tracked /\ t # RunStarted /\ out' = Append(out, t)
    BY <2>1, <2>2, Untracked DEF IsTerminal, RunStarted, Ev
  <2> HIDE DEF t
  <2>4. /\ out' = out \o <<t>> /\ <<t>> \in Seq(OutEvents) /\ out' # <<>>
        /\ (out # <<>> => out'[1] = out[1]) /\ (out = <<>> => out'[1] = t)
        /\ \A i \in 1..Len(<<t>>) : <<t>>[i] = t
    BY <1>0, <2>3
  <2>5. Sent' = Sent /\ QueuesNumbered'
    BY <1>0, <2>1 DEF Sent, QueuesNumbered
  <2>6. Started' => Started
    BY <2>3, <2>4 DEF Started
  <2>7. Started => Carries(out', Sent)
    BY <1>0, <2>3, <2>4, CarriesOthers
  <2>8. BufferFirst'
    BY <1>0, <2>1, <2>4, <2>5, <2>6 DEF BufferFirst
  <2> QED
    BY <2>5, <2>6, <2>7, <2>8 DEF OrderInv
<1>9. CASE \/ \E e \in SourceEvents : SourceEvent(e)
           \/ \E how \in {Stop, Raise, TimedOut} : SourceEnd(how)
           \/ RecordRunError \/ DropLate \/ Finish \/ Disconnect \/ UNCHANGED vars
  <2>1. (pc' = pc \/ pc' = "closed") /\ UNCHANGED <<marks, buffered, stageEvents, out>>
    BY <1>9 DEF SourceEvent, SourceEnd, RecordRunError, DropLate, Finish, Disconnect, vars
  <2> QED
    BY <1>0, <2>1 DEF OrderInv, QueuesNumbered, BufferFirst, Sent, Started
<1> QED
  BY <1>2, <1>3, <1>4, <1>5, <1>6, <1>7, <1>8, <1>9 DEF Next, Adapter, Generator

(* The tracker's events reach the consumer in the order they were queued    *)
(* and none is skipped, the ones queued before the run included.            *)
THEOREM StagesInOrder == Spec => []StageOrder
<1>1. StreamInv => TypeOK
  BY DEF StreamInv
<1>2. Init => OrderInv
  BY OrderInit
<1>3. StreamInv /\ OrderInv /\ [Next]_vars => OrderInv'
  BY OrderStep
<1>4. TypeOK /\ OrderInv => StageOrder
  BY OrderInvOrders
<1> QED
  BY <1>1, <1>2, <1>3, <1>4, StreamInvariant, PTL DEF Spec

-----------------------------------------------------------------------------
(* What can stand on the wire, whichever route wrote it: an event of the    *)
(* generator, a withheld result, and the frames the routes add.             *)
Meta1 == Ev("SESSION_META", 0, NoError)
Report1 == Ev("LATENCY_REPORT", 0, NoError)
RecoveredText == Ev("TEXT_MESSAGE_CONTENT", 0, "recovered")
RouteErrors ==
    {Ev("RUN_ERROR", 0, code) :
        code \in {"SESSION_ACCESS_DENIED", "SESSION_READ_ONLY", "DOCUMENT_UNAVAILABLE", Typed,
                  "UPSTREAM_API_ERROR", "MODEL_UNAVAILABLE", "ACTION_TRIGGER_FAILED"}}

Frame ==
    OutEvents \cup {[e EXCEPT !.code = "redacted"] : e \in OutEvents}
        \cup {Meta1, Report1, RecoveredText} \cup RouteErrors

IsStart(e, n) == e = Ev("TOOL_CALL_START", n, NoError)

(* A raw result a lower-trust session must not see unannounced.             *)
IsRaw(e) == lowerTrust /\ e.type = "TOOL_CALL_RESULT" /\ e.code # "redacted"

(* The inductive invariant of a turn.  Before the gates nothing is written  *)
(* and nothing has run; while the stream is open a terminal frame is the    *)
(* last one and the generator knows it has closed the run; and every call   *)
(* the redaction knows by name was announced on the wire.                   *)
Untouched ==
    turn = "gates" => wire = <<>> /\ names = {} /\ out = <<>> /\ ~terminalEventYielded

OpenWire ==
    turn = "stream" =>
        \A i \in 1..Len(wire) : IsTerminal(wire[i]) => i = Len(wire) /\ terminalEventYielded

NamesSeen ==
    turn \in {"gates", "stream"} =>
        \A n \in names : \E j \in 1..Len(wire) : IsStart(wire[j], n)

TurnInv ==
    /\ StreamInv /\ wire \in Seq(Frame)
    /\ Untouched /\ OpenWire /\ NamesSeen
    /\ WireClosed /\ PrivilegedWithheld
-----------------------------------------------------------------------------
(* Every event of the generator is a record of the three fields, and the    *)
(* start of a call is the one event of its type and id.                     *)
IsEvent(e) == \E t, n, c : e = Ev(t, n, c)

LEMMA OutFacts ==
    ASSUME NEW e \in OutEvents
    PROVE  IsEvent(e) /\ (e.type = "TOOL_CALL_START" => IsStart(e, e.ref))
<1>1. CASE \E t \in {"TEXT_MESSAGE_CONTENT", "REASONING", "A2UI_SURFACE"} : e = Ev(t, 0, NoError)
  <2>1. PICK t \in {"TEXT_MESSAGE_CONTENT", "REASONING", "A2UI_SURFACE"} : e = Ev(t, 0, NoError)
    BY <1>1
  <2>2. e.type = t
    BY <2>1 DEF Ev
  <2> QED
    BY <2>1, <2>2 DEF IsEvent
<1>2. CASE \E t \in {"TOOL_CALL_START", "TOOL_CALL_RESULT"}, c \in Calls : e = Ev(t, c, NoError)
  <2>1. PICK t \in {"TOOL_CALL_START", "TOOL_CALL_RESULT"}, c \in Calls : e = Ev(t, c, NoError)
    BY <1>2
  <2>2. e.type = t /\ e.ref = c
    BY <2>1 DEF Ev
  <2> QED
    BY <2>1, <2>2 DEF IsEvent, IsStart
<1>3. CASE \E n : e \in {Stage(n), Surface(n), Heartbeat(n)}
  BY <1>3 DEF Stage, Surface, Heartbeat, IsEvent, Ev
<1>4. CASE e \in {RunStarted, EmptyRun, Thinking, Ev("RUN_ERROR", 0, Typed)} \cup TerminalEvents
  BY <1>4 DEF RunStarted, EmptyRun, Thinking, TerminalEvents, IsEvent, Ev
<1>5. e \in BodyEvents =>
         \/ \E t \in {"TEXT_MESSAGE_CONTENT", "REASONING", "A2UI_SURFACE"} : e = Ev(t, 0, NoError)
         \/ \E t \in {"TOOL_CALL_START", "TOOL_CALL_RESULT"}, c \in Calls : e = Ev(t, c, NoError)
  <2>1. ASSUME e \in {Ev(t, c, NoError) : t \in {"TOOL_CALL_START", "TOOL_CALL_RESULT"}, c \in Calls}
        PROVE  \E t \in {"TOOL_CALL_START", "TOOL_CALL_RESULT"}, c \in Calls : e = Ev(t, c, NoError)
    BY <2>1, SMT
  <2>2. ASSUME e \in {Ev(t, 0, NoError) : t \in {"TEXT_MESSAGE_CONTENT", "REASONING", "A2UI_SURFACE"}}
        PROVE  \E t \in {"TEXT_MESSAGE_CONTENT", "REASONING", "A2UI_SURFACE"} : e = Ev(t, 0, NoError)
    BY <2>2, SMT
  <2> QED
    BY <2>1, <2>2 DEF BodyEvents
<1>6. e \in Tracked \cup {Heartbeat(n) : n \in 1..MaxBeats} =>
         \E n : e \in {Stage(n), Surface(n), Heartbeat(n)}
  BY Zenon DEF Tracked, Stages
<1>7. \/ e \in BodyEvents \/ e \in Tracked \cup {Heartbeat(n) : n \in 1..MaxBeats}
      \/ e \in {RunStarted, EmptyRun, Thinking, Ev("RUN_ERROR", 0, Typed)} \cup TerminalEvents
  BY Zenon DEF OutEvents, SourceEvents
<1> QED
  BY <1>1, <1>2, <1>3, <1>4, <1>5, <1>6, <1>7

(* The redaction changes the payload of a result and nothing else: a raw    *)
(* result it lets through belongs to a client-visible call known by name.   *)
LEMMA GuardedFacts ==
    ASSUME NEW e \in OutEvents
    PROVE  /\ Guarded(e) \in Frame
           /\ IsTerminal(Guarded(e)) <=> IsTerminal(e)
           /\ e.type = "TOOL_CALL_START" => IsStart(Guarded(e), e.ref)
           /\ IsRaw(Guarded(e)) => Guarded(e).ref \in names \cap ClientVisible
<1>1. e \in Frame /\ IsEvent(e) /\ (e.type = "TOOL_CALL_START" => IsStart(e, e.ref))
  BY OutFacts DEF Frame
<1>2. CASE lowerTrust /\ e.type = "TOOL_CALL_RESULT" /\ e.ref \notin names \cap ClientVisible
  <2>1. Guarded(e) = [e EXCEPT !.code = "redacted"]
    BY <1>2 DEF Guarded
  <2>2. Guarded(e).type = e.type /\ Guarded(e).code = "redacted" /\ Guarded(e) \in Frame
    BY <1>1, <2>1 DEF Frame, IsEvent, Ev
  <2> QED
    BY <1>2, <2>2 DEF IsTerminal, IsRaw
<1>3. CASE ~(lowerTrust /\ e.type = "TOOL_CALL_RESULT" /\ e.ref \notin names \cap ClientVisible)
  <2>1. Guarded(e) = e
    BY <1>3 DEF Guarded
  <2> QED
    BY <1>1, <1>3, <2>1 DEF IsRaw
<1> QED
  BY <1>2, <1>3

(* What Write adds to the wire for the events q of one step.                *)
Adds(q, p) ==
    /\ wire' = wire \o p
    /\ \A i \in 1..Len(p) : IsTerminal(p[i]) =>
          i = Len(p) /\ Len(q) = 1 /\ IsTerminal(q[1])
    /\ \A i \in 1..Len(p) : IsRaw(p[i]) => p[i].ref \in names \cap ClientVisible
    /\ \A n \in names' : n \in names \/ \E i \in 1..Len(p) : IsStart(p[i], n)

LEMMA WriteAdds ==
    ASSUME TypeOK, Write, wire \in Seq(Frame), NEW q \in Seq(OutEvents), out' = out \o q,
           \A i \in 1..Len(q) : IsTerminal(q[i]) => Len(q) = 1
    PROVE  \E p \in Seq(Frame) : Adds(q, p)
<1>1. Yielded = q
  <2>1. out \in Seq(OutEvents)
    BY DEF TypeOK
  <2>2. out' \in Seq(OutEvents) /\ Len(out') = Len(out) + Len(q)
    BY <2>1
  <2>3. \A i \in 1..Len(q) : out'[Len(out) + i] = q[i]
    BY <2>1
  <2> QED
    BY <2>1, <2>2, <2>3 DEF Yielded
<1>2. names' = names \cup {q[i].ref : i \in {k \in DOMAIN q : q[k].type = "TOOL_CALL_START"}}
  BY <1>1 DEF Write
<1>3. DOMAIN q = 1..Len(q) /\ \A i \in 1..Len(q) : q[i] \in OutEvents
  OBVIOUS
<1>4. \A n \in names' : n \in names \/ \E i \in 1..Len(q) : q[i].type = "TOOL_CALL_START" /\ n = q[i].ref
  BY <1>2, <1>3
<1>5. CASE Len(q) = 1
  <2>1. PICK r \in Recovered(q[1]) : wire' = wire \o r \o <<Guarded(q[1])>>
    BY <1>1, <1>5 DEF Write
  <2>2. RecoveredText \in Frame /\ ~IsTerminal(RecoveredText) /\ ~IsRaw(RecoveredText)
    BY DEF RecoveredText, Ev, Frame, IsTerminal, IsRaw
  <2>3. r = <<>> \/ r = <<RecoveredText>>
    BY <2>1 DEF Recovered, RecoveredText
  <2> DEFINE g == Guarded(q[1])
             p == Append(r, g)
  <2>4. q[1] \in OutEvents
    BY <1>3, <1>5
  <2>5. /\ g \in Frame /\ (IsTerminal(g) <=> IsTerminal(q[1]))
        /\ q[1].type = "TOOL_CALL_START" => IsStart(g, q[1].ref)
        /\ IsRaw(g) => g.ref \in names \cap ClientVisible
    BY <2>4, GuardedFacts
  <2>6. wire' = wire \o r \o <<g>>
    BY <2>1
  <2> HIDE DEF g
  <2>7. r \in Seq(Frame) /\ \A i \in 1..Len(r) : r[i] = RecoveredText
    <3>1. CASE r = <<>>
      BY <3>1
    <3>2. CASE r = <<RecoveredText>>
      BY <2>2, <3>2
    <3> QED
      BY <2>3, <3>1, <3>2
  <2>8. p \in Seq(Frame) /\ Len(p) = Len(r) + 1 /\ p[Len(p)] = g /\ wire' = wire \o p
    <3>1. p \in Seq(Frame) /\ Len(p) = Len(r) + 1 /\ p[Len(p)] = g
      BY <2>5, <2>7
    <3>2. <<g>> \in Seq(Frame) /\ p = r \o <<g>>
      BY <2>5, <2>7
    <3>3. (wire \o r) \o <<g>> = wire \o (r \o <<g>>)
      BY <2>7, <3>2, ConcatAssociative
    <3> QED
      BY <2>6, <3>1, <3>2, <3>3
  <2>9. \A i \in 1..Len(p) : i = Len(p) \/ p[i] = RecoveredText
    BY <2>5, <2>7
  <2> HIDE DEF p
  <2>10. Len(p) \in 1..Len(p)
    BY <2>7, <2>8
  <2>11. \A i \in 1..Len(q) : i = 1
    BY <1>5
  <2>12. \A n \in names' : n \in names \/ \E i \in 1..Len(p) : IsStart(p[i], n)
    BY <1>4, <2>5, <2>8, <2>10, <2>11
  <2> QED
    BY <1>5, <2>2, <2>5, <2>8, <2>9, <2>12 DEF Adds
<1>6. CASE Len(q) # 1
  <2> DEFINE p == [i \in DOMAIN q |-> Guarded(q[i])]
  <2>1. wire' = wire \o p
    BY <1>1, <1>6 DEF Write
  <2>2. \A i \in 1..Len(q) :
           /\ Guarded(q[i]) \in Frame /\ ~IsTerminal(Guarded(q[i]))
           /\ q[i].type = "TOOL_CALL_START" => IsStart(Guarded(q[i]), q[i].ref)
           /\ IsRaw(Guarded(q[i])) => Guarded(q[i]).ref \in names \cap ClientVisible
    BY <1>3, <1>6, GuardedFacts
  <2>3. p \in Seq(Frame) /\ Len(p) = Len(q) /\ \A i \in 1..Len(q) : p[i] = Guarded(q[i])
    BY <1>3, <2>2
  <2> HIDE DEF p
  <2>4. \A n \in names' : n \in names \/ \E i \in 1..Len(p) : IsStart(p[i], n)
    BY <1>4, <2>2, <2>3
  <2>5. /\ \A i \in 1..Len(p) : ~IsTerminal(p[i])
        /\ \A i \in 1..Len(p) : IsRaw(p[i]) => p[i].ref \in names \cap ClientVisible
    BY <2>2, <2>3
  <2> QED
    BY <2>1, <2>3, <2>4, <2>5 DEF Adds
<1> QED
  BY <1>5, <1>6
-----------------------------------------------------------------------------
(* The frames of a longer wire are the old ones and the added ones.         *)
LEMMA WireGrows ==
    ASSUME wire \in Seq(Frame), NEW p \in Seq(Frame), wire' = wire \o p
    PROVE  /\ wire' \in Seq(Frame) /\ Len(wire') = Len(wire) + Len(p)
           /\ \A i \in 1..Len(wire) : i \in 1..Len(wire') /\ wire'[i] = wire[i]
           /\ \A k \in 1..Len(p) : Len(wire) + k \in 1..Len(wire') /\ wire'[Len(wire) + k] = p[k]
           /\ \A i \in 1..Len(wire') :
                 i \in 1..Len(wire) \/ \E k \in 1..Len(p) : i = Len(wire) + k /\ wire'[i] = p[k]
<1>1. /\ wire' \in Seq(Frame) /\ Len(wire') = Len(wire) + Len(p)
      /\ \A i \in 1..Len(wire) : i \in 1..Len(wire') /\ wire'[i] = wire[i]
      /\ \A k \in 1..Len(p) : Len(wire) + k \in 1..Len(wire') /\ wire'[Len(wire) + k] = p[k]
  OBVIOUS
<1>2. ASSUME NEW i \in 1..Len(wire'), i \notin 1..Len(wire)
      PROVE  \E k \in 1..Len(p) : i = Len(wire) + k /\ wire'[i] = p[k]
  <2>1. i - Len(wire) \in 1..Len(p) /\ i = Len(wire) + (i - Len(wire))
    BY <1>1, <1>2
  <2> QED
    BY <1>1, <2>1
<1> QED
  BY <1>1, <1>2

(* Frames that are no raw result, or the raw result of a visible call known *)
(* by name, keep the redaction's promise.                                   *)
LEMMA RedactionKept ==
    ASSUME wire \in Seq(Frame), NamesSeen, turn \in {"gates", "stream"}, PrivilegedWithheld,
           NEW p \in Seq(Frame), wire' = wire \o p, lowerTrust' = lowerTrust,
           \A i \in 1..Len(p) : IsRaw(p[i]) => p[i].ref \in names \cap ClientVisible
    PROVE  PrivilegedWithheld'
<1> SUFFICES ASSUME NEW i \in 1..Len(wire'), lowerTrust, wire'[i].type = "TOOL_CALL_RESULT",
                    wire'[i].code # "redacted"
             PROVE  /\ wire'[i].ref \in ClientVisible
                    /\ \E j \in 1..i : IsStart(wire'[j], wire'[i].ref)
  BY DEF PrivilegedWithheld, IsStart
<1>0. IsRaw(wire'[i])
  BY DEF IsRaw
<1>1. CASE i \in 1..Len(wire)
  <2>1. wire'[i] = wire[i] /\ IsRaw(wire[i])
    BY <1>0, <1>1, WireGrows DEF IsRaw
  <2>2. wire[i].ref \in ClientVisible /\ \E j \in 1..i : IsStart(wire[j], wire[i].ref)
    BY <1>1, <2>1 DEF PrivilegedWithheld, IsRaw, IsStart
  <2>3. \A j \in 1..i : wire'[j] = wire[j]
    BY <1>1, WireGrows
  <2> QED
    BY <2>1, <2>2, <2>3
<1>2. CASE i \notin 1..Len(wire)
  <2>1. PICK k \in 1..Len(p) : i = Len(wire) + k /\ wire'[i] = p[k]
    BY <1>2, WireGrows
  <2>2. wire'[i].ref \in names \cap ClientVisible
    BY <1>0, <2>1 DEF IsRaw
  <2>3. PICK j \in 1..Len(wire) : IsStart(wire[j], wire'[i].ref)
    BY <2>2 DEF NamesSeen
  <2>4. j \in 1..i /\ wire'[j] = wire[j]
    BY <2>1, WireGrows
  <2> QED
    BY <2>2, <2>3, <2>4
<1> QED
  BY <1>1, <1>2

(* A step that writes is a step of an open run, and yields a terminal only  *)
(* alone and when it closes the run.                                        *)
Yields(q) ==
    /\ out' = out \o q /\ ~terminalEventYielded
    /\ \A i \in 1..Len(q) : IsTerminal(q[i]) => Len(q) = 1 /\ terminalEventYielded'

LEMMA StreamYields ==
    ASSUME StreamInv, SilenceTick \/ Forward \/ Flush \/ Drain \/ Terminate
    PROVE  \E q \in Seq(OutEvents) : Yields(q)
<1>0. TypeOK /\ out \in Seq(OutEvents) /\ buffered \in Seq(AddedEvents) /\ stageEvents \in Seq(AddedEvents)
  BY AddedFacts DEF StreamInv, TypeOK
<1>1. \A s \in Seq(AddedEvents) : s \in Seq(OutEvents) /\ \A i \in 1..Len(s) : ~IsTerminal(s[i])
  BY AddedFacts
<1>2. CASE SilenceTick
  <2>1. PICK q \in Seq(AddedEvents) : out' = out \o q
    BY <1>0, <1>2, TickIsAdded
  <2> QED
    BY <1>1, <1>2, <2>1 DEF SilenceTick, Yields
<1>3. CASE Forward
  <2>1. pending \in OutEvents /\ ~IsTerminal(pending)
    BY <1>3, SourceFacts DEF Forward
  <2>2. <<pending>> \in Seq(OutEvents) /\ out' = out \o <<pending>>
    BY <1>0, <1>3, <2>1 DEF Forward
  <2>3. Len(<<pending>>) = 1 /\ \A i \in 1..1 : ~IsTerminal(<<pending>>[i])
    BY <2>1
  <2>4. ~terminalEventYielded
    BY <1>3 DEF Forward
  <2> QED
    BY <2>2, <2>3, <2>4 DEF Yields
<1>4. CASE Flush
  <2>1. ~terminalEventYielded
    BY <1>4 DEF Flush, StreamInv, PhaseAgrees
  <2> QED
    BY <1>0, <1>1, <1>4, <2>1 DEF Flush, Yields
<1>5. CASE Drain
  <2>1. ~terminalEventYielded
    BY <1>5 DEF Drain, StreamInv, PhaseAgrees
  <2> QED
    BY <1>0, <1>1, <1>5, <2>1 DEF Drain, Yields
<1>6. CASE Terminate
  <2>1. TerminalFor(pending) \in OutEvents
    BY <1>0, <1>6, SourceFacts, TerminalForFacts DEF Terminate
  <2>2. /\ <<TerminalFor(pending)>> \in Seq(OutEvents) /\ out' = out \o <<TerminalFor(pending)>>
        /\ Len(<<TerminalFor(pending)>>) = 1
    BY <1>0, <1>6, <2>1 DEF Terminate
  <2>3. ~terminalEventYielded /\ terminalEventYielded'
    BY <1>6 DEF Terminate
  <2> QED
    BY <2>2, <2>3 DEF Yields
<1> QED
  BY <1>2, <1>3, <1>4, <1>5, <1>6
-----------------------------------------------------------------------------
(* Every step of a turn keeps the generator's invariant: it is a step of    *)
(* the generator, a rejected turn, or the failed recovery that closes the   *)
(* run in the place of the generator.                                       *)
LEMMA TurnKeepsStream == StreamInv /\ [TurnNext]_allVars => StreamInv'
<1> SUFFICES ASSUME StreamInv, [TurnNext]_allVars PROVE StreamInv'
  OBVIOUS
<1>0. TypeOK /\ FlagsAgree /\ PhaseAgrees
  BY DEF StreamInv
<1>1. CASE Stream \/ Quiet \/ EndOfStream \/ Translate \/ Tear \/ Leave
  <2>1. Next
    BY <1>1 DEF Stream, Quiet, EndOfStream, Translate, Tear, Leave, Next, Generator
  <2> QED
    BY <2>1, InvStep
<1>2. CASE OpenStream \/ UNCHANGED allVars
  <2>1. UNCHANGED vars
    BY <1>2 DEF OpenStream, allVars
  <2> QED
    BY <2>1, InvStep
<1>3. CASE Reject
  <2>1. /\ pc' = "closed"
        /\ UNCHANGED <<pending, phase, pulled, owed, stageEvents, marks, buffered, typedError,
              producedOutput, firstModelTokenSeen, terminalEventYielded, hbCount, out>>
    BY <1>3 DEF Reject, flagVars
  <2> QED
    BY <1>0, <2>1 DEF StreamInv, TypeOK, FlagsAgree, AnswerAccounted, PhaseAgrees, TerminalLast,
       BlockedTurnSaysWhy, HasTerminal, RunShown, SurfaceQueued, CallComes
<1>4. CASE RecoveryFails
  <2> DEFINE t == TerminalFor(pending)
  <2>1. pending \in SourceEvents /\ IsTerminal(pending) /\ ~HasTerminal
    BY <1>0, <1>4, SourceFacts DEF RecoveryFails, FlagsAgree
  <2>2. t \in OutEvents /\ IsTerminal(t) /\ (typedError # NoError => t.code = typedError)
    BY <1>0, <2>1, TerminalForFacts
  <2>3. /\ out' = Append(out, t) /\ terminalEventYielded' /\ pending' = Waiting
        /\ pc' = "closed" /\ phase' = "over"
        /\ UNCHANGED <<pulled, owed, stageEvents, marks, buffered, typedError, producedOutput,
                       firstModelTokenSeen, hbCount>>
    BY <1>4 DEF RecoveryFails
  <2> HIDE DEF t
  <2>4. /\ out' \in Seq(OutEvents) /\ HasTerminal' /\ Len(out') = Len(out) + 1
        /\ out'[Len(out')] = t /\ \A i \in 1..Len(out) : out'[i] = out[i]
    BY <1>0, <2>2, <2>3, AppendOne
  <2>5. \A i \in 1..Len(out') : i \in 1..Len(out) \/ i = Len(out')
    BY <1>0, <2>4 DEF TypeOK
  <2>6. \A i \in 1..Len(out') : IsTerminal(out'[i]) => i = Len(out')
    BY <2>1, <2>4, <2>5 DEF HasTerminal
  <2>7. TerminalLast' /\ BlockedTurnSaysWhy'
    BY <2>2, <2>3, <2>4, <2>6 DEF TerminalLast, BlockedTurnSaysWhy
  <2>8. terminalEventYielded' = TRUE
    BY <1>4 DEF RecoveryFails
  <2>9. TypeOK'
    BY <1>0, <2>3, <2>4, <2>8 DEF TypeOK
  <2>10. FlagsAgree' /\ AnswerAccounted' /\ PhaseAgrees'
    BY <2>3, <2>4 DEF FlagsAgree, AnswerAccounted, PhaseAgrees, Waiting, Ev
  <2> QED
    BY <2>7, <2>9, <2>10 DEF StreamInv
<1> QED
  BY <1>1, <1>2, <1>3, <1>4 DEF TurnNext

(* What the routes add to the wire themselves.                              *)
LEMMA RouteFrames ==
    /\ Meta1 \in Frame /\ Report1 \in Frame /\ RouteErrors \subseteq Frame
    /\ ~IsTerminal(Meta1) /\ ~IsTerminal(Report1) /\ Report1.type = "LATENCY_REPORT"
    /\ ~IsRaw(Meta1) /\ ~IsRaw(Report1)
    /\ \A e \in RouteErrors : ~IsRaw(e)
    /\ Report = <<>> \/ Report = <<Report1>>
    /\ \A m \in Meta : m = <<>> \/ m = <<Meta1>>
    /\ \A code \in ErrorCodes : Ev("RUN_ERROR", 0, code) \in RouteErrors
<1>1. Meta1 \in Frame /\ Report1 \in Frame /\ RouteErrors \subseteq Frame
  BY DEF Frame
<1>2. /\ ~IsTerminal(Meta1) /\ ~IsTerminal(Report1) /\ Report1.type = "LATENCY_REPORT"
      /\ ~IsRaw(Meta1) /\ ~IsRaw(Report1)
  BY DEF Meta1, Report1, Ev, IsTerminal, IsRaw
<1>3. \A e \in RouteErrors : ~IsRaw(e)
  BY DEF RouteErrors, Ev, IsRaw
<1>4. (Report = <<>> \/ Report = <<Report1>>) /\ \A m \in Meta : m = <<>> \/ m = <<Meta1>>
  BY DEF Report, Report1, Meta, Meta1
<1>5. \A code \in ErrorCodes : Ev("RUN_ERROR", 0, code) \in RouteErrors
  BY DEF ErrorCodes, RouteErrors
<1> QED
  BY <1>1, <1>2, <1>3, <1>4, <1>5

(* While the stream is open the wire is closed in the strict sense.         *)
LEMMA OpenIsClosed ==
    ASSUME wire \in Seq(Frame), OpenWire, turn = "stream"
    PROVE  WireClosed
BY DEF OpenWire, WireClosed

(* The probe's report after frames of which only the last closes the run.   *)
LEMMA ReportFollows ==
    ASSUME NEW a \in Seq(Frame), \A i \in 1..Len(a) : IsTerminal(a[i]) => i = Len(a),
           wire' = a \o Report
    PROVE  /\ wire' \in Seq(Frame) /\ WireClosed'
           /\ (\A i \in 1..Len(a) : ~IsRaw(a[i])) => \A i \in 1..Len(wire') : ~IsRaw(wire'[i])
<1>1. Report \in Seq(Frame) /\ \A i \in 1..Len(Report) : Report[i] = Report1
  <2>1. CASE Report = <<>>
    BY <2>1
  <2>2. CASE Report = <<Report1>>
    BY <2>2, RouteFrames
  <2> QED
    BY <2>1, <2>2, RouteFrames
<1>2. /\ wire' \in Seq(Frame) /\ Len(wire') = Len(a) + Len(Report)
      /\ \A i \in 1..Len(a) : wire'[i] = a[i]
  BY <1>1
<1>3. \A i \in 1..Len(wire') : i \in 1..Len(a) \/ wire'[i] = Report1
  <2> SUFFICES ASSUME NEW i \in 1..Len(wire'), i \notin 1..Len(a) PROVE wire'[i] = Report1
    OBVIOUS
  <2>1. i - Len(a) \in 1..Len(Report) /\ wire'[i] = Report[i - Len(a)]
    BY <1>1, <1>2
  <2> QED
    BY <1>1, <2>1
<1>4. WireClosed'
  <2> SUFFICES ASSUME NEW i \in 1..Len(wire'), NEW j \in 1..Len(wire'), i < j, IsTerminal(wire'[i])
               PROVE  wire'[j].type = "LATENCY_REPORT"
    BY DEF WireClosed, IsTerminal
  <2>1. i \in 1..Len(a) /\ i = Len(a)
    BY <1>2, <1>3, RouteFrames
  <2>2. j \notin 1..Len(a)
    BY <2>1
  <2> QED
    BY <1>3, <2>2, RouteFrames
<1> QED
  BY <1>2, <1>3, <1>4, RouteFrames

(* A turn starts with an empty wire.                                        *)
LEMMA TurnInitInv == TurnInit => TurnInv
<1> SUFFICES ASSUME TurnInit PROVE TurnInv
  OBVIOUS
<1>1. StreamInv /\ out = <<>> /\ ~terminalEventYielded
  BY InitInv DEF TurnInit, Init
<1>2. wire = <<>> /\ names = {} /\ turn = "gates"
  BY DEF TurnInit
<1> QED
  BY <1>1, <1>2 DEF TurnInv, Untouched, OpenWire, NamesSeen, WireClosed, PrivilegedWithheld

(* Every step of a turn keeps the invariant.                                *)
LEMMA TurnStep == TurnInv /\ [TurnNext]_allVars => TurnInv'
<1> SUFFICES ASSUME TurnInv, [TurnNext]_allVars PROVE TurnInv'
  OBVIOUS
<1> DEFINE Rest == wire \in Seq(Frame) /\ Untouched /\ OpenWire /\ NamesSeen /\ WireClosed /\ PrivilegedWithheld
<1>0. /\ StreamInv /\ TypeOK /\ wire \in Seq(Frame)
      /\ Untouched /\ OpenWire /\ NamesSeen /\ WireClosed /\ PrivilegedWithheld
  BY DEF TurnInv, StreamInv
<1>1. StreamInv'
  BY <1>0, TurnKeepsStream
<1>2. CASE Reject
  <2>1. turn' = "done" /\ wire = <<>>
    BY <1>0, <1>2 DEF Reject, Untouched
  <2>2. wire' \in Seq(Frame) /\ WireClosed' /\ \A i \in 1..Len(wire') : ~IsRaw(wire'[i])
    <3>1. CASE wire' = wire
      BY <2>1, <3>1 DEF WireClosed
    <3>2. CASE wire' # wire
      <4>1. PICK m \in Meta, code \in {"SESSION_ACCESS_DENIED", "SESSION_READ_ONLY", "DOCUMENT_UNAVAILABLE"} :
               wire' = m \o <<Ev("RUN_ERROR", 0, code)>> \o Report
        BY <1>2, <3>2 DEF Reject
      <4> DEFINE e == Ev("RUN_ERROR", 0, code)
                 a == m \o <<e>>
      <4>2. e \in RouteErrors /\ e \in Frame /\ ~IsRaw(e)
        BY RouteFrames DEF RouteErrors
      <4> HIDE DEF e
      <4>3. m \in Seq(Frame) /\ \A i \in 1..Len(m) : m[i] = Meta1
        <5>1. CASE m = <<>>
          BY <5>1
        <5>2. CASE m = <<Meta1>>
          BY <5>2, RouteFrames
        <5> QED
          BY <5>1, <5>2, RouteFrames
      <4>4. a \in Seq(Frame) /\ Len(a) = Len(m) + 1 /\ \A i \in 1..Len(m) : a[i] = m[i]
        BY <4>2, <4>3
      <4>5. a[Len(a)] = e /\ \A i \in 1..Len(a) : i \in 1..Len(m) \/ i = Len(a)
        BY <4>2, <4>3, <4>4
      <4>6. wire' = a \o Report
        BY <4>1 DEF e
      <4> HIDE DEF a
      <4>7. /\ \A i \in 1..Len(a) : IsTerminal(a[i]) => i = Len(a)
            /\ \A i \in 1..Len(a) : ~IsRaw(a[i])
        BY <4>2, <4>3, <4>4, <4>5, RouteFrames
      <4> QED
        BY <4>4, <4>6, <4>7, ReportFollows
    <3> QED
      BY <3>1, <3>2
  <2>3. lowerTrust' = lowerTrust
    BY <1>2 DEF Reject
  <2>4. PrivilegedWithheld'
    BY <2>2, <2>3 DEF PrivilegedWithheld, IsRaw
  <2> QED
    BY <1>1, <2>1, <2>2, <2>4 DEF TurnInv, Untouched, OpenWire, NamesSeen
<1>3. CASE OpenStream
  <2>1. /\ wire = <<>> /\ names' = {} /\ turn' = "stream" /\ lowerTrust' = lowerTrust
        /\ wire' = <<>> \/ wire' = <<Meta1>>
    BY <1>0, <1>3, RouteFrames DEF OpenStream, Untouched
  <2>2. wire' \in Seq(Frame) /\ \A i \in 1..Len(wire') : wire'[i] = Meta1
    <3>1. CASE wire' = <<>>
      BY <3>1
    <3>2. CASE wire' = <<Meta1>>
      BY <3>2, RouteFrames
    <3> QED
      BY <2>1, <3>1, <3>2
  <2>3. \A i \in 1..Len(wire') : ~IsTerminal(wire'[i]) /\ ~IsRaw(wire'[i])
    BY <2>2, RouteFrames
  <2>4. WireClosed' /\ PrivilegedWithheld'
    BY <2>1, <2>3 DEF WireClosed, PrivilegedWithheld, IsTerminal, IsRaw
  <2>5. Untouched' /\ OpenWire' /\ NamesSeen'
    BY <2>1, <2>3 DEF Untouched, OpenWire, NamesSeen, IsTerminal
  <2> QED
    BY <1>1, <2>2, <2>4, <2>5 DEF TurnInv
<1>4. CASE Stream
  <2>1. turn = "stream" /\ turn' = "stream" /\ Write /\ lowerTrust' = lowerTrust
    BY <1>4 DEF Stream
  <2>2. PICK q \in Seq(OutEvents) : Yields(q)
    BY <1>0, <1>4, StreamYields DEF Stream
  <2>3. PICK p \in Seq(Frame) : Adds(q, p)
    BY <1>0, <2>1, <2>2, WriteAdds DEF Yields
  <2>4. wire' \in Seq(Frame) /\ PrivilegedWithheld'
    BY <1>0, <2>1, <2>3, WireGrows, RedactionKept DEF Adds
  <2>5. OpenWire'
    <3> SUFFICES ASSUME NEW i \in 1..Len(wire'), IsTerminal(wire'[i])
                 PROVE  i = Len(wire') /\ terminalEventYielded'
      BY DEF OpenWire, IsTerminal
    <3>1. i \notin 1..Len(wire)
      <4>1. i \in 1..Len(wire) => wire'[i] = wire[i]
        BY <1>0, <2>3, WireGrows DEF Adds
      <4> QED
        BY <1>0, <2>1, <2>2, <4>1 DEF OpenWire, Yields
    <3>2. PICK k \in 1..Len(p) : i = Len(wire) + k /\ wire'[i] = p[k]
      BY <1>0, <2>3, <3>1, WireGrows DEF Adds
    <3>3. k = Len(p) /\ Len(q) = 1 /\ IsTerminal(q[1])
      BY <2>3, <3>2 DEF Adds
    <3>4. terminalEventYielded'
      BY <2>2, <3>3 DEF Yields
    <3> QED
      BY <1>0, <2>3, <3>2, <3>3, <3>4, WireGrows DEF Adds
  <2>6. NamesSeen'
    <3> SUFFICES ASSUME NEW n \in names'
                 PROVE  \E j \in 1..Len(wire') : IsStart(wire'[j], n)
      BY DEF NamesSeen, IsStart
    <3>1. CASE n \in names
      <4>1. PICK j \in 1..Len(wire) : IsStart(wire[j], n)
        BY <1>0, <2>1, <3>1 DEF NamesSeen
      <4> QED
        BY <1>0, <2>3, <4>1, WireGrows DEF Adds
    <3>2. CASE n \notin names
      <4>1. PICK k \in 1..Len(p) : IsStart(p[k], n)
        BY <2>3, <3>2 DEF Adds
      <4>2. Len(wire) + k \in 1..Len(wire') /\ wire'[Len(wire) + k] = p[k]
        BY <1>0, <2>3, WireGrows DEF Adds
      <4> QED
        BY <4>1, <4>2
    <3> QED
      BY <3>1, <3>2
  <2>7. WireClosed'
    BY <2>1, <2>4, <2>5 DEF OpenWire, WireClosed
  <2> QED
    BY <1>1, <2>1, <2>4, <2>5, <2>6, <2>7 DEF TurnInv, Untouched
<1>5. CASE Quiet
  <2>1. /\ turn = "stream" /\ UNCHANGED <<turn, wire, names, lowerTrust>>
        /\ terminalEventYielded' = terminalEventYielded
    BY <1>5 DEF Quiet, turnVars, Adapter, SourceEvent, SourceEnd, Mark, EmitSurface, RecordRunError,
       DropLate, flagVars
  <2>2. Untouched' /\ OpenWire' /\ NamesSeen' /\ PrivilegedWithheld'
    BY <1>0, <2>1 DEF Untouched, OpenWire, NamesSeen, PrivilegedWithheld
  <2>3. WireClosed'
    BY <1>0, <2>1, <2>2 DEF OpenWire, WireClosed
  <2> QED
    BY <1>0, <1>1, <2>1, <2>2, <2>3 DEF TurnInv
<1>6. CASE EndOfStream
  <2>1. /\ turn = "stream" /\ turn' = "done" /\ wire' = wire \o Report /\ lowerTrust' = lowerTrust
        /\ names' = names
    BY <1>6 DEF EndOfStream
  <2>2. wire' \in Seq(Frame) /\ WireClosed'
    BY <1>0, <2>1, ReportFollows DEF OpenWire
  <2>3. PrivilegedWithheld'
    <3>1. Report \in Seq(Frame) /\ \A i \in 1..Len(Report) : ~IsRaw(Report[i])
      <4>1. CASE Report = <<>>
        BY <4>1
      <4>2. CASE Report = <<Report1>>
        BY <4>2, RouteFrames
      <4> QED
        BY <4>1, <4>2, RouteFrames
    <3> QED
      BY <1>0, <2>1, <3>1, RedactionKept
  <2> QED
    BY <1>1, <2>1, <2>2, <2>3 DEF TurnInv, Untouched, OpenWire, NamesSeen
<1>7. CASE Translate
  <2>1. PICK code \in ErrorCodes : wire' = wire \o <<Ev("RUN_ERROR", 0, code)>> \o Report
    BY <1>7 DEF Translate
  <2> DEFINE e == Ev("RUN_ERROR", 0, code)
             p == <<e>> \o Report
  <2>2. e \in Frame /\ ~IsRaw(e)
    BY RouteFrames
  <2> HIDE DEF e
  <2>3. Report \in Seq(Frame) /\ <<e>> \in Seq(Frame) /\ p \in Seq(Frame)
        /\ \A i \in 1..Len(p) : ~IsRaw(p[i])
    <3>1. Report \in Seq(Frame) /\ \A i \in 1..Len(Report) : ~IsRaw(Report[i])
      <4>1. CASE Report = <<>>
        BY <4>1
      <4>2. CASE Report = <<Report1>>
        BY <4>2, RouteFrames
      <4> QED
        BY <4>1, <4>2, RouteFrames
    <3>2. <<e>> \in Seq(Frame) /\ Len(<<e>>) = 1 /\ <<e>>[1] = e
      BY <2>2
    <3>3. /\ p \in Seq(Frame) /\ Len(p) = 1 + Len(Report) /\ p[1] = e
          /\ \A i \in 1..Len(p) : i = 1 \/ (i - 1 \in 1..Len(Report) /\ p[i] = Report[i - 1])
      BY <3>1, <3>2
    <3> QED
      BY <2>2, <3>1, <3>2, <3>3
  <2>4. wire' = wire \o p
    BY <1>0, <2>1, <2>3, ConcatAssociative DEF e
  <2>5. turn = "stream" /\ turn' = "done" /\ lowerTrust' = lowerTrust /\ pending' = Raise
    BY <1>7 DEF Translate, Finish
  <2> HIDE DEF p
  <2>6. wire' \in Seq(Frame) /\ PrivilegedWithheld'
    BY <1>0, <2>3, <2>4, <2>5, WireGrows, RedactionKept
  <2> QED
    BY <1>1, <2>5, <2>6 DEF TurnInv, Untouched, OpenWire, NamesSeen, WireClosed
<1>8. CASE RecoveryFails
  <2> DEFINE e == Ev("RUN_ERROR", 0, "ACTION_TRIGGER_FAILED")
  <2>1. /\ turn = "stream" /\ turn' = "done" /\ lowerTrust' = lowerTrust /\ ~terminalEventYielded
        /\ wire' = Append(wire, e)
    BY <1>8 DEF RecoveryFails
  <2>2. e \in Frame /\ ~IsRaw(e)
    BY RouteFrames DEF RouteErrors
  <2> HIDE DEF e
  <2>3. <<e>> \in Seq(Frame) /\ wire' = wire \o <<e>> /\ Len(<<e>>) = 1 /\ <<e>>[1] = e
    BY <1>0, <2>1, <2>2
  <2>4. wire' \in Seq(Frame) /\ PrivilegedWithheld'
    <3>1. \A i \in 1..Len(<<e>>) : ~IsRaw(<<e>>[i])
      BY <2>2, <2>3
    <3>2. <<e>> \in Seq(Frame) /\ wire' = wire \o <<e>>
      BY <2>3
    <3> QED
      BY <1>0, <2>1, <3>1, <3>2, WireGrows, RedactionKept
  <2>5. \A i \in 1..Len(wire) : ~IsTerminal(wire[i]) /\ wire'[i] = wire[i]
    BY <1>0, <2>1, <2>2 DEF OpenWire
  <2>6. Len(wire') = Len(wire) + 1
    BY <1>0, <2>1, <2>2
  <2>7. WireClosed'
    BY <1>0, <2>5, <2>6 DEF WireClosed, IsTerminal
  <2> QED
    BY <1>1, <2>1, <2>4, <2>7 DEF TurnInv, Untouched, OpenWire, NamesSeen
<1>9. CASE Tear
  <2>1. /\ turn' = "torn" /\ pending' = Raise /\ lowerTrust' = lowerTrust
        /\ wire' = <<>> \/ wire' = wire
    BY <1>9 DEF Tear, Finish
  <2>2. wire' \in Seq(Frame) /\ PrivilegedWithheld'
    <3>1. CASE wire' = <<>>
      BY <3>1 DEF PrivilegedWithheld
    <3>2. CASE wire' = wire
      BY <1>0, <2>1, <3>2 DEF PrivilegedWithheld
    <3> QED
      BY <2>1, <3>1, <3>2
  <2> QED
    BY <1>1, <2>1, <2>2 DEF TurnInv, Untouched, OpenWire, NamesSeen, WireClosed
<1>10. CASE Leave
  <2>1. turn' = "left" /\ UNCHANGED <<wire, pending, lowerTrust>>
    BY <1>10 DEF Leave, Disconnect
  <2> QED
    BY <1>0, <1>1, <2>1 DEF TurnInv, Untouched, OpenWire, NamesSeen, WireClosed, PrivilegedWithheld
<1>11. CASE UNCHANGED allVars
  BY <1>0, <1>1, <1>11 DEF allVars, turnVars, vars, flagVars, TurnInv, Untouched, OpenWire, NamesSeen,
     WireClosed, PrivilegedWithheld
<1> QED
  BY <1>2, <1>3, <1>4, <1>5, <1>6, <1>7, <1>8, <1>9, <1>10, <1>11 DEF TurnNext
-----------------------------------------------------------------------------
(* Every state of every turn satisfies the invariant.                       *)
THEOREM TurnInvariant == TurnSpec => []TurnInv
BY TurnInitInv, TurnStep, PTL DEF TurnSpec

(* After a terminal frame a client receives only the probe's report, unless *)
(* the adapter raised after it had closed the run.                          *)
THEOREM WireIsClosed == TurnSpec => []WireClosed
<1>1. TurnInv => WireClosed
  BY DEF TurnInv
<1> QED
  BY <1>1, TurnInvariant, PTL

(* A lower-trust session never receives the raw result of a privileged or   *)
(* unannounced tool call, whatever the order of starts and results.         *)
THEOREM ResultsAreWithheld == TurnSpec => []PrivilegedWithheld
<1>1. TurnInv => PrivilegedWithheld
  BY DEF TurnInv
<1> QED
  BY <1>1, TurnInvariant, PTL
===============================================================================
