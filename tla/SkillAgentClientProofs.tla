----------------------- MODULE SkillAgentClientProofs -----------------------
(***************************************************************************)
(* Proofs about SkillAgentClient, for conversations of any length.  The    *)
(* refs of the hook are shared by all turns; what the truncation guard     *)
(* needs is that they speak of the turn at hand, which holds as long as    *)
(* the turn runs alone.                                                    *)
(***************************************************************************)
EXTENDS SkillAgentClient, TLAPS

(* While turn t is in flight alone, the refs speak of t.                    *)
RefsSpeakOf(t) ==
    /\ current = t /\ \A u \in InFlight : u = t
    /\ net[t] \in {"connecting", "open"} => ~runFailed /\ ~emptyPending
    /\ net[t] = "open" => ~sawTerminal /\ ~aborted
    /\ net[t] = "connecting" => tool[t] # "running"
    /\ net[t] = "ended" => ~(emptyPending /\ runFailed)
    /\ net[t] \in {"stopped", "expired"} => ~emptyPending
    /\ net[t] = "expired" => ~isLoading
    /\ (net[t] = "expired" /\ tool[t] = "running") => Truncated

AloneInv ==
    /\ \A t \in InFlight \ shared : RefsSpeakOf(t)
    /\ \A t \in Turns : net[t] = "off" => tool[t] = "none"

Inv == ClientTypeOK /\ SpinnerHasRun /\ AloneInv /\ CutTurnIsTold

(* Before the first turn the invariant holds: nothing is in flight.         *)
LEMMA InitInv == Init => Inv
<1> SUFFICES ASSUME Init PROVE Inv
  OBVIOUS
<1>1. ClientTypeOK
  <2>1. emptyRetry \in 0..1 /\ runs \in [Turns -> Nat]
    BY DEF Init
  <2> QED BY <2>1 DEF Init, ClientTypeOK, NoError
<1>2. SpinnerHasRun /\ AloneInv /\ CutTurnIsTold
  BY DEF Init, SpinnerHasRun, AloneInv, CutTurnIsTold, InFlight
<1> QED BY <1>1, <1>2 DEF Inv

(* Every handler of the hook keeps the types.                               *)
LEMMA TypeStep == ASSUME ClientTypeOK, Next PROVE ClientTypeOK'
<1> USE DEF ClientTypeOK, Delivers, Resolve, InFlight, NoError, stateVars, refs, history
<1>1. CASE ClearError
  BY <1>1 DEF ClearError
<1>2. CASE Stop
  BY <1>2 DEF Stop
<1>3. CASE HangTimeout
  BY <1>3 DEF HangTimeout, Abort
<1>4. CASE StallTimeout
  BY <1>4 DEF StallTimeout, Abort
<1>5. ASSUME NEW t \in Turns, SendMessage(t) PROVE ClientTypeOK'
  <2>1. emptyRetry' \in 0..1 /\ runs' \in [Turns -> Nat]
    BY <1>5 DEF SendMessage
  <2>2. shared' \subseteq Turns
    BY <1>5 DEF SendMessage
  <2> QED BY <1>5, <2>1, <2>2 DEF SendMessage
<1>6. ASSUME NEW t \in Turns, Die(t) PROVE ClientTypeOK'
  BY <1>6 DEF Die
<1>7. ASSUME NEW t \in Turns, OnRunStartedEvent(t) PROVE ClientTypeOK'
  BY <1>7 DEF OnRunStartedEvent
<1>8. ASSUME NEW t \in Turns, OnToolCallStartEvent(t) PROVE ClientTypeOK'
  BY <1>8 DEF OnToolCallStartEvent
<1>9. ASSUME NEW t \in Turns, OnToolCallEndEvent(t) PROVE ClientTypeOK'
  BY <1>9 DEF OnToolCallEndEvent
<1>10. ASSUME NEW t \in Turns, OnCompactionStarted(t) PROVE ClientTypeOK'
  BY <1>10 DEF OnCompactionStarted
<1>11. ASSUME NEW t \in Turns, OnHistoryCompacted(t) PROVE ClientTypeOK'
  BY <1>11 DEF OnHistoryCompacted
<1>12. ASSUME NEW t \in Turns, OnRunFinishedEvent(t) PROVE ClientTypeOK'
  BY <1>12 DEF OnRunFinishedEvent
<1>13. ASSUME NEW t \in Turns, OnEmptyRun(t) PROVE ClientTypeOK'
  BY <1>13 DEF OnEmptyRun
<1>14. ASSUME NEW t \in Turns, OnRunErrorEvent(t) PROVE ClientTypeOK'
  BY <1>14 DEF OnRunErrorEvent
<1>15. ASSUME NEW t \in Turns, StreamEnd(t) PROVE ClientTypeOK'
  <2>1. t \in InFlight /\ FateOf(t) \in {"cut", "cutEarly", "ended", "stopped", "expired"}
    BY <1>15 DEF StreamEnd, Ends, FateOf
  <2>2. fate' \in [Turns -> {"none", "cut", "cutEarly", "ended", "stopped", "expired", "failed"}]
    BY <1>15, <2>1 DEF StreamEnd
  <2>3. runs' \in [Turns -> Nat] /\ net' \in [Turns -> {"off", "connecting", "open", "ended",
                                                     "stopped", "expired", "over"}]
    BY <1>15 DEF StreamEnd
  <2>4. tool' \in [Turns -> {"none", "running", "success", "error"}]
    BY <1>15 DEF StreamEnd, OnRunFinalized
  <2>5. /\ error' \in {NoError, "run_error", "truncated", "http", "hang", "stall"}
        /\ told' \subseteq Turns /\ dead' \subseteq Turns /\ current' \in {0} \cup Turns
    BY <1>15 DEF StreamEnd, OnRunFinalized
  <2>6. emptyPending' \in BOOLEAN
    BY <1>15 DEF StreamEnd
  <2>7. UNCHANGED <<tidyingUp, sawTerminal, runFailed, aborted, emptyRetry, shared>>
        /\ isLoading' = FALSE /\ runStarted' = FALSE
    BY <1>15 DEF StreamEnd, OnRunFinalized
  <2> QED BY <2>2, <2>3, <2>4, <2>5, <2>6, <2>7
<1>16. ASSUME NEW t \in Turns, OnRunFailed(t) PROVE ClientTypeOK'
  BY <1>16 DEF OnRunFailed
<1>17. ASSUME NEW t \in Turns, RunAgentRejects(t) PROVE ClientTypeOK'
  BY <1>17 DEF RunAgentRejects
<1> QED BY <1>1, <1>2, <1>3, <1>4, <1>5, <1>6, <1>7, <1>8, <1>9, <1>10, <1>11, <1>12, <1>13, <1>14, <1>15, <1>16, <1>17 DEF Next, Terminal

(* Whatever shows the spinner belongs to a turn in flight.                  *)
LEMMA SpinnerStep == ASSUME ClientTypeOK, SpinnerHasRun, Next PROVE SpinnerHasRun'
<1> USE DEF ClientTypeOK, SpinnerHasRun, InFlight, Delivers, stateVars
<1>1. CASE ClearError
  BY <1>1 DEF ClearError
<1>2. CASE Stop
  BY <1>2 DEF Stop
<1>3. CASE HangTimeout
  BY <1>3 DEF HangTimeout, Abort
<1>4. CASE StallTimeout
  BY <1>4 DEF StallTimeout, Abort
<1>5. ASSUME NEW t \in Turns, SendMessage(t) PROVE SpinnerHasRun'
  BY <1>5 DEF SendMessage
<1>6. ASSUME NEW t \in Turns, Die(t) PROVE SpinnerHasRun'
  BY <1>6 DEF Die
<1>7. ASSUME NEW t \in Turns, OnRunStartedEvent(t) PROVE SpinnerHasRun'
  BY <1>7 DEF OnRunStartedEvent
<1>8. ASSUME NEW t \in Turns, OnToolCallStartEvent(t) PROVE SpinnerHasRun'
  BY <1>8 DEF OnToolCallStartEvent
<1>9. ASSUME NEW t \in Turns, OnToolCallEndEvent(t) PROVE SpinnerHasRun'
  BY <1>9 DEF OnToolCallEndEvent
<1>10. ASSUME NEW t \in Turns, OnCompactionStarted(t) PROVE SpinnerHasRun'
  BY <1>10 DEF OnCompactionStarted
<1>11. ASSUME NEW t \in Turns, OnHistoryCompacted(t) PROVE SpinnerHasRun'
  BY <1>11 DEF OnHistoryCompacted
<1>12. ASSUME NEW t \in Turns, OnRunFinishedEvent(t) PROVE SpinnerHasRun'
  BY <1>12 DEF OnRunFinishedEvent
<1>13. ASSUME NEW t \in Turns, OnEmptyRun(t) PROVE SpinnerHasRun'
  BY <1>13 DEF OnEmptyRun
<1>14. ASSUME NEW t \in Turns, OnRunErrorEvent(t) PROVE SpinnerHasRun'
  BY <1>14 DEF OnRunErrorEvent
<1>15. ASSUME NEW t \in Turns, StreamEnd(t) PROVE SpinnerHasRun'
  BY <1>15 DEF StreamEnd, OnRunFinalized, Ends, FateOf, Truncated
<1>16. ASSUME NEW t \in Turns, OnRunFailed(t) PROVE SpinnerHasRun'
  BY <1>16 DEF OnRunFailed
<1>17. ASSUME NEW t \in Turns, RunAgentRejects(t) PROVE SpinnerHasRun'
  BY <1>17 DEF RunAgentRejects
<1> QED BY <1>1, <1>2, <1>3, <1>4, <1>5, <1>6, <1>7, <1>8, <1>9, <1>10, <1>11, <1>12, <1>13, <1>14, <1>15, <1>16, <1>17 DEF Next, Terminal

(* Every step of the hook, the user or the network keeps the refs about the *)
(* turn that runs alone.                                                    *)
LEMMA AloneStep == ASSUME ClientTypeOK, AloneInv, Next PROVE AloneInv'
<1> USE DEF ClientTypeOK, AloneInv, RefsSpeakOf, Truncated, InFlight, Delivers, Resolve, NoError,
            stateVars, refs, history
<1>1. CASE ClearError
  BY <1>1 DEF ClearError
<1>2. CASE Stop
  BY <1>2 DEF Stop
<1>3. CASE HangTimeout
  BY <1>3 DEF HangTimeout, Abort
<1>4. CASE StallTimeout
  BY <1>4 DEF StallTimeout, Abort
<1>5. ASSUME NEW t \in Turns, SendMessage(t) PROVE AloneInv'
  <2> SUFFICES ASSUME NEW u \in (InFlight \ shared)' PROVE RefsSpeakOf(u)'
    BY <1>5 DEF SendMessage
  <2>1. net' = [net EXCEPT ![t] = "connecting"] /\ t \in InFlight'
    BY <1>5 DEF SendMessage
  <2>2. InFlight = {} /\ u = t
    BY <1>5, <2>1 DEF SendMessage
  <2>3. tool'[t] # "running"
    BY <1>5 DEF SendMessage
  <2> QED BY <1>5, <2>1, <2>2, <2>3 DEF SendMessage
<1>6. ASSUME NEW t \in Turns, Die(t) PROVE AloneInv'
  BY <1>6 DEF Die
<1>7. ASSUME NEW t \in Turns, OnRunStartedEvent(t) PROVE AloneInv'
  BY <1>7 DEF OnRunStartedEvent
<1>8. ASSUME NEW t \in Turns, OnToolCallStartEvent(t) PROVE AloneInv'
  BY <1>8 DEF OnToolCallStartEvent
<1>9. ASSUME NEW t \in Turns, OnToolCallEndEvent(t) PROVE AloneInv'
  BY <1>9 DEF OnToolCallEndEvent
<1>10. ASSUME NEW t \in Turns, OnCompactionStarted(t) PROVE AloneInv'
  BY <1>10 DEF OnCompactionStarted
<1>11. ASSUME NEW t \in Turns, OnHistoryCompacted(t) PROVE AloneInv'
  BY <1>11 DEF OnHistoryCompacted
<1>12. ASSUME NEW t \in Turns, OnRunFinishedEvent(t) PROVE AloneInv'
  BY <1>12 DEF OnRunFinishedEvent
<1>13. ASSUME NEW t \in Turns, OnEmptyRun(t) PROVE AloneInv'
  BY <1>13 DEF OnEmptyRun
<1>14. ASSUME NEW t \in Turns, OnRunErrorEvent(t) PROVE AloneInv'
  BY <1>14 DEF OnRunErrorEvent
<1>15. ASSUME NEW t \in Turns, StreamEnd(t) PROVE AloneInv'
  BY <1>15 DEF StreamEnd, OnRunFinalized, Ends, FateOf, Truncated
<1>16. ASSUME NEW t \in Turns, OnRunFailed(t) PROVE AloneInv'
  BY <1>16 DEF OnRunFailed
<1>17. ASSUME NEW t \in Turns, RunAgentRejects(t) PROVE AloneInv'
  BY <1>17 DEF RunAgentRejects
<1> QED BY <1>1, <1>2, <1>3, <1>4, <1>5, <1>6, <1>7, <1>8, <1>9, <1>10, <1>11, <1>12, <1>13, <1>14, <1>15, <1>16, <1>17 DEF Next, Terminal

(* A cut turn that ran alone is told: only StreamEnd cuts a turn, and then  *)
(* the refs make the truncation guard fire.                                 *)
LEMMA ToldStep == ASSUME ClientTypeOK, AloneInv, CutTurnIsTold, Next PROVE CutTurnIsTold'
<1> USE DEF ClientTypeOK, CutTurnIsTold, AloneInv, RefsSpeakOf, InFlight, Delivers, stateVars,
            history
<1>1. CASE ClearError
  BY <1>1 DEF ClearError
<1>2. CASE Stop
  BY <1>2 DEF Stop
<1>3. CASE HangTimeout
  BY <1>3 DEF HangTimeout, Abort
<1>4. CASE StallTimeout
  BY <1>4 DEF StallTimeout, Abort
<1>5. ASSUME NEW t \in Turns, SendMessage(t) PROVE CutTurnIsTold'
  BY <1>5 DEF SendMessage
<1>6. ASSUME NEW t \in Turns, Die(t) PROVE CutTurnIsTold'
  BY <1>6 DEF Die
<1>7. ASSUME NEW t \in Turns, OnRunStartedEvent(t) PROVE CutTurnIsTold'
  BY <1>7 DEF OnRunStartedEvent
<1>8. ASSUME NEW t \in Turns, OnToolCallStartEvent(t) PROVE CutTurnIsTold'
  BY <1>8 DEF OnToolCallStartEvent
<1>9. ASSUME NEW t \in Turns, OnToolCallEndEvent(t) PROVE CutTurnIsTold'
  BY <1>9 DEF OnToolCallEndEvent
<1>10. ASSUME NEW t \in Turns, OnCompactionStarted(t) PROVE CutTurnIsTold'
  BY <1>10 DEF OnCompactionStarted
<1>11. ASSUME NEW t \in Turns, OnHistoryCompacted(t) PROVE CutTurnIsTold'
  BY <1>11 DEF OnHistoryCompacted
<1>12. ASSUME NEW t \in Turns, OnRunFinishedEvent(t) PROVE CutTurnIsTold'
  BY <1>12 DEF OnRunFinishedEvent
<1>13. ASSUME NEW t \in Turns, OnEmptyRun(t) PROVE CutTurnIsTold'
  BY <1>13 DEF OnEmptyRun
<1>14. ASSUME NEW t \in Turns, OnRunErrorEvent(t) PROVE CutTurnIsTold'
  BY <1>14 DEF OnRunErrorEvent
<1>15. ASSUME NEW t \in Turns, StreamEnd(t) PROVE CutTurnIsTold'
  BY <1>15 DEF StreamEnd, OnRunFinalized, Ends, FateOf, Truncated
<1>16. ASSUME NEW t \in Turns, OnRunFailed(t) PROVE CutTurnIsTold'
  BY <1>16 DEF OnRunFailed
<1>17. ASSUME NEW t \in Turns, RunAgentRejects(t) PROVE CutTurnIsTold'
  BY <1>17 DEF RunAgentRejects
<1> QED BY <1>1, <1>2, <1>3, <1>4, <1>5, <1>6, <1>7, <1>8, <1>9, <1>10, <1>11, <1>12, <1>13, <1>14, <1>15, <1>16, <1>17 DEF Next, Terminal

(* The inductive invariant of the hook.                                     *)
THEOREM ClientInvariant == Spec => []Inv
<1>1. Inv /\ UNCHANGED vars => Inv'
  BY DEF Inv, ClientTypeOK, SpinnerHasRun, AloneInv, RefsSpeakOf, Truncated, CutTurnIsTold,
         InFlight, vars, stateVars, refs, history
<1>2. Inv /\ [Next]_vars => Inv'
  BY <1>1, TypeStep, SpinnerStep, AloneStep, ToldStep DEF Inv
<1> QED BY InitInv, <1>2, PTL DEF Spec

(* The spinner of useSkillAgent always has a call of sendMessage behind it. *)
THEOREM SpinnerIsHonest == Spec => []SpinnerHasRun
<1>1. Inv => SpinnerHasRun
  BY DEF Inv
<1> QED BY <1>1, ClientInvariant, PTL

(* A turn that runs alone and is cut after RUN_STARTED is never silent.     *)
THEOREM CutIsTold == Spec => []CutTurnIsTold
<1>1. Inv => CutTurnIsTold
  BY DEF Inv
<1> QED BY <1>1, ClientInvariant, PTL

(* Every piece of the hook's state keeps its type.                          *)
THEOREM ClientTypeCorrect == Spec => []ClientTypeOK
<1>1. Inv => ClientTypeOK
  BY DEF Inv
<1> QED BY <1>1, ClientInvariant, PTL

(* Of a turn that runs alone, the end of the stream makes a running tool    *)
(* call a success only after a terminal event or the user's stop: the only  *)
(* other way out of an open run goes through the truncation guard.          *)
THEOREM ToolsAreHonest == Spec => ToolSuccessIsEarned
<1> DEFINE Earned ==
      \A t \in Turns \ shared' :
        (tool[t] = "running" /\ tool'[t] = "success" /\ net'[t] # net[t]) =>
            net[t] \in {"ended", "stopped"}
<1>1. ASSUME Inv, Next PROVE Earned
  <2> SUFFICES ASSUME NEW t \in Turns, t \notin shared', tool[t] = "running",
                      tool'[t] = "success", net'[t] # net[t]
               PROVE net[t] \in {"ended", "stopped"}
    OBVIOUS
  <2> USE DEF Inv, ClientTypeOK, InFlight, Delivers, Resolve, stateVars
  <2>1. ASSUME NEW u \in Turns, StreamEnd(u) PROVE net[t] \in {"ended", "stopped"}
    <3> HIDE DEF InFlight
    <3>1. u = t /\ shared' = shared
      BY <1>1, <2>1 DEF StreamEnd
    <3>2. t \in InFlight
      BY <2>1, <3>1 DEF StreamEnd, Ends
    <3>3. ~Truncated
      BY <2>1 DEF StreamEnd, OnRunFinalized
    <3>4. t \in InFlight /\ t \notin shared /\ ~Truncated
      BY <3>1, <3>2, <3>3
    <3>5. RefsSpeakOf(t)
      BY <1>1, <3>4 DEF AloneInv
    <3> QED BY <1>1, <3>4, <3>5 DEF RefsSpeakOf, Truncated, InFlight
  <2>2. tool'[t] # "success" \/ net' = net \/ \E u \in Turns : StreamEnd(u)
    <3>1. ASSUME ClearError \/ Stop \/ HangTimeout \/ StallTimeout PROVE tool'[t] # "success"
      BY <3>1 DEF ClearError, Stop, HangTimeout, StallTimeout
    <3>2. ASSUME NEW u \in Turns,
                 \/ SendMessage(u) \/ Die(u) \/ OnRunStartedEvent(u)
                 \/ OnToolCallStartEvent(u) \/ OnToolCallEndEvent(u)
                 \/ OnCompactionStarted(u) \/ OnHistoryCompacted(u)
          PROVE tool'[t] # "success" \/ net' = net
      <4>1. SendMessage(u) => tool' = tool
        BY DEF SendMessage
      <4>2. OnRunStartedEvent(u) => tool' = Resolve("none")
        BY DEF OnRunStartedEvent
      <4>3. Die(u) \/ OnToolCallStartEvent(u) \/ OnToolCallEndEvent(u)
              \/ OnCompactionStarted(u) \/ OnHistoryCompacted(u) => net' = net
        BY DEF Die, OnToolCallStartEvent, OnToolCallEndEvent, OnCompactionStarted,
               OnHistoryCompacted
      <4> QED BY <3>2, <4>1, <4>2, <4>3
    <3>3. ASSUME NEW u \in Turns,
                 Terminal(u) \/ OnRunFailed(u) \/ RunAgentRejects(u)
          PROVE tool'[t] # "success"
      BY <1>1, <3>3 DEF Terminal, OnRunFinishedEvent, OnEmptyRun, OnRunErrorEvent,
                        OnRunFailed, RunAgentRejects
    <3> QED BY <1>1, <3>1, <3>2, <3>3 DEF Next
  <2> QED BY <2>1, <2>2
<1>2. UNCHANGED vars => [Earned]_vars
  OBVIOUS
<1>3. Inv /\ [Next]_vars => [Earned]_vars
  BY <1>1, <1>2
<1> QED BY <1>3, ClientInvariant, PTL DEF Spec, ToolSuccessIsEarned
=============================================================================
