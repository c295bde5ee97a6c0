----------------------------- MODULE TurnStream -----------------------------
(***************************************************************************)
(* One HTTP turn around stream_agui_events.  Two routes stream it:         *)
(*   "chat"   fast_api_app.stream_skill, through process_skill_request     *)
(*            (which turns exceptions into RUN_ERROR) and                  *)
(*            redact_privileged_results;                                   *)
(*   "action" post_surface_action_run, which recovers persisted text the   *)
(*            adapter left out and turns every exception into RUN_ERROR.   *)
(* Generators are pulled, so each event the inner generator yields is      *)
(* filtered and written in the same step.                                  *)
(***************************************************************************)
EXTENDS AguiStream

CONSTANT ClientVisible   \* the calls whose tool is_client_visible_tool accepts

ASSUME TurnAssumption == ClientVisible \subseteq Calls

VARIABLES
    route,       \* "chat" | "action"
    lowerTrust,  \* session_is_lower_trust(...), chat only
    probe,       \* ?probe=1, chat only
    turn,        \* "gates" | "stream" | "done" | "torn" | "left"
    names,       \* redact_privileged_results: call ids seen in TOOL_CALL_START
    wire         \* the SSE frames written

turnVars == <<route, lowerTrust, probe, turn, names, wire>>
allVars == <<vars, turnVars>>
-----------------------------------------------------------------------------
TurnInit ==
    /\ Init
    /\ route \in {"chat", "action"}
    /\ lowerTrust \in BOOLEAN /\ probe \in BOOLEAN
    /\ (route = "action" => ~lowerTrust /\ ~probe)
    /\ turn = "gates" /\ names = {} /\ wire = <<>>

(* What a chat turn writes around its events: session_meta first when it     *)
(* resumes a stored session, the latency report last when it is a probe.     *)
Meta == {<<>>} \cup (IF route = "chat" THEN {<<Ev("SESSION_META", 0, NoError)>>} ELSE {})
Report == IF probe THEN <<Ev("LATENCY_REPORT", 0, NoError)>> ELSE <<>>

(* A failed gate: an HTTP error with no stream, or, once the skill is found, *)
(* a stream of one RUN_ERROR (session not accessible, read-only, document    *)
(* unavailable).  The ADK run is never started.                              *)
Reject ==
    /\ turn = "gates"
    /\ turn' = "done" /\ pc' = "closed"
    /\ \/ UNCHANGED wire
       \/ /\ route = "chat"
          /\ \E m \in Meta, code \in {"SESSION_ACCESS_DENIED", "SESSION_READ_ONLY",
                                     "DOCUMENT_UNAVAILABLE"} :
                wire' = m \o <<Ev("RUN_ERROR", 0, code)>> \o Report
    /\ UNCHANGED <<pending, phase, pulled, owed, stageEvents, marks, buffered, typedError, flagVars,
                   hbCount, out, route, lowerTrust, probe, names>>

(* The gates passed.                                                         *)
OpenStream ==
    /\ turn = "gates"
    /\ turn' = "stream"
    /\ wire' \in Meta
    /\ UNCHANGED <<vars, route, lowerTrust, probe, names>>
-----------------------------------------------------------------------------
(* Faulty variant of Guarded: a result whose start was not seen passes.      *)
GuardedFailOpen(e) ==
    IF lowerTrust /\ e.type = "TOOL_CALL_RESULT" /\ e.ref \in names \ ClientVisible
    THEN [e EXCEPT !.code = "redacted"] ELSE e

(* redact_privileged_results: a result is withheld unless the tool of its    *)
(* call is known from an earlier TOOL_CALL_START and is client-visible.      *)
Guarded(e) ==
    IF lowerTrust /\ e.type = "TOOL_CALL_RESULT" /\ e.ref \notin names \cap ClientVisible
    THEN [e EXCEPT !.code = "redacted"] ELSE e

(* The action route inserts the text ADK persisted for this run before a     *)
(* RUN_FINISHED that no text preceded.                                       *)
SawText == \E i \in 1..Len(wire) : wire[i].type = "TEXT_MESSAGE_CONTENT"

Recovered(e) ==
    IF route = "action" /\ e.type = "RUN_FINISHED" /\ ~SawText
    THEN {<<>>, <<Ev("TEXT_MESSAGE_CONTENT", 0, "recovered")>>} ELSE {<<>>}

(* Frames for the events this step of the generator yields.                  *)
Yielded == SubSeq(out', Len(out) + 1, Len(out'))

(* Faulty variants of Write: every event registers a call; the recovered     *)
(* text follows the terminal event.                                          *)
WriteAllIds ==
    /\ names' = names \cup {Yielded[i].ref : i \in DOMAIN Yielded}
    /\ wire' = wire \o [i \in DOMAIN Yielded |-> Guarded(Yielded[i])]

WriteRecoveredLast ==
    /\ names' = names \cup {Yielded[i].ref : i \in {k \in DOMAIN Yielded :
                                                      Yielded[k].type = "TOOL_CALL_START"}}
    /\ IF Len(Yielded) = 1
       THEN \E r \in Recovered(Yielded[1]) : wire' = wire \o <<Guarded(Yielded[1])>> \o r
       ELSE wire' = wire \o [i \in DOMAIN Yielded |-> Guarded(Yielded[i])]

(* Each frame passes the filter of its route on its way to the wire.         *)
Write ==
    /\ names' = names \cup {Yielded[i].ref : i \in {k \in DOMAIN Yielded :
                                                      Yielded[k].type = "TOOL_CALL_START"}}
    /\ IF Len(Yielded) = 1
       THEN \E r \in Recovered(Yielded[1]) : wire' = wire \o r \o <<Guarded(Yielded[1])>>
       ELSE wire' = wire \o [i \in DOMAIN Yielded |-> Guarded(Yielded[i])]

Stream ==
    /\ turn = "stream"
    /\ \/ SilenceTick \/ Forward \/ Flush \/ Drain \/ Terminate
    /\ Write
    /\ UNCHANGED <<route, lowerTrust, probe, turn>>

(* Steps that write nothing: the adapter's, the tracker's, a dropped event.  *)
Quiet ==
    /\ turn = "stream"
    /\ \/ Adapter \/ Mark \/ EmitSurface \/ RecordRunError \/ DropLate
    /\ UNCHANGED turnVars
-----------------------------------------------------------------------------
(* The inner generator is exhausted.                                         *)
EndOfStream ==
    /\ turn = "stream" /\ pending = Stop /\ Finish
    /\ turn' = "done"
    /\ wire' = wire \o Report
    /\ UNCHANGED <<route, lowerTrust, probe, names>>

(* The inner generator raised.  Chat: budget, upstream API and classified    *)
(* model errors become RUN_ERROR, an unclassified exception tears the        *)
(* stream.  Action: every exception becomes RUN_ERROR.                       *)
ErrorCodes == IF route = "chat" THEN {Typed, "UPSTREAM_API_ERROR", "MODEL_UNAVAILABLE"}
              ELSE {"ACTION_TRIGGER_FAILED"}

Translate ==
    /\ turn = "stream" /\ pending = Raise /\ Finish
    /\ turn' = "done"
    /\ \E code \in ErrorCodes : wire' = wire \o <<Ev("RUN_ERROR", 0, code)>> \o Report
    /\ UNCHANGED <<route, lowerTrust, probe, names>>

(* The action route's recovery itself fails: the RUN_FINISHED it precedes is *)
(* replaced by RUN_ERROR and the inner generator is abandoned.               *)
RecoveryFails ==
    /\ turn = "stream" /\ route = "action" /\ ~SawText
    /\ pc = "pull" /\ pending \in SourceEvents /\ ~terminalEventYielded
    /\ pending.type \in TerminalTypes /\ TerminalFor(pending).type = "RUN_FINISHED"
    /\ turn' = "done" /\ pc' = "closed" /\ phase' = "over"
    /\ out' = Append(out, TerminalFor(pending))
    /\ terminalEventYielded' = TRUE /\ pending' = Waiting
    /\ wire' = Append(wire, Ev("RUN_ERROR", 0, "ACTION_TRIGGER_FAILED"))
    /\ UNCHANGED <<pulled, owed, stageEvents, marks, buffered, typedError, producedOutput,
                   firstModelTokenSeen, hbCount, route, lowerTrust, probe, names>>

(* An unclassified exception of a chat turn.  stream_skill pulls the first   *)
(* event before it answers, so without one this is an HTTP 500, no stream.   *)
Tear ==
    /\ turn = "stream" /\ pending = Raise /\ Finish
    /\ route = "chat"
    /\ turn' = "torn"
    /\ wire' = IF out = <<>> THEN <<>> ELSE wire
    /\ UNCHANGED <<route, lowerTrust, probe, names>>

(* The client disconnects.                                                   *)
Leave ==
    /\ turn = "stream" /\ Disconnect
    /\ turn' = "left"
    /\ UNCHANGED <<route, lowerTrust, probe, names, wire>>

TurnNext ==
    \/ Reject \/ OpenStream \/ Stream \/ Quiet \/ EndOfStream \/ Translate
    \/ RecoveryFails \/ Tear \/ Leave

TurnFairness ==
    /\ WF_allVars(Stream /\ Generator) /\ WF_allVars(Quiet /\ (Adapter \/ DropLate))
    /\ WF_allVars(EndOfStream \/ Translate \/ Tear)

TurnSpec == TurnInit /\ [][TurnNext]_allVars /\ TurnFairness
-----------------------------------------------------------------------------

(* After a terminal frame only the probe's report may follow, unless the     *)
(* adapter raised after it had already closed the run.                       *)
WireClosed ==
    \A i \in 1..Len(wire), j \in 1..Len(wire) :
        (i < j /\ IsTerminal(wire[i])) => wire[j].type = "LATENCY_REPORT" \/ pending = Raise

(* In a lower-trust session a raw tool result reaches the wire only after    *)
(* the start of that call, and only for a client-visible tool, in whatever   *)
(* order the adapter delivers starts and results.                            *)
PrivilegedWithheld ==
    \A i \in 1..Len(wire) :
        (lowerTrust /\ wire[i].type = "TOOL_CALL_RESULT" /\ wire[i].code # "redacted") =>
            /\ wire[i].ref \in ClientVisible
            /\ \E j \in 1..i : wire[j] = Ev("TOOL_CALL_START", wire[i].ref, NoError)

(* Every turn that opened its stream ends, exhausted, failed, torn or left,  *)
(* unless the adapter failed with a TimeoutError (see HeartbeatIsSilence).   *)
TurnEnds ==
    turn = "stream" /\ phase = "over" /\ pending # TimedOut ~> turn \in {"done", "torn", "left"}
=============================================================================
