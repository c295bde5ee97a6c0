----------------------------- MODULE AguiStream -----------------------------
(***************************************************************************)
(* The generator stream_agui_events of backend/adk/agui.py: it pulls the   *)
(* events of one ADK run from the AG-UI adapter, interleaves what the      *)
(* request's LatencyTracker queued meanwhile, keeps the wire warm during   *)
(* silence, and closes the run with at most one terminal event.            *)
(*                                                                         *)
(* Three actors share the state.  The ADK run (external: ag_ui_adk)        *)
(* produces events, stage marks and a typed error at its own pace; the     *)
(* generator consumes them; the consumer of the generator may go away at   *)
(* any yield.  The generator's program counter pc names the places where   *)
(* it can be suspended, so marks land between any two of its steps.        *)
(***************************************************************************)
EXTENDS Naturals, Sequences

CONSTANTS
    Calls,        \* ids of the tool calls the run may make
    HeartbeatOn,  \* is AGUI_HEARTBEAT_SECONDS positive?
    MaxEvents,    \* bound: events the adapter produces in one run
    MaxMarks,     \* bound: tracker events queued in one run
    MaxBeats      \* bound: silence ticks in one run

ASSUME StreamAssumption ==
    /\ HeartbeatOn \in BOOLEAN
    /\ MaxEvents \in Nat /\ MaxMarks \in Nat /\ MaxBeats \in Nat
    /\ Calls \subseteq Nat

VARIABLES
    pc,           \* "pull" | "flush" | "drain" | "closed"
    pending,      \* outcome of the shielded anext task, Waiting while it runs
    phase,        \* the ADK run: "new" | "running" | "ended" | "over"
    pulled,       \* number of events the adapter has produced
    owed,         \* a tool ran whose TOOL_CALL_START is still in the adapter's queue
    stageEvents,  \* tracker._pending_stage_events
    marks,        \* number of tracker events queued so far
    buffered,     \* buffered_pre_agent
    typedError,   \* the typed_error slot: NoError or a code
    producedOutput, firstModelTokenSeen, terminalEventYielded, hbCount,
    out           \* everything the generator has yielded, in order

vars == <<pc, pending, phase, pulled, owed, stageEvents, marks, buffered, typedError,
          producedOutput, firstModelTokenSeen, terminalEventYielded, hbCount, out>>

runVars == <<phase, pulled, owed>>
flagVars == <<producedOutput, firstModelTokenSeen, terminalEventYielded>>
-----------------------------------------------------------------------------
(* An event keeps its type, a number (the mark of a tracker event, the id  *)
(* of a tool call, the count of a heartbeat) and a code (of an error).     *)
Ev(type, ref, code) == [type |-> type, ref |-> ref, code |-> code]

NoError == "none"
Typed == "BUDGET_EXCEEDED"
EmptyRun == Ev("RUN_ERROR", 0, "EMPTY_RUN")
Thinking == Ev("THINKING", 0, NoError)
Stage(n) == Ev("STAGE", n, NoError)
Surface(n) == Ev("A2UI_SURFACE", n, NoError)
Heartbeat(n) == Ev("HEARTBEAT", n, NoError)

TerminalTypes == {"RUN_ERROR", "RUN_FINISHED"}

(* Faulty variant of VisibleTypes: thinking counts as an answer.            *)
ReasoningIsOutput == {"TEXT_MESSAGE_CONTENT", "TOOL_CALL_START", "A2UI_SURFACE", "REASONING"}

(* What counts as an answer: a token, a tool call or a rendered surface.    *)
(* Reasoning does not.                                                      *)
VisibleTypes == {"TEXT_MESSAGE_CONTENT", "TOOL_CALL_START", "A2UI_SURFACE"}

BodyEvents ==
    {Ev(t, 0, NoError) : t \in {"TEXT_MESSAGE_CONTENT", "REASONING", "A2UI_SURFACE"}}
        \cup {Ev(t, c, NoError) : t \in {"TOOL_CALL_START", "TOOL_CALL_RESULT"}, c \in Calls}

RunStarted == Ev("RUN_STARTED", 0, NoError)

TerminalEvents ==
    {Ev("RUN_FINISHED", 0, NoError), Ev("RUN_ERROR", 0, "BACKGROUND_EXECUTION_ERROR")}

SourceEvents == {RunStarted} \cup BodyEvents \cup TerminalEvents

(* The anext task: still running, finished with an event, exhausted, failed *)
(* with a TimeoutError that the heartbeat's handler takes for silence, or   *)
(* failed with any other exception.                                         *)
Waiting == Ev("WAITING", 0, NoError)
Stop == Ev("STOP", 0, NoError)
Raise == Ev("RAISE", 0, NoError)
TimedOut == Ev("TIMED_OUT", 0, NoError)

(* What the tracker queues: labels and notices, and surfaces a tool result  *)
(* was rendered to, numbered in the order they were queued.                 *)
Stages == {Stage(n) : n \in 1..MaxMarks}
Tracked == Stages \cup {Surface(n) : n \in 1..MaxMarks}

(* Everything that can stand on the generator's output.                    *)
OutEvents ==
    SourceEvents \cup Tracked \cup {Heartbeat(n) : n \in 1..MaxBeats}
        \cup {EmptyRun, Thinking, Ev("RUN_ERROR", 0, Typed)}
-----------------------------------------------------------------------------
(* The tracker holds the events queued before the generator is first       *)
(* resumed (MODEL_RESOLVED and the early stages); they are drained into    *)
(* the buffer at once.                                                     *)
Init ==
    /\ \E n \in 0..MaxMarks :
        /\ marks = n
        /\ buffered = [i \in 1..n |-> Stage(i)]
    /\ stageEvents = <<>>
    /\ pc = "pull" /\ pending = Waiting /\ phase = "new" /\ pulled = 0
    /\ owed = FALSE
    /\ typedError = NoError
    /\ producedOutput = FALSE /\ firstModelTokenSeen = FALSE
    /\ terminalEventYielded = FALSE /\ hbCount = 0 /\ out = <<>>
-----------------------------------------------------------------------------
(* External: the adapter.  RUN_STARTED comes first unless the run errors at *)
(* once.  The ADK run works in the background behind a queue, so body       *)
(* events may still arrive after a typed error was recorded, and a second   *)
(* terminal or further events after a terminal.  The queue is first in,     *)
(* first out: a run does not finish before the start of a call it made.     *)
Offered ==
    IF phase = "new"
    THEN {RunStarted, Ev("RUN_ERROR", 0, "BACKGROUND_EXECUTION_ERROR")}
    ELSE {e \in BodyEvents \cup TerminalEvents : owed => e.type # "RUN_FINISHED"}

SourceEvent(e) ==
    /\ pc = "pull" /\ pending = Waiting
    /\ phase # "over" /\ pulled < MaxEvents /\ e \in Offered
    /\ pending' = e
    /\ pulled' = pulled + 1
    /\ owed' = (owed /\ e.type # "TOOL_CALL_START")
    /\ phase' = IF e.type \in TerminalTypes THEN "ended"
                ELSE IF phase = "new" THEN "running" ELSE phase
    /\ UNCHANGED <<pc, stageEvents, marks, buffered, typedError, flagVars, hbCount, out>>

(* External: the adapter's generator is exhausted, or raises.  Without      *)
(* heartbeats a TimeoutError is an exception like any other.                *)
SourceEnd(how) ==
    /\ pc = "pull" /\ pending = Waiting /\ phase # "over"
    /\ how \in {Stop, Raise} \/ (how = TimedOut /\ HeartbeatOn)
    /\ pending' = how
    /\ phase' = "over"
    /\ UNCHANGED <<pc, pulled, owed, stageEvents, marks, buffered, typedError, flagVars, hbCount, out>>

(* Faulty variant of Mark: the event takes the number of the previous one.  *)
MarkOffByOne ==
    /\ phase # "over" /\ pc # "closed" /\ marks < MaxMarks
    /\ marks' = marks + 1
    /\ stageEvents' = Append(stageEvents, Stage(marks))
    /\ UNCHANGED <<pc, pending, runVars, buffered, typedError, flagVars, hbCount, out>>

(* A callback of the running agent queues a tracker event.                  *)
Mark ==
    /\ phase # "over" /\ pc # "closed" /\ marks < MaxMarks
    /\ marks' = marks + 1
    /\ stageEvents' = Append(stageEvents, Stage(marks + 1))
    /\ UNCHANGED <<pc, pending, runVars, buffered, typedError, flagVars, hbCount, out>>

(* emit_a2ui_surface: a tool of the run finished and its result was         *)
(* rendered.  The adapter may not have delivered the call's start yet.      *)
CallSeen ==
    \/ pending.type = "TOOL_CALL_START"
    \/ \E i \in 1..Len(out) : out[i].type = "TOOL_CALL_START"

EmitSurface ==
    /\ phase = "running" /\ pc # "closed" /\ marks < MaxMarks
    /\ marks' = marks + 1
    /\ stageEvents' = Append(stageEvents, Surface(marks + 1))
    /\ owed' = (owed \/ ~CallSeen)
    /\ UNCHANGED <<pc, pending, phase, pulled, buffered, typedError, flagVars, hbCount, out>>

(* Faulty variant of SilenceTick: the tick does not look for a terminal.    *)
TickAfterTerminal ==
    /\ pc = "pull" /\ pending \in {Waiting, TimedOut} /\ HeartbeatOn /\ hbCount < MaxBeats
    /\ hbCount' = hbCount + 1
    /\ out' = out \o <<Heartbeat(hbCount + 1)>> \o stageEvents
    /\ stageEvents' = <<>>
    /\ UNCHANGED <<pc, pending, runVars, marks, buffered, typedError, flagVars>>

(* The budget callback blocks the model call: it fills the run's typed      *)
(* error slot and raises inside the ADK run.                                *)
RecordRunError ==
    /\ phase = "running" /\ pc # "closed" /\ typedError = NoError
    /\ typedError' = Typed
    /\ UNCHANGED <<pc, pending, runVars, stageEvents, marks, buffered, flagVars, hbCount, out>>
-----------------------------------------------------------------------------
(* hb_interval elapsed with the anext task still running, or the task has   *)
(* failed with a TimeoutError, which the same handler catches: the failed   *)
(* task is never replaced, so wait_for raises again at once and the next    *)
(* tick follows.  After a terminal the tick is silent, in the second case a *)
(* spin.                                                                    *)
SilenceTick ==
    /\ pc = "pull" /\ pending \in {Waiting, TimedOut} /\ HeartbeatOn
    /\ ~terminalEventYielded /\ hbCount < MaxBeats
    /\ hbCount' = hbCount + 1
    /\ out' = out \o <<Heartbeat(hbCount + 1)>> \o stageEvents
                  \o (IF stageEvents = <<>> /\ ~firstModelTokenSeen THEN <<Thinking>> ELSE <<>>)
    /\ stageEvents' = <<>>
    /\ UNCHANGED <<pc, pending, runVars, marks, buffered, typedError, flagVars>>

(* The anext task returned an event that is neither terminal nor late.      *)
Forward ==
    /\ pc = "pull" /\ pending \in SourceEvents
    /\ ~terminalEventYielded /\ pending.type \notin TerminalTypes
    /\ producedOutput' = (producedOutput \/ pending.type \in VisibleTypes)
    /\ firstModelTokenSeen' = (firstModelTokenSeen \/ pending.type = "TEXT_MESSAGE_CONTENT")
    /\ out' = Append(out, pending)
    /\ pending' = Waiting
    /\ pc' = "flush"
    /\ UNCHANGED <<runVars, stageEvents, marks, buffered, typedError, terminalEventYielded, hbCount>>

(* Faulty variant of Flush: what was queued later overtakes the buffer.     *)
FlushOvertaken ==
    /\ pc = "flush"
    /\ out' = out \o stageEvents \o buffered
    /\ buffered' = <<>> /\ stageEvents' = <<>>
    /\ pc' = "drain"
    /\ UNCHANGED <<pending, runVars, marks, typedError, flagVars, hbCount>>

(* The buffered pre-agent events follow the first real event.               *)
Flush ==
    /\ pc = "flush"
    /\ out' = out \o buffered
    /\ buffered' = <<>>
    /\ pc' = "drain"
    /\ UNCHANGED <<pending, runVars, stageEvents, marks, typedError, flagVars, hbCount>>

Drain ==
    /\ pc = "drain"
    /\ out' = out \o stageEvents
    /\ stageEvents' = <<>>
    /\ pc' = "pull"
    /\ UNCHANGED <<pending, runVars, marks, buffered, typedError, flagVars, hbCount>>

(* Faulty variant of TerminalFor: the empty-run test comes first.           *)
EmptyBeforeTyped(e) ==
    IF e.type = "RUN_FINISHED" /\ ~producedOutput THEN EmptyRun
    ELSE IF typedError # NoError THEN Ev("RUN_ERROR", 0, typedError)
    ELSE e

(* What the first terminal event of the adapter becomes on the wire.        *)
TerminalFor(e) ==
    IF typedError # NoError THEN Ev("RUN_ERROR", 0, typedError)
    ELSE IF e.type = "RUN_FINISHED" /\ ~producedOutput THEN EmptyRun
    ELSE e

Terminate ==
    /\ pc = "pull" /\ pending \in SourceEvents
    /\ ~terminalEventYielded /\ pending.type \in TerminalTypes
    /\ terminalEventYielded' = TRUE
    /\ out' = Append(out, TerminalFor(pending))
    /\ pending' = Waiting
    /\ UNCHANGED <<pc, runVars, stageEvents, marks, buffered, typedError,
                   producedOutput, firstModelTokenSeen, hbCount>>

(* Whatever the adapter still delivers after a terminal is dropped.  The    *)
(* output flags are updated before the test, as in the code.                *)
DropLate ==
    /\ pc = "pull" /\ pending \in SourceEvents
    /\ terminalEventYielded
    /\ producedOutput' = (producedOutput \/ pending.type \in VisibleTypes)
    /\ firstModelTokenSeen' = (firstModelTokenSeen \/ pending.type = "TEXT_MESSAGE_CONTENT")
    /\ pending' = Waiting
    /\ UNCHANGED <<pc, runVars, stageEvents, marks, buffered, typedError,
                   terminalEventYielded, hbCount, out>>

(* Faulty variant of Finish: the loop is only left once a terminal is out.  *)
FinishAfterTerminal ==
    /\ pc = "pull" /\ pending \in {Stop, Raise} /\ terminalEventYielded
    /\ pc' = "closed"
    /\ UNCHANGED <<pending, runVars, stageEvents, marks, buffered, typedError, flagVars, hbCount, out>>

(* StopAsyncIteration leaves the loop; an exception leaves the generator.   *)
Finish ==
    /\ pc = "pull" /\ pending \in {Stop, Raise}
    /\ pc' = "closed"
    /\ UNCHANGED <<pending, runVars, stageEvents, marks, buffered, typedError, flagVars, hbCount, out>>

(* The consumer disconnected: the generator is closed where it stands and   *)
(* the anext task, if it is in flight, is cancelled with the run behind it. *)
Disconnect ==
    /\ pc # "closed"
    /\ pc' = "closed"
    /\ phase' = IF pc = "pull" /\ pending = Waiting THEN "over" ELSE phase
    /\ UNCHANGED <<pending, pulled, owed, stageEvents, marks, buffered, typedError, flagVars, hbCount, out>>
-----------------------------------------------------------------------------
Adapter ==
    \/ \E e \in SourceEvents : SourceEvent(e)
    \/ SourceEnd(Stop) \/ SourceEnd(Raise) \/ SourceEnd(TimedOut)

Generator == Forward \/ Flush \/ Drain \/ Terminate \/ DropLate \/ Finish

Next == Adapter \/ Mark \/ EmitSurface \/ RecordRunError \/ SilenceTick \/ Generator \/ Disconnect

(* The event loop resumes a generator whose awaited task is done, so its    *)
(* steps are weakly fair.  Nothing is assumed of marks, silence, the        *)
(* consumer, or which event comes next; the adapter eventually answers a    *)
(* pull (it is bounded by the provider's own timeouts).                     *)
Spec == Init /\ [][Next]_vars /\ WF_vars(Generator) /\ WF_vars(Adapter)
-----------------------------------------------------------------------------
TypeOK ==
    /\ pc \in {"pull", "flush", "drain", "closed"}
    /\ pending \in SourceEvents \cup {Waiting, Stop, Raise, TimedOut}
    /\ phase \in {"new", "running", "ended", "over"}
    /\ pulled \in 0..MaxEvents /\ marks \in 0..MaxMarks /\ hbCount \in 0..MaxBeats
    /\ owed \in BOOLEAN
    /\ stageEvents \in Seq(Tracked) /\ buffered \in Seq(Stages)
    /\ typedError \in {NoError, Typed}
    /\ producedOutput \in BOOLEAN /\ firstModelTokenSeen \in BOOLEAN
    /\ terminalEventYielded \in BOOLEAN
    /\ out \in Seq(OutEvents)

IsTerminal(e) == e.type \in {"RUN_ERROR", "RUN_FINISHED"}

(* What a user would call an answer, independently of how the generator    *)
(* decides it.                                                              *)
IsAnswer(e) == e.type \in {"TEXT_MESSAGE_CONTENT", "TOOL_CALL_START", "A2UI_SURFACE"}

(* A terminal event is the last event of the stream: whatever the adapter,  *)
(* the tracker and the heartbeat timer do afterwards (a duplicate terminal, *)
(* a late mark, a silent tail), stream_agui_events yields nothing more.     *)
TerminalLast == \A i \in 1..Len(out) : IsTerminal(out[i]) => i = Len(out)

(* A run the budget callback blocked is never reported as a success, an     *)
(* empty run or the adapter's generic failure: its terminal carries the     *)
(* typed code recorded before the adapter's own terminal was pulled.        *)
BlockedTurnSaysWhy ==
    \A i \in 1..Len(out) :
        (typedError # NoError /\ IsTerminal(out[i])) => out[i].code = typedError

(* The order on the wire is the order the marks fired, with none missing:   *)
(* a tracker event is preceded by every earlier one, the ones buffered      *)
(* before the run included.  (A silence tick before RUN_STARTED overtakes   *)
(* the buffer, hence the premise.)                                          *)
StageOrder ==
    (out # <<>> /\ out[1] = RunStarted) =>
        \A i \in 1..Len(out) : out[i] \in Tracked =>
            \A n \in 1..out[i].ref :
                \E j \in 1..i : /\ out[j] \in {Stage(n), Surface(n)}
                                /\ j = i <=> n = out[i].ref

(* Once the adapter is exhausted or has raised, the generator leaves its    *)
(* loop: no silence tick and no terminal already sent keeps it pulling.     *)
(* The one exception it does not leave on is a TimeoutError, see            *)
(* HeartbeatIsSilence.                                                      *)
GeneratorCloses == phase = "over" /\ pending # TimedOut ~> pc = "closed"

(* A heartbeat stands for silence of a run that goes on: "every             *)
(* heartbeat_seconds of agent silence", "the underlying anext task keeps    *)
(* running via shield()" (agui.py:296, 369).                                *)
HeartbeatIsSilence == [][hbCount' # hbCount => pending = Waiting]_vars

(* The run as its consumer sees it, for RunContract.                        *)
OutcomeOf(e) ==
    IF e.type = "RUN_FINISHED" THEN "finished"
    ELSE IF e.code = "EMPTY_RUN" THEN "empty" ELSE "failed"

RunOutcome ==
    IF out # <<>> /\ IsTerminal(out[Len(out)]) THEN OutcomeOf(out[Len(out)]) ELSE "open"

RunShown == \E i \in 1..Len(out) : IsAnswer(out[i])

Contract == INSTANCE RunContract WITH outcome <- RunOutcome, shown <- RunShown

(* stream_agui_events implements RunContract: a run is closed once, as      *)
(* finished only when the user was shown something, as EMPTY_RUN only when  *)
(* nothing was shown.                                                       *)
ContractHolds == Contract!Spec
=============================================================================
