-------------------------- MODULE SkillAgentClient --------------------------
(***************************************************************************)
(* The chat client: the hook useSkillAgent of                              *)
(* frontend/src/hooks/useSkillAgent.ts over the HttpAgent of @ag-ui/client *)
(* (external).  A turn is one call of sendMessage; it awaits runAgent, and *)
(* runs it again when the hook's subscriber asked for the empty-run retry. *)
(* The React state and the refs of the hook are shared by every turn, and  *)
(* a turn may start while an earlier one is still in flight, because the   *)
(* composer is only closed by isLoading and error.                         *)
(***************************************************************************)
EXTENDS Naturals, FiniteSets

CONSTANT Turns   \* the turns of a conversation, in the order they are sent

ASSUME TurnsAssumption == Turns \subseteq Nat \ {0}

VARIABLES
    isLoading, runStarted, error, tidyingUp,              \* React state
    tool,                                                 \* status of each turn's tool call
    sawTerminal, runFailed, aborted, emptyPending, emptyRetry,  \* refs
    net,       \* each turn's latest runAgent, as the network and HttpAgent see it
    dead,      \* turns whose transport went silent for good
    current,   \* the turn whose runAgent was called last: what abortRun aborts
    \* History, read by the properties only.
    runs,      \* number of runAgent calls each turn made
    fate,      \* how each turn's last run ended
    told,      \* turns whose user was shown an error
    shared     \* turns that overlapped another one

stateVars == <<isLoading, runStarted, error>>
refs == <<sawTerminal, runFailed, aborted, emptyPending, emptyRetry>>
history == <<runs, fate, told, shared>>
vars == <<stateVars, tidyingUp, tool, refs, net, dead, current, history>>
-----------------------------------------------------------------------------
NoError == "none"

InFlight == {t \in Turns : net[t] \notin {"off", "over"}}

(* A tool call's status is only resolved while it is running.               *)
Resolve(status) == [t \in Turns |-> IF tool[t] = "running" THEN status ELSE tool[t]]

Init ==
    /\ isLoading = FALSE /\ runStarted = FALSE /\ error = NoError /\ tidyingUp = FALSE
    /\ tool = [t \in Turns |-> "none"]
    /\ sawTerminal = FALSE /\ runFailed = FALSE /\ aborted = FALSE
    /\ emptyPending = FALSE /\ emptyRetry = 0
    /\ net = [t \in Turns |-> "off"] /\ dead = {} /\ current = 0
    /\ runs = [t \in Turns |-> 0] /\ fate = [t \in Turns |-> "none"]
    /\ told = {} /\ shared = {}
-----------------------------------------------------------------------------
(* sendMessage up to its first await.  The composer is open while nothing   *)
(* loads and no error is shown (inputDisabled of ChatShell).                *)
SendMessage(t) ==
    /\ ~isLoading /\ error = NoError
    /\ net[t] = "off" /\ \A u \in Turns : u < t => net[u] # "off"
    /\ error' = NoError /\ runStarted' = FALSE /\ isLoading' = TRUE
    /\ runFailed' = FALSE /\ emptyPending' = FALSE /\ emptyRetry' = 0
    /\ net' = [net EXCEPT ![t] = "connecting"]
    /\ current' = t
    /\ runs' = [runs EXCEPT ![t] = 1]
    /\ shared' = IF InFlight = {} THEN shared ELSE shared \cup InFlight \cup {t}
    /\ UNCHANGED <<tidyingUp, tool, sawTerminal, aborted, dead, fate, told>>

(* clearError: the user dismisses the error, or asks to try again.          *)
ClearError ==
    /\ error # NoError
    /\ error' = NoError
    /\ UNCHANGED <<isLoading, runStarted, tidyingUp, tool, refs, net, dead, current, history>>

(* stop(), offered while the client shows a run in progress.                *)
Stop ==
    /\ isLoading
    /\ aborted' = TRUE
    /\ net' = [net EXCEPT ![current] = IF @ \in {"connecting", "open"} THEN "stopped" ELSE @]
    /\ UNCHANGED <<stateVars, tidyingUp, tool, sawTerminal, runFailed, emptyPending,
                   emptyRetry, dead, current, history>>
-----------------------------------------------------------------------------
(* External: the transport of a run dies without closing.                   *)
Die(t) ==
    /\ net[t] \in {"connecting", "open"} /\ t \notin dead
    /\ dead' = dead \cup {t}
    /\ UNCHANGED <<stateVars, tidyingUp, tool, refs, net, current, history>>

Delivers(t, states) == net[t] \in states /\ t \notin dead

(* Faulty variant of OnRunStartedEvent: the previous run's terminal stays.  *)
StartKeepsTerminal(t) ==
    /\ Delivers(t, {"connecting"})
    /\ net' = [net EXCEPT ![t] = "open"]
    /\ isLoading' = TRUE /\ runStarted' = TRUE /\ aborted' = FALSE
    /\ tool' = Resolve("none")
    /\ UNCHANGED <<error, tidyingUp, sawTerminal, runFailed, emptyPending, emptyRetry, dead,
                   current, history>>

OnRunStartedEvent(t) ==
    /\ Delivers(t, {"connecting"})
    /\ net' = [net EXCEPT ![t] = "open"]
    /\ isLoading' = TRUE /\ runStarted' = TRUE
    /\ sawTerminal' = FALSE /\ aborted' = FALSE
    /\ tool' = Resolve("none")
    /\ UNCHANGED <<error, tidyingUp, runFailed, emptyPending, emptyRetry, dead, current, history>>

OnToolCallStartEvent(t) ==
    /\ Delivers(t, {"open"}) /\ tool[t] = "none"
    /\ tool' = [tool EXCEPT ![t] = "running"]
    /\ UNCHANGED <<stateVars, tidyingUp, refs, net, dead, current, history>>

OnToolCallEndEvent(t) ==
    /\ Delivers(t, {"open"}) /\ tool[t] = "running"
    /\ tool' = [tool EXCEPT ![t] = "success"]
    /\ UNCHANGED <<stateVars, tidyingUp, refs, net, dead, current, history>>

(* COMPACTION_STARTED gives the composer back before the run is over;       *)
(* HISTORY_COMPACTED takes the notice away.                                 *)
OnCompactionStarted(t) ==
    /\ Delivers(t, {"open"})
    /\ isLoading' = FALSE /\ tidyingUp' = TRUE
    /\ UNCHANGED <<runStarted, error, tool, refs, net, dead, current, history>>

OnHistoryCompacted(t) ==
    /\ Delivers(t, {"open"})
    /\ tidyingUp' = FALSE
    /\ UNCHANGED <<stateVars, tool, refs, net, dead, current, history>>

OnRunFinishedEvent(t) ==
    /\ Delivers(t, {"open"})
    /\ net' = [net EXCEPT ![t] = "ended"]
    /\ sawTerminal' = TRUE
    /\ UNCHANGED <<stateVars, tidyingUp, tool, runFailed, aborted, emptyPending, emptyRetry,
                   dead, current, history>>

(* Faulty variant of OnEmptyRun: the retries are counted but not capped.    *)
EmptyRunUncapped(t) ==
    /\ Delivers(t, {"open"})
    /\ net' = [net EXCEPT ![t] = "ended"]
    /\ sawTerminal' = TRUE
    /\ emptyRetry' = emptyRetry + 1 /\ emptyPending' = TRUE
    /\ UNCHANGED <<stateVars, tidyingUp, tool, runFailed, aborted, dead, current, history>>

(* An EMPTY_RUN asks for one retry instead of showing an error.             *)
OnEmptyRun(t) ==
    /\ Delivers(t, {"open"}) /\ emptyRetry < 1
    /\ net' = [net EXCEPT ![t] = "ended"]
    /\ sawTerminal' = TRUE
    /\ emptyRetry' = emptyRetry + 1 /\ emptyPending' = TRUE
    /\ UNCHANGED <<stateVars, tidyingUp, tool, runFailed, aborted, dead, current, history>>

(* Any other RUN_ERROR, or an EMPTY_RUN with the retry used up.             *)
OnRunErrorEvent(t) ==
    /\ Delivers(t, {"connecting", "open"})
    /\ net' = [net EXCEPT ![t] = "ended"]
    /\ sawTerminal' = TRUE /\ runFailed' = TRUE
    /\ error' = "run_error" /\ isLoading' = FALSE /\ runStarted' = FALSE
    /\ tool' = Resolve("error")
    /\ told' = told \cup {t}
    /\ UNCHANGED <<tidyingUp, aborted, emptyPending, emptyRetry, dead, current, runs, fate, shared>>
-----------------------------------------------------------------------------
(* What the history records of a run's end.                                 *)
FateOf(t) ==
    CASE net[t] = "open" -> "cut"
      [] net[t] = "connecting" -> "cutEarly"
      [] OTHER -> net[t]

(* The stream of t's run is over, with or without a terminal event.         *)
(* onRunFinalized fires, runAgent resolves, and sendMessage runs it again   *)
(* or returns through its finally block.                                    *)
Truncated == ~sawTerminal /\ ~runFailed /\ ~aborted

Ends(t) == t \in InFlight /\ (t \in dead => net[t] \in {"stopped", "expired"})

(* Faulty variant of OnRunFinalized: a cut run's tool calls succeed too.    *)
FinalizeAllSuccess(t) ==
    /\ isLoading' = FALSE /\ runStarted' = FALSE
    /\ tool' = Resolve("success")
    /\ IF Truncated
       THEN error' = "truncated" /\ told' = told \cup {t}
       ELSE UNCHANGED <<error, told>>

OnRunFinalized(t) ==
    /\ isLoading' = FALSE /\ runStarted' = FALSE
    /\ IF Truncated
       THEN error' = "truncated" /\ tool' = Resolve("error") /\ told' = told \cup {t}
       ELSE tool' = Resolve("success") /\ UNCHANGED <<error, told>>

StreamEnd(t) ==
    /\ Ends(t)
    /\ OnRunFinalized(t)
    /\ fate' = [fate EXCEPT ![t] = FateOf(t)]
    /\ dead' = dead \ {t}
    /\ IF emptyPending
       THEN /\ emptyPending' = FALSE
            /\ net' = [net EXCEPT ![t] = "connecting"]
            /\ current' = t
            /\ runs' = [runs EXCEPT ![t] = @ + 1]
       ELSE /\ net' = [net EXCEPT ![t] = "over"]
            /\ UNCHANGED <<emptyPending, current, runs>>
    /\ UNCHANGED <<tidyingUp, sawTerminal, runFailed, aborted, emptyRetry, shared>>

(* The run fails inside the client's pipeline: onRunFailed, then            *)
(* onRunFinalized, then the catch and finally blocks of sendMessage.        *)
OnRunFailed(t) ==
    /\ Delivers(t, {"connecting", "open", "ended"})
    /\ runFailed' = TRUE /\ error' = "run_error"
    /\ isLoading' = FALSE /\ runStarted' = FALSE
    /\ tool' = Resolve("error")
    /\ told' = told \cup {t}
    /\ net' = [net EXCEPT ![t] = "over"]
    /\ fate' = [fate EXCEPT ![t] = "failed"]
    /\ UNCHANGED <<tidyingUp, sawTerminal, aborted, emptyPending, emptyRetry, dead, current,
                   runs, shared>>

(* Faulty variant of RunAgentRejects: no finally block.                     *)
RejectWithoutFinally(t) ==
    /\ Delivers(t, {"connecting"})
    /\ IF runFailed THEN UNCHANGED <<error, told>>
       ELSE error' = "http" /\ told' = told \cup {t}
    /\ net' = [net EXCEPT ![t] = "over"]
    /\ fate' = [fate EXCEPT ![t] = "failed"]
    /\ UNCHANGED <<isLoading, runStarted, tidyingUp, tool, refs, dead, current, runs, shared>>

(* runAgent rejects before any subscriber ran (an HTTP status, no network). *)
RunAgentRejects(t) ==
    /\ Delivers(t, {"connecting"})
    /\ IF runFailed THEN UNCHANGED <<error, told>>
       ELSE error' = "http" /\ told' = told \cup {t}
    /\ isLoading' = FALSE /\ runStarted' = FALSE
    /\ net' = [net EXCEPT ![t] = "over"]
    /\ fate' = [fate EXCEPT ![t] = "failed"]
    /\ UNCHANGED <<tidyingUp, tool, refs, dead, current, runs, shared>>
-----------------------------------------------------------------------------
Abort == net' = [net EXCEPT ![current] = IF @ \in {"connecting", "open"} THEN "expired" ELSE @]

(* The 30 s watchdog: loading, and no RUN_STARTED yet.                      *)
HangTimeout ==
    /\ isLoading /\ ~runStarted
    /\ Abort
    /\ error' = "hang" /\ isLoading' = FALSE
    /\ told' = told \cup InFlight
    /\ UNCHANGED <<runStarted, tidyingUp, tool, refs, dead, current, runs, fate, shared>>

(* Faulty variant of StallTimeout: armed like the other watchdog.           *)
StallArmedEarly ==
    /\ isLoading /\ ~runStarted
    /\ \A t \in InFlight : t \in dead \/ net[t] \notin {"connecting", "open"}
    /\ Abort
    /\ error' = "stall" /\ isLoading' = FALSE
    /\ told' = told \cup InFlight
    /\ UNCHANGED <<runStarted, tidyingUp, tool, refs, dead, current, runs, fate, shared>>

(* The 90 s watchdog: loading, started, and no stream delivers anything (a  *)
(* live one heartbeats every 20 s).                                         *)
StallTimeout ==
    /\ isLoading /\ runStarted
    /\ \A t \in InFlight : t \in dead \/ net[t] \notin {"connecting", "open"}
    /\ Abort
    /\ error' = "stall" /\ isLoading' = FALSE
    /\ told' = told \cup InFlight
    /\ UNCHANGED <<runStarted, tidyingUp, tool, refs, dead, current, runs, fate, shared>>
-----------------------------------------------------------------------------
Terminal(t) == OnRunFinishedEvent(t) \/ OnEmptyRun(t) \/ OnRunErrorEvent(t)

Next ==
    \/ ClearError \/ Stop \/ HangTimeout \/ StallTimeout
    \/ \E t \in Turns :
        \/ SendMessage(t) \/ Die(t)
        \/ OnRunStartedEvent(t) \/ OnToolCallStartEvent(t) \/ OnToolCallEndEvent(t)
        \/ OnCompactionStarted(t) \/ OnHistoryCompacted(t)
        \/ Terminal(t) \/ StreamEnd(t) \/ OnRunFailed(t) \/ RunAgentRejects(t)

(* The browser fires an armed timer and resolves a finished stream.  A live  *)
(* stream comes to its terminal or its end (AguiStream); nothing is assumed  *)
(* of a dead one, nor of the user.                                           *)
Fairness ==
    /\ WF_vars(HangTimeout) /\ WF_vars(StallTimeout)
    /\ \A t \in Turns : WF_vars(Terminal(t)) /\ WF_vars(StreamEnd(t))

Spec == Init /\ [][Next]_vars /\ Fairness
-----------------------------------------------------------------------------
ClientTypeOK ==
    /\ isLoading \in BOOLEAN /\ runStarted \in BOOLEAN /\ tidyingUp \in BOOLEAN
    /\ error \in {NoError, "run_error", "truncated", "http", "hang", "stall"}
    /\ tool \in [Turns -> {"none", "running", "success", "error"}]
    /\ sawTerminal \in BOOLEAN /\ runFailed \in BOOLEAN /\ aborted \in BOOLEAN
    /\ emptyPending \in BOOLEAN /\ emptyRetry \in 0..1
    /\ net \in [Turns -> {"off", "connecting", "open", "ended", "stopped", "expired", "over"}]
    /\ dead \subseteq Turns /\ current \in {0} \cup Turns
    /\ runs \in [Turns -> Nat]
    /\ fate \in [Turns -> {"none", "cut", "cutEarly", "ended", "stopped", "expired", "failed"}]
    /\ told \subseteq Turns /\ shared \subseteq Turns

(* The spinner is never shown without a run behind it, however the turns     *)
(* overlap: whatever sets isLoading belongs to a call of sendMessage whose   *)
(* finally block is still to come.                                           *)
SpinnerHasRun == isLoading => InFlight # {}

(* The spinner goes away by itself: by the run's end or by a watchdog, even  *)
(* when the transport dies before or after RUN_STARTED.                      *)
SpinnerClears == isLoading ~> ~isLoading

(* A turn that ran alone and whose stream was cut after RUN_STARTED has      *)
(* shown an error: the truncation guard of onRunFinalized.                   *)
CutTurnIsTold == \A t \in Turns \ shared : fate[t] = "cut" => t \in told

(* Every turn whose stream was cut, and which the user did not stop, has     *)
(* shown an error: what the NEVER SILENT comment of useSkillAgent says of    *)
(* the refs sawTerminalRef and abortedRef.                                   *)
NeverSilent == \A t \in Turns : fate[t] \in {"cut", "cutEarly"} => t \in told

(* Of a turn that ran alone, the end of the stream turns a running tool call *)
(* into a success only after a terminal event or the user's own stop.        *)
ToolSuccessIsEarned ==
    [][\A t \in Turns \ shared' :
        (tool[t] = "running" /\ tool'[t] = "success" /\ net'[t] # net[t]) =>
            net[t] \in {"ended", "stopped"}]_vars
=============================================================================
