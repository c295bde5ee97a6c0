----------------------------- MODULE Compaction -----------------------------
(***************************************************************************)
(* How the history of one session is replaced by summaries. A turn that    *)
(* leaves too much history behind is followed by a live compaction         *)
(* (adk/compaction_summarizer.py): its summary claims a range of events    *)
(* that the model will not see again. A task, delivered at least once,     *)
(* later re-derives the claimed span from the raw events and appends a     *)
(* compaction that supersedes it (adk/compaction_second_pass.py,           *)
(* internal_tasks/); an administrator can run the same pass by hand.       *)
(*                                                                         *)
(* Events are numbered by their timestamps. A summary is the set of raw    *)
(* events whose content it was derived from, directly or through the       *)
(* summary it continues.                                                   *)
(***************************************************************************)
EXTENDS Integers, Sequences, FiniteSets, FiniteSetsExt

CONSTANTS
    MaxSessionEvents,   \* bound: events of the session
    MaxCompactions,     \* bound: compactions of the session
    Retention,          \* event_retention_size
    ModelWindow,        \* context window of the model, in events
    RoutineThreshold,   \* token_threshold of the model's family
    TaskWorkers         \* requests that run a second pass

ASSUME CompactionAssumption ==
    /\ MaxSessionEvents \in Nat /\ MaxCompactions \in Nat /\ Retention \in Nat
    /\ ModelWindow \in Nat /\ RoutineThreshold \in Nat

VARIABLES
    events,         \* raw events so far
    unanswered,     \* function calls among them that have no response
    comps,          \* compactions, in the order they were appended
    tuning,         \* CompactionSettings the administrator stored
    live,           \* the live compaction that is summarising, or "idle"
    queue,          \* per live compaction (by its end): its task
    pass            \* per worker: the second pass it runs

compactionVars == <<events, unanswered, comps, tuning, live, queue, pass>>

NoThreshold == MaxSessionEvents + 1     \* token_threshold None: the trigger never fires

CompactionInit ==
    /\ events = 0 /\ unanswered = {} /\ comps = <<>>
    /\ tuning = [on |-> TRUE, threshold |-> 0, second |-> TRUE]
    /\ live = [op |-> "idle"]
    /\ queue = [n \in 1..MaxSessionEvents |-> "none"]
    /\ pass = [w \in TaskWorkers |-> [op |-> "idle"]]
-----------------------------------------------------------------------------
(* What the runner shows the model (google.adk): compactions that no other  *)
(* one contains, and the raw events outside of them.                        *)
Covers(c, d) == c.from <= d.from /\ d.to <= c.to
Effective(list) ==
    {i \in DOMAIN list : ~\E j \in DOMAIN list \ {i} :
        Covers(list[j], list[i]) /\ (~Covers(list[i], list[j]) \/ j > i)}
Latest(list) == list[CHOOSE i \in Effective(list) : \A j \in Effective(list) : list[j].to <= list[i].to]
LatestEnd(list) == IF list = <<>> THEN 0 ELSE Latest(list).to

(* apply_threshold_overrides: a stored threshold replaces the coded one.     *)
ApplyThresholdOverrides(threshold) ==
    IF tuning.threshold = 0 THEN threshold ELSE tuning.threshold

(* get_compaction_config, and the switch in build_agui_agent: the trigger    *)
(* after a turn.                                                             *)
PostInvocationThreshold ==
    IF tuning.on THEN ApplyThresholdOverrides(RoutineThreshold) ELSE NoThreshold

(* emergency_compaction_config: four fifths of the window, never below the   *)
(* routine threshold.                                                        *)
Emergency(threshold) ==
    LET line == (ModelWindow * 4) \div 5
    IN  IF line <= threshold THEN threshold ELSE line

(* _demote_pre_request_compaction: the trigger before a model call.          *)
PreRequestThreshold ==
    IF tuning.on THEN Emergency(ApplyThresholdOverrides(RoutineThreshold)) ELSE NoThreshold

(* _events_to_compact_for_token_threshold (google.adk): what follows the     *)
(* latest compaction, but for the retained tail and everything from the      *)
(* first unanswered call on.                                                 *)
Selected ==
    LET first == LatestEnd(comps) + 1
        stop == Min({events - Retention} \cup {u - 1 : u \in unanswered})
    IN  first..stop
Uncompacted == events - LatestEnd(comps)
-----------------------------------------------------------------------------
(* A turn appends its events; one may be a call that waits for its answer.   *)
SessionTurn ==
    /\ events < MaxSessionEvents
    /\ events' = events + 1
    /\ \/ unanswered' = unanswered \cup {events + 1}
       \/ unanswered' = {}
    /\ UNCHANGED <<comps, tuning, live, queue, pass>>

(* maybe_summarize_events, up to the model call: before a request or after   *)
(* the turn.                                                                 *)
LiveBegins ==
    /\ live.op = "idle"
    /\ Uncompacted >= PostInvocationThreshold \/ Uncompacted >= PreRequestThreshold
    /\ Selected # {}
    /\ live' = [op |-> "summarising",
                from |-> IF comps = <<>> THEN Min(Selected) ELSE Latest(comps).from,
                to |-> Max(Selected),
                facts |-> Selected \cup (IF comps = <<>> THEN {} ELSE Latest(comps).facts)]
    /\ UNCHANGED <<events, unanswered, comps, tuning, queue, pass>>

(* schedule_second_pass: one task per live compaction, named after its end;  *)
(* fail-soft, so the task may not come to be. A second pass drives the same  *)
(* summariser and never schedules.                                           *)
ScheduleSecondPass(end, inSecondPass) ==
    \/ UNCHANGED queue
    \/ /\ tuning.second /\ ~inSecondPass
       /\ queue[end] = "none"
       /\ queue' = [queue EXCEPT ![end] = "queued"]

(* maybe_summarize_events, from the answer on: declined, or appended and the *)
(* second pass scheduled.                                                    *)
LiveEnds ==
    /\ live.op = "summarising"
    /\ live' = [op |-> "idle"]
    /\ \/ UNCHANGED <<comps, queue>>
       \/ /\ Len(comps) < MaxCompactions
          /\ comps' = Append(comps, [from |-> live.from, to |-> live.to, facts |-> live.facts,
                                     second |-> FALSE, task |-> 0])
          /\ ScheduleSecondPass(live.to, FALSE)
    /\ UNCHANGED <<events, unanswered, tuning, pass>>

(* PUT of the compaction settings.                                           *)
Tune ==
    /\ \E on \in BOOLEAN, second \in BOOLEAN, t \in {0, RoutineThreshold + 1} :
           tuning' = [on |-> on, threshold |-> t, second |-> second]
    /\ tuning' # tuning
    /\ UNCHANGED <<events, unanswered, comps, live, queue, pass>>
-----------------------------------------------------------------------------

(* Faulty variant of SelectRange: the range is cut one event early.         *)
SelectRangeShort ==
    LET end == Max({comps[i].to : i \in DOMAIN comps})
        raw == 1..(end - 1)
    IN  IF comps = <<>> \/ unanswered \cap raw # {} THEN {} ELSE raw

(* _select_range: the union of the claimed ranges, all of its raw events;    *)
(* empty when a call in the span is unanswered, or nothing was claimed.      *)
SelectRange ==
    LET end == Max({comps[i].to : i \in DOMAIN comps})
        raw == 1..end
    IN  IF comps = <<>> \/ unanswered \cap raw # {} THEN {} ELSE raw

ClaimedEnd == Max({comps[i].to : i \in DOMAIN comps})

(* run_second_pass up to the model call, on the session as loaded. end = 0:  *)
(* run by hand, without the two guards of a task.                            *)
BeginPass(w, end, dry) ==
    LET stale == end > 0 /\ LatestEnd(comps) > end
        done == end > 0 /\ comps # <<>> /\ Latest(comps).second
    IN  IF stale \/ done \/ SelectRange = {}
        THEN pass' = [pass EXCEPT ![w] = [op |-> "noop", task |-> end]]
        ELSE pass' = [pass EXCEPT ![w] =
                 [op |-> "summarising", task |-> end, dry |-> dry, to |-> ClaimedEnd, facts |-> SelectRange]]

(* recompact of internal_tasks: a delivery by the queue. The task stays in   *)
(* the queue until it is answered, and may be delivered again meanwhile.     *)
Deliver(w, end) ==
    /\ pass[w].op = "idle" /\ queue[end] = "queued"
    /\ \/ /\ tuning.second
          /\ BeginPass(w, end, FALSE)
       \/ UNCHANGED pass     \* flag off (404), unreadable session or no model (503): delivered again
    /\ UNCHANGED <<events, unanswered, comps, tuning, live, queue>>

(* recompact of the administrator: at once, as a dry run, or through the     *)
(* queue with no delay.                                                      *)
AdminRecompact(w) ==
    /\ pass[w].op = "idle"
    /\ \/ \E dry \in BOOLEAN : BeginPass(w, 0, dry) /\ UNCHANGED queue
       \/ comps # <<>> /\ ScheduleSecondPass(Latest(comps).to, FALSE) /\ UNCHANGED pass
    /\ UNCHANGED <<events, unanswered, comps, tuning, live>>

(* The answer to the queue: a 2xx removes the task.                          *)
Answered(end) == IF end = 0 THEN queue ELSE [queue EXCEPT ![end] = "done"]

(* Nothing to do: stale, already second-passed, or nothing to improve.       *)
PassIsNoop(w) ==
    /\ pass[w].op = "noop"
    /\ queue' = Answered(pass[w].task)
    /\ pass' = [pass EXCEPT ![w] = [op |-> "idle"]]
    /\ UNCHANGED <<events, unanswered, comps, tuning, live>>

(* The summariser declined or raised: 503, the queue retries.                *)
PassDeclined(w) ==
    /\ pass[w].op = "summarising"
    /\ pass' = [pass EXCEPT ![w] = [op |-> "idle"]]
    /\ UNCHANGED <<events, unanswered, comps, tuning, live, queue>>

(* The rest of run_second_pass: the event claims the union range and carries *)
(* the marker; append_event is the last statement.                           *)
PassAppends(w) ==
    /\ pass[w].op = "summarising"
    /\ \/ pass[w].dry /\ UNCHANGED comps
       \/ /\ ~pass[w].dry /\ Len(comps) < MaxCompactions
          /\ comps' = Append(comps, [from |-> 1, to |-> pass[w].to, facts |-> pass[w].facts,
                                     second |-> TRUE, task |-> pass[w].task])
    /\ queue' = Answered(pass[w].task)
    /\ pass' = [pass EXCEPT ![w] = [op |-> "idle"]]
    /\ UNCHANGED <<events, unanswered, tuning, live>>

CompactionNext ==
    \/ SessionTurn \/ LiveBegins \/ LiveEnds \/ Tune
    \/ \E w \in TaskWorkers :
           \/ \E end \in 1..MaxSessionEvents : Deliver(w, end)
           \/ AdminRecompact(w) \/ PassIsNoop(w) \/ PassDeclined(w) \/ PassAppends(w)

CompactionSpec == CompactionInit /\ [][CompactionNext]_compactionVars
-----------------------------------------------------------------------------
CompactionTypeOK ==
    /\ events \in 0..MaxSessionEvents /\ unanswered \subseteq 1..events
    /\ \A i \in DOMAIN comps : comps[i].from \in 1..events /\ comps[i].to \in comps[i].from..events

(* Nothing that was said is lost to the model: every event is shown raw or   *)
(* is part of a summary the model sees. A summary that claims a range        *)
(* replaces it for good, so a claim wider than what was summarised loses the *)
(* difference (FIDELITY_PROMPT_TEMPLATE, _select_range), with live           *)
(* compactions, deliveries and passes by hand in any order.                  *)
NothingForgotten ==
    \A e \in 1..events :
        \/ \A i \in Effective(comps) : e \notin comps[i].from..comps[i].to
        \/ \E i \in Effective(comps) : e \in comps[i].facts
=============================================================================
