---------------------------- MODULE RunContract ----------------------------
(***************************************************************************)
(* What one run of the agent promises to the chat client, whatever happens *)
(* inside: the run is open, output may be shown while it is open, and it   *)
(* is closed at most once.  "finished" promises that something was shown;  *)
(* "empty" promises that nothing was, which is what makes the client's     *)
(* automatic retry of an EMPTY_RUN safe; "failed" promises nothing.        *)
(***************************************************************************)
VARIABLES outcome, shown

Init == outcome = "open" /\ shown = FALSE

Show == outcome = "open" /\ shown' = TRUE /\ UNCHANGED outcome

Close(how) == outcome = "open" /\ outcome' = how /\ UNCHANGED shown

Next ==
    \/ Show
    \/ shown /\ Close("finished")
    \/ ~shown /\ Close("empty")
    \/ Close("failed")

Spec == Init /\ [][Next]_<<outcome, shown>>
=============================================================================
