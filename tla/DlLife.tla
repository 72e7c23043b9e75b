------------------------------- MODULE DlLife -------------------------------
(***************************************************************************)
(* The life of a download task as the reporter, the host and the sink see  *)
(* it: what any worker and any caller of cancel may do to it.  DlTask      *)
(* implements it with everything a worker does, DlManager for every task   *)
(* of a manager with its queue and its callers.                            *)
(***************************************************************************)
Ended  == {"Done", "Failed", "Canceled"}
States == {"Pending", "Running", "Verifying"} \cup Ended
Errors == {"Ok", "UnsupportedRange", "SizeMismatch", "CrcMismatch", "Network",
           "Timeout", "Canceled"}

VARIABLES
    state,      (* TaskShared.state                                        *)
    err,        (* TaskShared.err                                          *)
    sink        (* Closed until prepare, Open until finish or abort        *)

vars == <<state, err, sink>>

Init == state = "Pending" /\ err = "Ok" /\ sink = "Closed"

Take == state = "Pending" /\ err = "Ok" /\ state' = "Running" /\ UNCHANGED <<err, sink>>

Prepare ==
    /\ state = "Running" /\ sink = "Closed" /\ err = "Ok"
    /\ sink' = "Open" /\ UNCHANGED <<state, err>>

Verify ==
    /\ state = "Running" /\ sink = "Open"
    /\ state' = "Verifying" /\ UNCHANGED <<err, sink>>

Finish == sink = "Open" /\ sink' = "Finished" /\ UNCHANGED <<state, err>>

\* The sink is aborted before the error is shown; a task that was never taken, or
\* whose sink is gone, has none to abort.
GiveUp ==
    /\ state \notin Ended /\ sink \in {"Closed", "Open"} /\ err = "Ok"
    /\ err' \in Errors \ {"Ok"}
    /\ state = "Pending" => err' = "Canceled"
    /\ sink' = "Aborted" \/ (sink = "Closed" /\ sink' = sink)
    /\ UNCHANGED state

\* The state is the last thing to change.
End ==
    /\ state \notin Ended /\ sink # "Open"
    /\ \/ sink = "Finished" /\ state' = "Done"
       \/ err = "Canceled" /\ state' = "Canceled"
       \/ err \notin {"Ok", "Canceled"} /\ state' = "Failed"
    /\ UNCHANGED <<err, sink>>

Next == Take \/ Prepare \/ Verify \/ Finish \/ GiveUp \/ End

Spec == Init /\ [][Next]_vars

-----------------------------------------------------------------------------
\* What a terminal state tells whoever sees it: the sink is no longer used, and
\* the error goes with the state.
EndTells ==
    state \in Ended =>
        /\ sink # "Open"
        /\ state = "Done" <=> sink = "Finished"
        /\ state = "Done" <=> err = "Ok"
        /\ state = "Canceled" <=> err = "Canceled"
=============================================================================
