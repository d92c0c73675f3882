------------------------------- MODULE RunEndInv -------------------------------
(***************************************************************************)
(* How the calls of a run end: what the place of a run says of its running *)
(* call and of the results, and, when a host dies between handlers only,   *)
(* that a settled run leaves nothing open or untold.                       *)
(***************************************************************************)
EXTENDS RunRowsInv

\* The places at which the current call is running.
Running == {"execute", "executing", "inputStatus", "awaitInput", "answered",
            "inputDone", "inputAborted"}

\* Only a starting host has runs to recover.
RecoveringOfHost == recovering # {} => host = "recovering"

\* A run has one running call at most, which stays the current one until it is
\* closed: no end of a run ever finds a running call.
RunningOfPlace ==
    \A r \in active, k \in Calls :
        callStatus[r][k] = "running" => k = cur[r] /\ pc[r] \in Running

\* What is reported is closed, what is not closed has no result, and the calls
\* that the end of a run closed itself did not return.
ResultOfCall ==
    \A r \in Runs, k \in Calls :
        /\ callStatus[r][k] \in UnfinishedCallStatus \cup {Absent} => result[r][k] = Absent
        /\ pc[r] = "report" /\ k = cur[r] =>
            callStatus[r][k] \in {"denied", "failed", "succeeded", "cancelled"}
        /\ k \in finished[r] => /\ pc[r] \in {"finalize", "recover"}
                               /\ callStatus[r][k] \in {"cancelled", "effect_unknown"}

\* The database never understates what was executed, whenever the host dies.
ExecutionIsRecorded ==
    \A r \in Runs : \A k \in executed[r] :
        callStatus[r][k] \in {"running", "succeeded", "failed", "cancelled", "effect_unknown"}

EndInv ==
    /\ RecoveringOfHost
    /\ RunningOfPlace
    /\ ResultOfCall
    /\ ExecutionIsRecorded

\* A run that has ended and is not about to be recovered has no open call.
ClosedRuns ==
    \A r \in Runs :
        status[r] \in TerminalRunStatus /\ pc[r] = "none" /\ r \notin recovering
            => Unfinished(r) = {}

\* A call that returned is reported in its run's next step, and one whose
\* effect is unknown before its run is recovered.
ReportedCalls ==
    \A r \in Runs, k \in Calls :
        /\ callStatus[r][k] \in {"succeeded", "failed"} =>
            result[r][k] = "actual" \/ (pc[r] = "report" /\ k = cur[r])
        /\ callStatus[r][k] = "effect_unknown" =>
            \/ result[r][k] = "unknown"
            \/ result[r][k] = Absent /\ pc[r] = "recover" /\ k \in finished[r]

\* Holds when every crash falls between two handlers of a host that serves.
SettledInv == ClosedRuns /\ ReportedCalls
==============================================================================
