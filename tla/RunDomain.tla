------------------------------ MODULE RunDomain ------------------------------
(***************************************************************************)
(* The status vocabulary of packages/domain: what a run and a tool call    *)
(* may be, and the transition tables that updateRunStatus and              *)
(* updateToolCallStatus consult before they write.  A row that has not     *)
(* been inserted yet has the status Absent.                                *)
(***************************************************************************)

Absent == "absent"

TerminalRunStatus == {"completed", "failed", "cancelled", "interrupted"}

OpenRunStatus == {"queued", "preparing", "running", "waiting-approval",
                  "waiting-input", "cancelling"}

RunStatus == OpenRunStatus \cup TerminalRunStatus

RunTransitions ==
    ({"queued"} \X {"preparing", "cancelling", "cancelled", "failed", "interrupted"})
    \cup ({"preparing"} \X {"running", "cancelling", "failed", "interrupted"})
    \cup ({"running"} \X {"waiting-approval", "waiting-input", "cancelling",
                          "completed", "failed", "interrupted"})
    \cup ({"waiting-approval", "waiting-input"}
            \X {"running", "cancelling", "failed", "interrupted"})
    \cup ({"cancelling"} \X {"completed", "cancelled", "failed", "interrupted"})

CanTransitionRun(from, to) == <<from, to>> \in RunTransitions

UnfinishedCallStatus == {"proposed", "awaiting-approval", "running"}

TerminalCallStatus == {"succeeded", "failed", "denied", "cancelled",
                       "effect_unknown"}

ToolCallStatus == UnfinishedCallStatus \cup TerminalCallStatus

ToolCallTransitions ==
    ({"proposed"} \X {"awaiting-approval", "running", "failed", "denied", "cancelled"})
    \cup ({"awaiting-approval"} \X {"running", "failed", "denied", "cancelled"})
    \cup ({"running"} \X {"succeeded", "failed", "cancelled", "effect_unknown"})

CanTransitionToolCall(from, to) == <<from, to>> \in ToolCallTransitions

(* The status with which #finishUncertainToolCalls closes a call that its  *)
(* run left open.                                                          *)
UncertainOutcome(s) == IF s = "running" THEN "effect_unknown" ELSE "cancelled"
==============================================================================
