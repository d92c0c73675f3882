------------------------------ MODULE RunRowsInv ------------------------------
(***************************************************************************)
(* What the place of a run says of each of its rows: from it follow the    *)
(* transitions of the rows, the prompts and the checkpoints of RunCore.    *)
(***************************************************************************)
EXTENDS RunLedgerInv

\* The places at which a run is called running although it may be aborted.
Working == {"round", "stream", "turn", "turnStored", "call", "executing", "report",
            "finish"}

\* The status of the row, up to the catch.
RowOfPlace ==
    \A r \in Runs :
        /\ pc[r] = "prepare" => status[r] = "queued"
        /\ pc[r] = "secret" => status[r] \in {"preparing", "cancelling"}
        /\ pc[r] = "begin" => status[r] = "preparing"
        /\ pc[r] \in Working => status[r] \in {"running", "cancelling"}
        /\ pc[r] \in {"approvalRow", "approvalStatus", "verdict", "execute",
                      "inputStatus", "inputDone"} => status[r] = "running"
        /\ pc[r] \in {"awaitApproval", "decided"} => status[r] = "waiting-approval"
        /\ pc[r] \in {"awaitInput", "answered"} => status[r] = "waiting-input"

\* The status of the calls: those ahead are proposed, the current one is at
\* its place, and there is none that was not stored.
CallOfPlace ==
    \A r \in Runs, k \in Calls :
        /\ pc[r] \in {"none", "recover"} => last[r] = 0
        /\ status[r] = Absent \/ (r \in active /\ k > last[r]) => callStatus[r][k] = Absent
        /\ /\ k <= last[r]
           /\ \/ k > cur[r] /\ pc[r] \in InCalls
              \/ k >= cur[r] /\ pc[r] \in BeforeApproval \ {"approvalRow"}
           => callStatus[r][k] = "proposed"
        /\ k = cur[r] /\ pc[r] \in {"approvalRow", "approvalStatus", "awaitApproval",
                                    "decided", "verdict"}
           => callStatus[r][k] = "awaiting-approval"
        /\ k = cur[r] /\ pc[r] \in {"execute", "executing", "inputStatus", "awaitInput",
                                    "answered", "inputDone", "inputAborted"}
           => callStatus[r][k] = "running"
        /\ k = cur[r] /\ pc[r] \in {"approvalStatus", "awaitApproval"}
           => approval[r][k] = "pending"

\* Text is in a message where its checkpoint is about to go.
TextOfPlace ==
    \A r \in Runs :
        /\ pc[r] = "turnStored" => kept[r]
        /\ pc[r] = "caughtStored" /\ partial[r] => kept[r]

RowsInv == RowOfPlace /\ CallOfPlace /\ TextOfPlace
==============================================================================
