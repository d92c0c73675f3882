----------------------------- MODULE RunCoreInv -----------------------------
(***************************************************************************)
(* The inductive invariant behind the safety properties of RunCore: what   *)
(* the place of a run's execution says about its rows, its waiter and its  *)
(* abort signal.                                                           *)
(***************************************************************************)
EXTENDS RunCore

\* The places after the run's terminal status is written.
Epilogue == {"expire", "finalize", "recover"}

\* The places from the first step up to the entry of the current call's tool.
BeforeEntry == {"prepare", "secret", "begin", "round", "stream", "turn",
                "turnStored", "call", "approvalRow", "approvalStatus",
                "awaitApproval", "decided", "verdict", "execute",
                "inputStatus", "awaitInput", "answered", "inputDone", "finish"}

\* The places an abort cannot have reached: it takes a run out of the two
\* waits for the user, and the steps that lead there from a check of the
\* signal let no handler in between.
Unaborted == {"approvalRow", "approvalStatus", "awaitApproval", "decided",
              "verdict", "execute", "inputStatus", "awaitInput", "answered",
              "inputDone"}

\* The places inside the loop over a turn's calls.
InCalls == Unaborted \cup {"call", "executing", "report", "inputAborted"}

\* Where a host executes nothing, no run is anywhere.
PlaceOfHost ==
    /\ host = "down" => \A r \in Runs : pc[r] = "none"
    /\ host = "recovering" => \A r \in Runs : pc[r] \in {"none", "recover"}
    /\ \A r \in Runs : pc[r] = "recover" => host = "recovering" /\ r \in recovering
    /\ \A r \in recovering : status[r] \in TerminalRunStatus

\* A run is open while it executes and has ended in its epilogue; the open
\* runs of a live host all execute.
StatusOfPlace ==
    \A r \in Runs :
        /\ r \in active <=> pc[r] \notin {"none", "recover"}
        /\ pc[r] \notin Epilogue \cup {"none"} => status[r] \in OpenRunStatus
        /\ pc[r] \in Epilogue => status[r] \in TerminalRunStatus
        /\ host # "down" /\ pc[r] = "none" => status[r] \notin OpenRunStatus

\* The registered waiters are those of the runs that stand at the wait.
WaiterOfPlace ==
    \A r \in Runs :
        /\ waiter[r] = "approval" <=> pc[r] = "awaitApproval"
        /\ waiter[r] = "input" <=> pc[r] = "awaitInput"

AbortOfPlace ==
    \A r \in Runs :
        /\ pc[r] \in Unaborted \cup {"none", "recover"} => abort[r] = "no"
        /\ host # "down" /\ status[r] = "cancelling" => abort[r] # "no"

\* The calls of a turn are worked off in order, and no call beyond the
\* current one has been entered.
CallsOfPlace ==
    \A r \in Runs :
        /\ cur[r] <= last[r] + 1
        /\ pc[r] \in InCalls => rounds[r] < MaxToolRounds
        /\ pc[r] \in InCalls \ {"call"} => cur[r] <= last[r]
        /\ pc[r] \in BeforeEntry => \A k \in executed[r] : k < cur[r]
        /\ pc[r] \in {"executing", "report"} => \A k \in executed[r] : k <= cur[r]
        /\ status[r] = Absent => executed[r] = {} /\ pc[r] = "none"

\* On the way to a tool's entry, the grant it needs is there.
GrantOfPlace ==
    \A r \in Runs :
        /\ pc[r] \in {"approvalRow", "approvalStatus", "awaitApproval", "decided", "verdict"}
            => Kind(r) = "ask"
        /\ pc[r] \in {"decided", "verdict"} => approval[r][cur[r]] \in {"approved", "denied"}
        /\ pc[r] = "execute" =>
            \/ Kind(r) = "allow"
            \/ Kind(r) = "ask" /\ approval[r][cur[r]] = "approved"

\* Whatever the order of requests, answers, aborts and crashes, the place of
\* every run agrees with its rows, its waiter, its signal and its calls.
IInv ==
    /\ TypeOK
    /\ PlaceOfHost
    /\ StatusOfPlace
    /\ WaiterOfPlace
    /\ AbortOfPlace
    /\ CallsOfPlace
    /\ GrantOfPlace
    /\ OneOpenRunPerConversation
    /\ ExecutionIsAuthorised
==============================================================================
