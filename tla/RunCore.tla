------------------------------- MODULE RunCore -------------------------------
(***************************************************************************)
(* The life of a native run: ScopeGuardApplication, NativeAgentRuntime and *)
(* the SQLite store in one Agent-host process that may crash, shut down    *)
(* and start again.                                                        *)
(*                                                                         *)
(* The host is one JavaScript thread.  A handler, or the continuation that *)
(* an I/O event resumes, runs to its next wait for I/O before any other    *)
(* handler does: pc[r] names where run r is, the labels of AwaitPoints are *)
(* those waits, and while some run is anywhere else the thread is Busy.    *)
(* Each SQLite statement commits by itself, so a stretch between two waits *)
(* is cut into one action per commit, and a crash may fall between them.   *)
(*                                                                         *)
(* A definition named after another one with a suffix, such as             *)
(* MayStart_IgnoresCancelling, is that code with a plausible bug in it.    *)
(* Next never reaches it: it shows which property would notice.            *)
(*                                                                         *)
(* Left out: the text of messages, run events and progress events, request *)
(* manifests and usage rows, and a store that fails to write.              *)
(***************************************************************************)
EXTENDS Naturals, FiniteSets, RunDomain

CONSTANTS
    Runs,            \* the run ids the program will ever draw
    Conversations,   \* the conversations of the workspace
    ConversationOf,  \* the conversation a run id will be used for
    MaxCalls,        \* bound: tool calls one run may propose
    MaxToolRounds,   \* maxToolRounds of the runtime (12 in the code)
    CallKinds,       \* what the tool calls of the model may be
    CrashPoints      \* where the host may crash: "await", "sync", "recovery"

ASSUME RunCoreAssumption ==
    /\ ConversationOf \in [Runs -> Conversations]
    /\ MaxCalls \in Nat
    /\ MaxToolRounds \in Nat
    /\ CallKinds \subseteq {"ask", "allow", "deny", "unavailable", "input"}
    /\ CrashPoints \subseteq {"await", "sync", "recovery"}

Calls == 1..MaxCalls

VARIABLES
    \* rows of the database
    status,     \* runs.status
    kind,       \* what tool_calls.name and the policy snapshot make of a call
    callStatus, \* tool_calls.status
    approval,   \* tool_approvals.status of the call's approval
    result,     \* the tool-result message of a call, by what it reports
    partial,    \* is there a run_partials row
    kept,       \* is the text streamed last part of a message
    \* memory of the host process
    active,     \* keys of #activeRuns
    pc,         \* where the run's execution is
    cur,        \* the call the runtime looks at (calls of a run in order)
    last,       \* the last call the run has stored
    rounds,     \* toolRound
    abort,      \* the run's AbortController: the reason it was aborted with
    waiter,     \* the run's entry in ApprovalWaiters or InputWaiters
    finished,   \* the calls that #finishUncertainToolCalls has returned
    host,       \* the Agent-host process
    closing,    \* the runs application.shutdown waits for
    recovering, \* the interrupted runs initialize has still to visit
    \* history
    executed    \* the calls whose tool.execute was entered

calls   == <<kind, callStatus, approval, result>>
text    == <<partial, kept>>
place   == <<cur, last, rounds>>
control == <<active, abort, waiter, finished>>
process == <<host, closing, recovering>>
vars    == <<status, calls, text, pc, place, control, process, executed>>

AwaitPoints == {"none", "secret", "stream", "awaitApproval", "awaitInput",
                "executing"}

SyncPoints == {"prepare", "begin", "round", "turn", "turnStored", "call",
               "approvalRow", "approvalStatus", "decided", "verdict",
               "inputStatus", "answered", "inputDone", "inputAborted",
               "execute", "report", "finish", "caught", "caughtStored",
               "ending", "expire", "finalize", "recover"}

\* Every variable keeps its shape; of these, the bounds of cur, last and
\* rounds are the ones an error in the loops of the runtime would break.
TypeOK ==
    /\ status \in [Runs -> RunStatus \cup {Absent}]
    /\ kind \in [Runs -> [Calls -> CallKinds \cup {Absent}]]
    /\ callStatus \in [Runs -> [Calls -> ToolCallStatus \cup {Absent}]]
    /\ approval \in [Runs -> [Calls -> {Absent, "pending", "approved", "denied", "expired"}]]
    /\ result \in [Runs -> [Calls -> {Absent, "actual", "cancelled", "unknown"}]]
    /\ partial \in [Runs -> BOOLEAN]
    /\ kept \in [Runs -> BOOLEAN]
    /\ active \in SUBSET Runs
    /\ pc \in [Runs -> AwaitPoints \cup SyncPoints]
    /\ cur \in [Runs -> 1..(MaxCalls + 1)]
    /\ last \in [Runs -> 0..MaxCalls]
    /\ rounds \in [Runs -> 0..MaxToolRounds]
    /\ abort \in [Runs -> {"no", "user", "shutdown"}]
    /\ waiter \in [Runs -> {"none", "approval", "input"}]
    /\ finished \in [Runs -> SUBSET Calls]
    /\ host \in {"down", "recovering", "up", "closing"}
    /\ closing \in SUBSET Runs
    /\ recovering \in SUBSET Runs
    /\ executed \in [Runs -> SUBSET Calls]

Init ==
    /\ status = [r \in Runs |-> Absent]
    /\ kind = [r \in Runs |-> [k \in Calls |-> Absent]]
    /\ callStatus = [r \in Runs |-> [k \in Calls |-> Absent]]
    /\ approval = [r \in Runs |-> [k \in Calls |-> Absent]]
    /\ result = [r \in Runs |-> [k \in Calls |-> Absent]]
    /\ partial = [r \in Runs |-> FALSE]
    /\ kept = [r \in Runs |-> FALSE]
    /\ active = {}
    /\ pc = [r \in Runs |-> "none"]
    /\ cur = [r \in Runs |-> 1]
    /\ last = [r \in Runs |-> 0]
    /\ rounds = [r \in Runs |-> 0]
    /\ abort = [r \in Runs |-> "no"]
    /\ waiter = [r \in Runs |-> "none"]
    /\ finished = [r \in Runs |-> {}]
    /\ host = "down"
    /\ closing = {}
    /\ recovering = {}
    /\ executed = [r \in Runs |-> {}]

------------------------------------------------------------------------------
Busy == \E r \in Runs : pc[r] \in SyncPoints

\* The host takes requests once initialize has returned, and goes on taking
\* them while a shutdown waits for its runs.
Serving == host \in {"up", "closing"} /\ ~Busy

OpenRuns == {r \in Runs : status[r] \in OpenRunStatus}
Aborted(r) == abort[r] # "no"
Unfinished(r) == {k \in Calls : callStatus[r][k] \in UnfinishedCallStatus}
Kind(r) == kind[r][cur[r]]

Goto(r, label) == pc' = [pc EXCEPT ![r] = label]
SetStatus(r, s) == status' = [status EXCEPT ![r] = s]
SetCall(r, k, s) == callStatus' = [callStatus EXCEPT ![r][k] = s]

\* throwIfAborted: the catch of #executeNativeRun if the signal is aborted.
UnlessAborted_NotChecked(r, label) == label
UnlessAborted(r, label) == IF Aborted(r) THEN "caught" ELSE label

------------------------------------------------------------------------------
(* Requests of the renderer.                                               *)

\* A conversation takes a new run when the store lists no open run for it.
MayStart_IgnoresCancelling(r) ==
    \A s \in OpenRuns : status[s] # "cancelling" => ConversationOf[s] # ConversationOf[r]
MayStart(r) == \A s \in OpenRuns : ConversationOf[s] # ConversationOf[r]

StartRun(r) ==
    /\ Serving
    /\ status[r] = Absent
    /\ MayStart(r)
    /\ SetStatus(r, "queued")
    /\ active' = active \cup {r}
    /\ Goto(r, "prepare")
    /\ UNCHANGED <<calls, text, place, abort, waiter, finished, process, executed>>

\* startRun on a conversation whose run waits for input is the answer.
ProvideRunInput(r) ==
    /\ Serving
    /\ status[r] = "waiting-input"
    /\ waiter[r] = "input"
    /\ waiter' = [waiter EXCEPT ![r] = "none"]
    /\ Goto(r, "answered")
    /\ UNCHANGED <<status, calls, text, place, active, abort, finished, process,
                   executed>>

\* What an abort does to a run: only its first reason counts, its waiter is
\* rejected, and the continuation of the rejected wait runs next.
AbortRuns_LeavesInput(S, reason) ==
    /\ abort' = [r \in Runs |->
                    IF r \in S /\ ~Aborted(r) THEN reason ELSE abort[r]]
    /\ waiter' = [r \in Runs |->
                    IF r \in S /\ waiter[r] = "approval" THEN "none" ELSE waiter[r]]
    /\ pc' = [r \in Runs |->
                IF r \in S /\ waiter[r] = "approval" THEN "caught" ELSE pc[r]]
AbortRuns(S, reason) ==
    /\ abort' = [r \in Runs |->
                    IF r \in S /\ ~Aborted(r) THEN reason ELSE abort[r]]
    /\ waiter' = [r \in Runs |-> IF r \in S THEN "none" ELSE waiter[r]]
    /\ pc' = [r \in Runs |->
                CASE r \in S /\ waiter[r] = "approval" -> "caught"
                  [] r \in S /\ waiter[r] = "input"    -> "inputAborted"
                  [] OTHER                             -> pc[r]]

CancelRun(r) ==
    /\ Serving
    /\ r \in active
    /\ status' = [status EXCEPT ![r] =
                    IF CanTransitionRun(@, "cancelling") THEN "cancelling" ELSE @]
    /\ AbortRuns({r}, "user")
    /\ UNCHANGED <<calls, text, place, active, finished, process, executed>>

ResolveApproval_NobodyTold(r, k, decision) ==
    /\ Serving
    /\ approval[r][k] = "pending"
    /\ approval' = [approval EXCEPT ![r][k] = decision]
    /\ UNCHANGED <<status, kind, callStatus, result, text, pc, place, control,
                   process, executed>>

ResolveApproval(r, k, decision) ==
    /\ Serving
    /\ approval[r][k] = "pending"
    /\ approval' = [approval EXCEPT ![r][k] = decision]
    /\ IF waiter[r] = "approval" /\ cur[r] = k
         THEN /\ waiter' = [waiter EXCEPT ![r] = "none"]
              /\ Goto(r, "decided")
         ELSE UNCHANGED <<waiter, pc>>
    /\ UNCHANGED <<status, kind, callStatus, result, text, place, active, abort,
                   finished, process, executed>>

------------------------------------------------------------------------------
(* #executeNativeRun up to the first request to the provider.              *)

Prepare(r) ==
    /\ pc[r] = "prepare"
    /\ SetStatus(r, "preparing")
    /\ Goto(r, "secret")
    /\ UNCHANGED <<calls, text, place, control, process, executed>>

\* The main process answers the request for the API key, or it fails.
SecretArrives(r, found) ==
    /\ ~Busy
    /\ pc[r] = "secret"
    /\ Goto(r, IF found THEN UnlessAborted(r, "begin") ELSE "caught")
    /\ UNCHANGED <<status, calls, text, place, control, process, executed>>

Begin(r) ==
    /\ pc[r] = "begin"
    /\ SetStatus(r, "running")
    /\ Goto(r, "round")
    /\ UNCHANGED <<calls, text, place, control, process, executed>>

------------------------------------------------------------------------------
(* One round of the runtime: a streamed turn of the provider.              *)

RequestTurn(r) ==
    /\ pc[r] = "round"
    /\ Goto(r, UnlessAborted(r, "stream"))
    /\ UNCHANGED <<status, calls, text, place, control, process, executed>>

\* The first delta of a turn is checkpointed at once, later ones from time
\* to time; a delta that arrives after the abort is a failure of the stream.
TextDelta(r) ==
    /\ ~Busy
    /\ pc[r] = "stream"
    /\ ~Aborted(r)
    /\ partial' = [partial EXCEPT ![r] = TRUE]
    /\ kept' = [kept EXCEPT ![r] = FALSE]
    /\ UNCHANGED <<status, calls, pc, place, control, process, executed>>

\* The provider, a tool's description or the signal throws.
StreamFails(r) ==
    /\ ~Busy
    /\ pc[r] = "stream"
    /\ Goto(r, "caught")
    /\ UNCHANGED <<status, calls, text, place, control, process, executed>>

\* The stream ends by itself.  Nothing looks at the signal here.
TurnEnds(r) ==
    /\ ~Busy
    /\ pc[r] = "stream"
    /\ Goto(r, "turn")
    /\ UNCHANGED <<status, calls, text, place, control, process, executed>>

CreateToolCall(r, knd) ==
    /\ pc[r] = "turn"
    /\ last[r] < MaxCalls
    /\ last' = [last EXCEPT ![r] = @ + 1]
    /\ kind' = [kind EXCEPT ![r][last[r] + 1] = knd]
    /\ SetCall(r, last[r] + 1, "proposed")
    /\ UNCHANGED <<status, approval, result, text, pc, cur, rounds, control,
                   process, executed>>

AppendAssistantTurn(r) ==
    /\ pc[r] = "turn"
    /\ kept' = [kept EXCEPT ![r] = TRUE]
    /\ Goto(r, "turnStored")
    /\ UNCHANGED <<status, calls, partial, place, control, process, executed>>

\* A turn without calls is the answer, one with calls in the last round is
\* an error.
AfterTurn_NoLimit(r) == IF last[r] < cur[r] THEN "finish" ELSE "call"
AfterTurn(r) ==
    IF last[r] < cur[r] THEN "finish"
    ELSE IF rounds[r] = MaxToolRounds THEN "caught" ELSE "call"

\* clearRunPartial, and on.
TurnStored(r) ==
    /\ pc[r] = "turnStored"
    /\ partial' = [partial EXCEPT ![r] = FALSE]
    /\ Goto(r, AfterTurn(r))
    /\ UNCHANGED <<status, calls, kept, place, control, process, executed>>

------------------------------------------------------------------------------
(* The calls of the turn, one after the other.                             *)

AtCall_SignalIgnored(r) == pc[r] = "call" /\ cur[r] <= last[r]
AtCall(r) == pc[r] = "call" /\ cur[r] <= last[r] /\ ~Aborted(r)

NextRound(r) ==
    /\ pc[r] = "call"
    /\ cur[r] > last[r]
    /\ rounds' = [rounds EXCEPT ![r] = @ + 1]
    /\ Goto(r, "round")
    /\ UNCHANGED <<status, calls, text, cur, last, control, process, executed>>

AbandonCalls(r) ==
    /\ pc[r] = "call"
    /\ cur[r] <= last[r]
    /\ Aborted(r)
    /\ Goto(r, "caught")
    /\ UNCHANGED <<status, calls, text, place, control, process, executed>>

\* A tool that is not registered (or a request for input without a
\* question), and a tool that the policy denies.
RejectCall(r) ==
    /\ AtCall(r)
    /\ Kind(r) \in {"unavailable", "deny"}
    /\ SetCall(r, cur[r], IF Kind(r) = "deny" THEN "denied" ELSE "failed")
    /\ Goto(r, "report")
    /\ UNCHANGED <<status, kind, approval, result, text, place, control, process,
                   executed>>

AskApproval(r) ==
    /\ AtCall(r)
    /\ Kind(r) = "ask"
    /\ SetCall(r, cur[r], "awaiting-approval")
    /\ Goto(r, "approvalRow")
    /\ UNCHANGED <<status, kind, approval, result, text, place, control, process,
                   executed>>

CreateApproval(r) ==
    /\ pc[r] = "approvalRow"
    /\ approval' = [approval EXCEPT ![r][cur[r]] = "pending"]
    /\ Goto(r, "approvalStatus")
    /\ UNCHANGED <<status, kind, callStatus, result, text, place, control,
                   process, executed>>

AwaitApproval(r) ==
    /\ pc[r] = "approvalStatus"
    /\ SetStatus(r, "waiting-approval")
    /\ waiter' = [waiter EXCEPT ![r] = "approval"]
    /\ Goto(r, "awaitApproval")
    /\ UNCHANGED <<calls, text, place, active, abort, finished, process, executed>>

\* The wait for a user is over: back to running unless a cancel came first.
Resume(r, waiting) ==
    status' = [status EXCEPT ![r] = IF @ = waiting THEN "running" ELSE @]

ApprovalDecided(r) ==
    /\ pc[r] = "decided"
    /\ Resume(r, "waiting-approval")
    /\ Goto(r, "verdict")
    /\ UNCHANGED <<calls, text, place, control, process, executed>>

Denied(r) ==
    /\ pc[r] = "verdict"
    /\ approval[r][cur[r]] = "denied"
    /\ SetCall(r, cur[r], "denied")
    /\ Goto(r, "report")
    /\ UNCHANGED <<status, kind, approval, result, text, place, control, process,
                   executed>>

Permitted_AnyVerdict(r) ==
    \/ AtCall(r) /\ Kind(r) = "allow"
    \/ pc[r] = "verdict"
Permitted(r) ==
    \/ AtCall(r) /\ Kind(r) = "allow"
    \/ pc[r] = "verdict" /\ approval[r][cur[r]] # "denied"

BeginTool(r) ==
    /\ Permitted(r)
    /\ SetCall(r, cur[r], "running")
    /\ Goto(r, "execute")
    /\ UNCHANGED <<status, kind, approval, result, text, place, control, process,
                   executed>>

ExecuteTool(r) ==
    /\ pc[r] = "execute"
    /\ executed' = [executed EXCEPT ![r] = @ \cup {cur[r]}]
    /\ Goto(r, "executing")
    /\ UNCHANGED <<status, calls, text, place, control, process>>

\* The tool answers, or throws while nobody has aborted the run.
ToolReturns(r, outcome) ==
    /\ ~Busy
    /\ pc[r] = "executing"
    /\ SetCall(r, cur[r], outcome)
    /\ Goto(r, "report")
    /\ UNCHANGED <<status, kind, approval, result, text, place, control, process,
                   executed>>

ToolCancelled_Retried(r) ==
    /\ ~Busy
    /\ pc[r] = "executing"
    /\ SetCall(r, cur[r], "cancelled")
    /\ Goto(r, UnlessAborted(r, "execute"))
    /\ UNCHANGED <<status, kind, approval, result, text, place, control, process,
                   executed>>

\* The tool throws because of the abort, or because its own time is up.
ToolCancelled(r) ==
    /\ ~Busy
    /\ pc[r] = "executing"
    /\ SetCall(r, cur[r], "cancelled")
    /\ Goto(r, UnlessAborted(r, "report"))
    /\ UNCHANGED <<status, kind, approval, result, text, place, control, process,
                   executed>>

AskInput(r) ==
    /\ AtCall(r)
    /\ Kind(r) = "input"
    /\ SetCall(r, cur[r], "running")
    /\ Goto(r, "inputStatus")
    /\ UNCHANGED <<status, kind, approval, result, text, place, control, process,
                   executed>>

AwaitInput(r) ==
    /\ pc[r] = "inputStatus"
    /\ SetStatus(r, "waiting-input")
    /\ waiter' = [waiter EXCEPT ![r] = "input"]
    /\ Goto(r, "awaitInput")
    /\ UNCHANGED <<calls, text, place, active, abort, finished, process, executed>>

InputAnswered(r) ==
    /\ pc[r] = "answered"
    /\ Resume(r, "waiting-input")
    /\ Goto(r, "inputDone")
    /\ UNCHANGED <<calls, text, place, control, process, executed>>

InputDone(r) ==
    /\ pc[r] = "inputDone"
    /\ SetCall(r, cur[r], "succeeded")
    /\ Goto(r, "report")
    /\ UNCHANGED <<status, kind, approval, result, text, place, control, process,
                   executed>>

InputAborted(r) ==
    /\ pc[r] = "inputAborted"
    /\ SetCall(r, cur[r], "cancelled")
    /\ Goto(r, "caught")
    /\ UNCHANGED <<status, kind, approval, result, text, place, control, process,
                   executed>>

\* onToolResult: the tool-result message, and on to the next call.
ReportResult(r) ==
    /\ pc[r] = "report"
    /\ result' = [result EXCEPT ![r][cur[r]] = "actual"]
    /\ cur' = [cur EXCEPT ![r] = @ + 1]
    /\ Goto(r, "call")
    /\ UNCHANGED <<status, kind, callStatus, approval, text, last, rounds,
                   control, process, executed>>

------------------------------------------------------------------------------
(* The end of a run: completion, the catch, and the finally of startRun.   *)

Finish(r) ==
    /\ pc[r] = "finish"
    /\ status' = [status EXCEPT ![r] = IF Aborted(r) THEN @ ELSE "completed"]
    /\ Goto(r, UnlessAborted(r, "expire"))
    /\ UNCHANGED <<calls, text, place, control, process, executed>>

\* persistInterruptedText: first the message, then the checkpoint goes.  ("partial"
\* is text that says something: white space alone makes no message and is dropped.)
KeepInterruptedText_NoMessage(r) ==
    /\ pc[r] = "caught"
    /\ Goto(r, "caughtStored")
    /\ UNCHANGED <<status, calls, text, place, control, process, executed>>

KeepInterruptedText(r) ==
    /\ pc[r] = "caught"
    /\ kept' = [kept EXCEPT ![r] = @ \/ partial[r]]
    /\ Goto(r, "caughtStored")
    /\ UNCHANGED <<status, calls, partial, place, control, process, executed>>

DropCheckpoint(r) ==
    /\ pc[r] = "caughtStored"
    /\ partial' = [partial EXCEPT ![r] = FALSE]
    /\ Goto(r, "ending")
    /\ UNCHANGED <<status, calls, kept, place, control, process, executed>>

\* The status the catch writes next, in the order of its tests.
EndStatus(r) ==
    IF abort[r] = "shutdown" THEN "interrupted"
    ELSE IF abort[r] = "user"
         THEN IF CanTransitionRun(status[r], "cancelling") THEN "cancelling" ELSE "cancelled"
         ELSE "failed"

Conclude(r) ==
    /\ pc[r] = "ending"
    /\ SetStatus(r, EndStatus(r))
    /\ Goto(r, IF EndStatus(r) = "cancelling" THEN "ending" ELSE "expire")
    /\ UNCHANGED <<calls, text, place, control, process, executed>>

ExpirePending_Forgotten(S) == UNCHANGED approval

ExpirePending(S) ==
    approval' = [r \in Runs |-> [k \in Calls |->
        IF r \in S /\ approval[r][k] = "pending" THEN "expired" ELSE approval[r][k]]]

ExpireApprovals(r) ==
    /\ pc[r] = "expire"
    /\ ExpirePending({r})
    /\ waiter' = [waiter EXCEPT ![r] = "none"]
    /\ Goto(r, "finalize")
    /\ UNCHANGED <<status, kind, callStatus, result, text, place, active, abort,
                   finished, process, executed>>

\* #finishUncertainToolCalls, one call per commit in the order of the calls:
\* the end of a run and the recovery of one share it.
FinishUncertainCall(r, k) ==
    /\ pc[r] \in {"finalize", "recover"}
    /\ k \in Unfinished(r)
    /\ \A j \in Unfinished(r) : k <= j
    /\ SetCall(r, k, UncertainOutcome(callStatus[r][k]))
    /\ finished' = [finished EXCEPT ![r] = @ \cup {k}]
    /\ UNCHANGED <<status, kind, approval, result, text, pc, place, active, abort,
                   waiter, process, executed>>

\* The finished calls that still get a synthetic tool result.
OwedResults_OnlyCancelled(r) ==
    {k \in finished[r] : result[r][k] = Absent /\ callStatus[r][k] = "cancelled"}

OwedResults(r) ==
    {k \in finished[r] :
        /\ result[r][k] = Absent
        /\ pc[r] = "recover" \/ callStatus[r][k] = "cancelled"}

SyntheticResult(r, k) ==
    /\ pc[r] \in {"finalize", "recover"}
    /\ Unfinished(r) = {}
    /\ k \in OwedResults(r)
    /\ \A j \in OwedResults(r) : k <= j
    /\ result' = [result EXCEPT ![r][k] =
                    IF callStatus[r][k] = "effect_unknown" THEN "unknown" ELSE "cancelled"]
    /\ UNCHANGED <<status, kind, callStatus, approval, text, pc, place, control,
                   process, executed>>

CallsClosed_TooEarly(r) == OwedResults(r) = {}

CallsClosed(r) == Unfinished(r) = {} /\ OwedResults(r) = {}

\* The execution's variables go with its closure.
Forget(S) ==
    /\ pc' = [r \in Runs |-> IF r \in S THEN "none" ELSE pc[r]]
    /\ cur' = [r \in Runs |-> IF r \in S THEN 1 ELSE cur[r]]
    /\ last' = [r \in Runs |-> IF r \in S THEN 0 ELSE last[r]]
    /\ rounds' = [r \in Runs |-> IF r \in S THEN 0 ELSE rounds[r]]
    /\ abort' = [r \in Runs |-> IF r \in S THEN "no" ELSE abort[r]]
    /\ waiter' = [r \in Runs |-> IF r \in S THEN "none" ELSE waiter[r]]
    /\ finished' = [r \in Runs |-> IF r \in S THEN {} ELSE finished[r]]
    /\ active' = active \ S

Settle(r) ==
    /\ pc[r] = "finalize"
    /\ CallsClosed(r)
    /\ Forget({r})
    /\ UNCHANGED <<status, calls, text, process, executed>>

------------------------------------------------------------------------------
(* The Agent-host process.                                                 *)

\* A host starts: initialize lists the open runs and interrupts them all.
Boot ==
    /\ host = "down"
    /\ host' = "recovering"
    /\ recovering' = OpenRuns
    /\ status' = [r \in Runs |-> IF r \in OpenRuns THEN "interrupted" ELSE status[r]]
    /\ UNCHANGED <<calls, text, pc, place, control, closing, executed>>

\* It then visits each of them.
RecoverRun(r) ==
    /\ host = "recovering"
    /\ r \in recovering
    /\ ~Busy
    /\ Goto(r, "recover")
    /\ UNCHANGED <<status, calls, text, place, control, process, executed>>

RunRecovered(r) ==
    /\ pc[r] = "recover"
    /\ CallsClosed(r)
    /\ Forget({r})
    /\ recovering' = recovering \ {r}
    /\ UNCHANGED <<status, calls, text, host, closing, executed>>

Ready ==
    /\ host = "recovering"
    /\ recovering = {}
    /\ ExpirePending({r \in Runs : status[r] \in TerminalRunStatus})
    /\ host' = "up"
    /\ UNCHANGED <<status, kind, callStatus, result, text, pc, place, control,
                   closing, recovering, executed>>

Shutdown ==
    /\ host = "up"
    /\ ~Busy
    /\ host' = "closing"
    /\ closing' = active
    /\ AbortRuns(active, "shutdown")
    /\ UNCHANGED <<status, calls, text, place, active, finished, recovering,
                   executed>>

HostGone ==
    /\ host' = "down"
    /\ closing' = {}
    /\ recovering' = {}
    /\ Forget(Runs)
    /\ UNCHANGED <<status, calls, text, executed>>

\* Every run that shutdown waited for has settled; others are not awaited.
Exit ==
    /\ host = "closing"
    /\ ~Busy
    /\ closing \cap active = {}
    /\ HostGone

CrashPoint ==
    IF host = "recovering" THEN "recovery" ELSE IF Busy THEN "sync" ELSE "await"

Crash ==
    /\ host # "down"
    /\ CrashPoint \in CrashPoints
    /\ HostGone

------------------------------------------------------------------------------
\* The steps the thread takes without waiting for anything.
RunStep(r) ==
    \/ Prepare(r) \/ Begin(r) \/ RequestTurn(r)
    \/ \E knd \in CallKinds : CreateToolCall(r, knd)
    \/ AppendAssistantTurn(r) \/ TurnStored(r)
    \/ NextRound(r) \/ AbandonCalls(r) \/ RejectCall(r)
    \/ AskApproval(r) \/ CreateApproval(r) \/ AwaitApproval(r)
    \/ ApprovalDecided(r) \/ Denied(r) \/ BeginTool(r) \/ ExecuteTool(r)
    \/ AskInput(r) \/ AwaitInput(r) \/ InputAnswered(r) \/ InputDone(r)
    \/ InputAborted(r) \/ ReportResult(r)
    \/ Finish(r) \/ KeepInterruptedText(r) \/ DropCheckpoint(r) \/ Conclude(r)
    \/ ExpireApprovals(r) \/ Settle(r) \/ RunRecovered(r)
    \/ \E k \in Calls : FinishUncertainCall(r, k) \/ SyntheticResult(r, k)

\* The answers a run waits for that do not come from the user.
Answer(r) ==
    \/ \E found \in BOOLEAN : SecretArrives(r, found)
    \/ StreamFails(r) \/ TurnEnds(r)
    \/ \E outcome \in {"succeeded", "failed"} : ToolReturns(r, outcome)
    \/ ToolCancelled(r)

UserRequest(r) ==
    \/ StartRun(r) \/ ProvideRunInput(r) \/ CancelRun(r)
    \/ \E k \in Calls, decision \in {"approved", "denied"} :
            ResolveApproval(r, k, decision)

HostStep == Boot \/ Ready \/ Shutdown \/ Exit \/ Crash

Next ==
    \/ \E r \in Runs :
            RunStep(r) \/ Answer(r) \/ TextDelta(r) \/ UserRequest(r) \/ RecoverRun(r)
    \/ HostStep

Spec == Init /\ [][Next]_vars

------------------------------------------------------------------------------
(* Safety.                                                                 *)

\* A conversation has at most one open run: startRun reads the open runs and
\* inserts its own several statements later (application 435-491), and the
\* unique index one_active_run_per_conversation is never hit.
OneOpenRunPerConversation ==
    \A r, s \in OpenRuns : ConversationOf[r] = ConversationOf[s] => r = s

\* Between two handlers of a live host, the runs the database shows as open
\* are exactly those the host executes (an open run without an execution would
\* block its conversation: startRun refuses, cancelRun returns), and a run that
\* is not executing has no call that looks as if it still did.
OpenRunsAreExecuted ==
    Serving => OpenRuns = active /\ \A r \in Runs \ active : Unfinished(r) = {}

\* Between two handlers, an approval is pending exactly while its run waits
\* for it, and waiting-input shows exactly the runs whose waiter is there to
\* take the answer: a prompt that nobody waits for would swallow the user's
\* decision or answer, and a wait without a prompt could never end.
PromptsAreAwaited ==
    Serving =>
        \A r \in Runs :
            /\ status[r] = "waiting-input" <=> waiter[r] = "input"
            /\ \A k \in Calls :
                 approval[r][k] = "pending" <=>
                     /\ waiter[r] = "approval"
                     /\ cur[r] = k
                     /\ status[r] = "waiting-approval"
                     /\ callStatus[r][k] = "awaiting-approval"

\* A tool is executed only if the policy lets it, and where the policy asks,
\* only after the user approved this very call.
ExecutionIsAuthorised ==
    \A r \in Runs : \A k \in executed[r] :
        \/ kind[r][k] = "allow"
        \/ kind[r][k] = "ask" /\ approval[r][k] = "approved"

\* The database never understates what was executed: a call whose tool was
\* entered is not shown as proposed, awaiting approval or denied, whenever the
\* host dies.  And between two handlers the conversation holds a tool result
\* of the right kind for every settled call that may have had an effect: its
\* own result if it returned, "the effect is unknown" if the host died under it.
EffectsAreReported ==
    /\ \A r \in Runs : \A k \in executed[r] :
         callStatus[r][k] \in {"running", "succeeded", "failed", "cancelled",
                               "effect_unknown"}
    /\ Serving =>
         \A r \in Runs \ active, k \in Calls :
             /\ callStatus[r][k] = "effect_unknown" => result[r][k] = "unknown"
             /\ callStatus[r][k] \in {"succeeded", "failed"} => result[r][k] = "actual"

\* A tool is entered at most once for a call: whoever stands before
\* tool.execute has not been there with this call.
EnteredOnce ==
    \A r \in Runs : pc[r] = "execute" => cur[r] \notin executed[r]

------------------------------------------------------------------------------
(* Action properties.                                                      *)

\* Every change of a run's or a call's status is one that its table allows, so
\* no assertRunTransition of the code ever throws and what ended stays ended.
\* Besides, a run whose cancellation the user saw accepted never turns out
\* completed (the table would allow cancelling -> completed).
TransitionsAreLegal ==
    [][\A r \in Runs :
        /\ status[r] # Absent /\ status'[r] # status[r]
             => CanTransitionRun(status[r], status'[r])
        /\ status[r] = "cancelling" => status'[r] # "completed"
        /\ \A k \in Calls :
             callStatus[r][k] # Absent /\ callStatus'[r][k] # callStatus[r][k]
                 => CanTransitionToolCall(callStatus[r][k], callStatus'[r][k])
      ]_<<status, callStatus>>

\* Once a run is aborted, by the user or by a shutdown, none of its tools is
\* entered any more.
NoToolAfterAbort ==
    [][\A r \in Runs : Aborted(r) => executed'[r] = executed[r]]_executed

\* Streamed text that was checkpointed leaves run_partials only after it has
\* become part of a message, so no crash can lose it.
CheckpointIsKept ==
    [][\A r \in Runs : partial[r] /\ ~partial'[r] => kept[r]]_partial

------------------------------------------------------------------------------
(* Liveness and the abstract view.                                         *)

\* The thread always takes its next step; a secret request is answered or
\* times out (15 s); a provider or tool whose signal is aborted lets go; a
\* host that can exit does.  Users and providers owe the program nothing
\* else, and nobody is obliged to start the host again.
Fairness ==
    /\ \A r \in Runs :
        /\ WF_vars(RunStep(r))
        /\ WF_vars(RecoverRun(r))
        /\ WF_vars(\E found \in BOOLEAN : SecretArrives(r, found))
        /\ WF_vars(Aborted(r) /\ Answer(r))
    /\ WF_vars(Ready)
    /\ WF_vars(Exit)

FairSpec == Spec /\ Fairness

\* An abort is always answered.  A cancelled run settles, whatever it was
\* waiting for when the user cancelled it: cancelRun waits for exactly that.
\* And a host that was asked to shut down is gone in the end, even when requests
\* go on starting runs in the meantime.
AbortsEnd ==
    /\ \A r \in Runs : abort[r] = "user" ~> r \notin active
    /\ host = "closing" ~> host = "down"

\* A call the user approved is entered, or its run ends without it.
ApprovedCallIsEntered ==
    \A r \in Runs, k \in Calls :
        approval[r][k] = "approved" ~> k \in executed[r] \/ r \notin active

PhaseOf(s) ==
    CASE s = Absent               -> "none"
      [] s = "cancelling"         -> "stopping"
      [] s \in TerminalRunStatus  -> s
      [] OTHER                    -> "open"

Granted(r) ==
    {k \in Calls : kind[r][k] = "allow" \/ approval[r][k] = "approved"}

Ledger == INSTANCE RunLedger WITH
    phase     <- [r \in Runs |-> PhaseOf(status[r])],
    granted   <- [r \in Runs |-> Granted(r)],
    performed <- executed

\* The database rows, together with what was really executed, are at every
\* moment a ledger the user may believe, through crashes and restarts.
ImplementsLedger == Ledger!Spec
==============================================================================
