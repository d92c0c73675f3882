---------------------------- MODULE HostSupervisor ----------------------------
(***************************************************************************)
(* AgentHostClient: how the Electron main process starts, restarts, asks   *)
(* and stops the Agent host, and whose managed executions it runs on the   *)
(* host's behalf.  main.ts drives it: it starts the host once, forwards    *)
(* the renderer's requests and stops the host when the user quits.         *)
(*                                                                         *)
(* The main process is one thread: a handler is one action, together with  *)
(* the continuations of the promises it settles.  The host processes run   *)
(* beside it and may say something, or exit, at any time.  A message and   *)
(* its arrival are one step; what is still on its way when its sender is   *)
(* replaced is a step that the sender takes later.                         *)
(*                                                                         *)
(* Left out: how long the timers run, restartAttempt, which only stretches *)
(* the restart timer, the secret requests of the host, run events, and a   *)
(* request whose postMessage throws.  Definitions called X_Something are X *)
(* with a plausible bug and are not part of the model.                     *)
(***************************************************************************)
EXTENDS Naturals

CONSTANTS
    Hosts,      \* bound: host processes that may exist at a time
    Requests,   \* requests of the renderer
    Executions, \* managed executions the hosts will ask for
    NoHost      \* null

ASSUME HostSupervisorAssumption == NoHost \notin Hosts

VARIABLES
    \* AgentHostClient
    child,        \* #child
    ready,        \* #readyPromise: there is none, it is pending, or resolved
    readyTimer,   \* the child that #readyTimer is set for
    restartTimer, \* is #restartTimer set
    stopping,     \* #stopping
    stop,         \* where #stop is
    stopChild,    \* the child #stop waits for
    request,      \* where each request() is
    sentTo,       \* the child it was posted to
    execution,    \* the managed executions
    owner,        \* the child that asked for one
    \* the processes
    process,      \* the host processes
    dismissed,    \* what a process was told: nothing, host-shutdown, kill()
    app           \* the main process itself

client  == <<child, ready, readyTimer, restartTimer, stopping>>
halting == <<stop, stopChild>>
asking  == <<request, sentTo>>
managed == <<execution, owner>>
outside == <<process, dismissed, app>>
vars    == <<client, halting, asking, managed, outside>>

\* Every variable keeps its shape, and a managed execution has its entry in
\* #managedExecutions from the request until it is over.
TypeOK ==
    /\ child \in Hosts \cup {NoHost}
    /\ ready \in {"none", "pending", "resolved"}
    /\ readyTimer \in Hosts \cup {NoHost}
    /\ restartTimer \in BOOLEAN
    /\ stopping \in BOOLEAN
    /\ stop \in {"idle", "waiting", "managed"}
    /\ stopChild \in Hosts \cup {NoHost}
    /\ request \in [Requests -> {"new", "starting", "sent", "answered", "failed"}]
    /\ sentTo \in [Requests -> Hosts \cup {NoHost}]
    /\ execution \in [Executions -> {"none", "running", "aborted", "over"}]
    /\ owner \in [Executions -> Hosts \cup {NoHost}]
    /\ process \in [Hosts -> {"none", "starting", "ready"}]
    /\ dismissed \in [Hosts -> {"no", "shutdown", "kill"}]
    /\ app \in {"launching", "running", "quitting", "gone"}
    /\ \A e \in Executions :
        owner[e] # NoHost <=> execution[e] \in {"running", "aborted"}

Init ==
    /\ child = NoHost
    /\ ready = "none"
    /\ readyTimer = NoHost
    /\ restartTimer = FALSE
    /\ stopping = FALSE
    /\ stop = "idle"
    /\ stopChild = NoHost
    /\ request = [r \in Requests |-> "new"]
    /\ sentTo = [r \in Requests |-> NoHost]
    /\ execution = [e \in Executions |-> "none"]
    /\ owner = [e \in Executions |-> NoHost]
    /\ process = [h \in Hosts |-> "none"]
    /\ dismissed = [h \in Hosts |-> "no"]
    /\ app = "launching"

Alive == {h \in Hosts : process[h] # "none"}

\* A name for the next process: one that nothing refers to any more.
Fresh(h) ==
    /\ h \notin Alive \cup {child, stopChild, readyTimer}
    /\ \A e \in Executions : owner[e] # h

------------------------------------------------------------------------------
(* What the handlers are made of.                                          *)

\* Who waits for the ready promise, and who has been posted to the child.
Starting == {r \in Requests : request[r] = "starting"}
Sent == {r \in Requests : request[r] = "sent"}

\* The promises of the requests in S are rejected.
Fail_Forgotten(S) == UNCHANGED request
Fail(S) == request' = [r \in Requests |-> IF r \in S THEN "failed" ELSE request[r]]

\* #rejectReadyState, but for the requests it fails.
DropReady_KeepsPromise == UNCHANGED ready /\ readyTimer' = NoHost
DropReady == ready' = "none" /\ readyTimer' = NoHost

\* #cancelManagedExecutions
CancelExecutions_Forgotten(h) == UNCHANGED execution
CancelExecutions(h) ==
    execution' = [e \in Executions |->
                    IF owner[e] = h /\ execution[e] = "running"
                      THEN "aborted" ELSE execution[e]]

\* #scheduleRestart
ScheduleRestart_Never == UNCHANGED restartTimer
ScheduleRestart == restartTimer' = (restartTimer \/ ~stopping)

Dismiss(h, how) == dismissed' = [dismissed EXCEPT ![h] = how]

\* start() without a ready promise: it forks a child.
Fork(h) ==
    /\ ready = "none"
    /\ Fresh(h)
    /\ child' = h
    /\ ready' = "pending"
    /\ readyTimer' = h
    /\ restartTimer' = FALSE
    /\ stopping' = FALSE
    /\ process' = [process EXCEPT ![h] = "starting"]
    /\ dismissed' = [dismissed EXCEPT ![h] = "no"]

\* The same, when the fork throws.
ForkFails ==
    /\ ready = "none"
    /\ restartTimer' = TRUE
    /\ stopping' = FALSE
    /\ readyTimer' = NoHost
    /\ UNCHANGED <<child, ready, process, dismissed>>

------------------------------------------------------------------------------
(* Requests.                                                               *)

Launch ==
    /\ app = "launching"
    /\ app' = "running"
    /\ ForkFails \/ \E h \in Hosts : Fork(h)
    /\ UNCHANGED <<halting, asking, managed>>

\* request() with a ready host: the message is posted at once.
Request(r) ==
    /\ app \in {"running", "quitting"}
    /\ request[r] = "new"
    /\ ready = "resolved"
    /\ request' = [request EXCEPT ![r] = IF child = NoHost THEN "failed" ELSE "sent"]
    /\ sentTo' = [sentTo EXCEPT ![r] = child]
    /\ UNCHANGED <<client, halting, managed, outside>>

\* request() while a host starts: it waits for the ready promise.
RequestWaits(r) ==
    /\ app \in {"running", "quitting"}
    /\ request[r] = "new"
    /\ ready = "pending"
    /\ request' = [request EXCEPT ![r] = "starting"]
    /\ UNCHANGED <<client, halting, sentTo, managed, outside>>

\* request() without a host starts one, before its restart is due.
RequestStarts(r) ==
    /\ app \in {"running", "quitting"}
    /\ request[r] = "new"
    /\ \/ ForkFails /\ request' = [request EXCEPT ![r] = "failed"]
       \/ \E h \in Hosts : Fork(h) /\ request' = [request EXCEPT ![r] = "starting"]
    /\ UNCHANGED <<halting, sentTo, managed, app>>

\* The host's answer; only the answer of the current child is looked at.
Answer(h, r) ==
    /\ process[h] = "ready"
    /\ request[r] = "sent"
    /\ sentTo[r] = h
    /\ h = child
    /\ request' = [request EXCEPT ![r] = "answered"]
    /\ UNCHANGED <<client, halting, sentTo, managed, outside>>

RequestTimeout(r) ==
    /\ app # "gone"
    /\ request[r] = "sent"
    /\ Fail({r})
    /\ UNCHANGED <<client, halting, sentTo, managed, outside>>

------------------------------------------------------------------------------
(* The life of a host.                                                     *)

\* host-ready.  The requests that waited for it are posted.
HostReady(h) ==
    /\ process[h] = "starting"
    /\ process' = [process EXCEPT ![h] = "ready"]
    /\ IF child = h
         THEN /\ readyTimer' = NoHost
              /\ ready' = IF ready = "pending" THEN "resolved" ELSE ready
              /\ request' = [r \in Requests |->
                                IF r \in Starting /\ ready = "pending"
                                  THEN "sent" ELSE request[r]]
              /\ sentTo' = [r \in Requests |->
                                IF r \in Starting /\ ready = "pending"
                                  THEN h ELSE sentTo[r]]
         ELSE UNCHANGED <<readyTimer, ready, request, sentTo>>
    /\ UNCHANGED <<child, restartTimer, stopping, halting, managed, dismissed, app>>

\* The host did not get ready in time: it is given up and killed.
ReadyTimeout ==
    /\ app # "gone"
    /\ readyTimer # NoHost
    /\ child = readyTimer
    /\ child' = NoHost
    /\ DropReady
    /\ Fail(Starting)
    /\ Dismiss(readyTimer, "kill")
    /\ ScheduleRestart
    /\ UNCHANGED <<stopping, halting, sentTo, managed, process, app>>

RestartFires ==
    /\ app # "gone"
    /\ restartTimer
    /\ ForkFails \/ \E h \in Hosts : Fork(h)
    /\ UNCHANGED <<halting, asking, managed, app>>

\* A process ends: by itself, in the end of a shutdown, or killed.  The
\* client hears of it if it is still its child; #stop hears of it if it
\* waits for it, after the client.
HostExits(h) ==
    /\ h \in Alive
    /\ process' = [process EXCEPT ![h] = "none"]
    /\ dismissed' = [dismissed EXCEPT ![h] = "no"]
    /\ IF child = h
         THEN /\ CancelExecutions(h)
              /\ child' = NoHost
              /\ DropReady
              /\ Fail(Starting \cup Sent)
              /\ ScheduleRestart
         ELSE UNCHANGED <<execution, child, ready, readyTimer, request, restartTimer>>
    /\ IF stop = "waiting" /\ stopChild = h
         THEN stop' = "managed" /\ stopChild' = NoHost
         ELSE UNCHANGED halting
    /\ UNCHANGED <<stopping, sentTo, owner, app>>

------------------------------------------------------------------------------
(* Managed executions that the main process runs for the host.             *)

ExecutionRequest(h, e) ==
    /\ process[h] = "ready"
    /\ child = h
    /\ execution[e] = "none"
    /\ execution' = [execution EXCEPT ![e] = "running"]
    /\ owner' = [owner EXCEPT ![e] = h]
    /\ UNCHANGED <<client, halting, asking, outside>>

\* A cancelled run, or a host that shuts down, cancels what it asked for.
ExecutionCancel(h, e) ==
    /\ process[h] = "ready"
    /\ child = h
    /\ owner[e] = h
    /\ execution[e] = "running"
    /\ execution' = [execution EXCEPT ![e] = "aborted"]
    /\ UNCHANGED <<client, halting, asking, owner, outside>>

\* It ends, and with it the entry; the result goes to the child that asked,
\* if that is still the child.
ExecutionOver(e) ==
    /\ app # "gone"
    /\ execution[e] \in {"running", "aborted"}
    /\ execution' = [execution EXCEPT ![e] = "over"]
    /\ owner' = [owner EXCEPT ![e] = NoHost]
    /\ UNCHANGED <<client, halting, asking, outside>>

------------------------------------------------------------------------------
(* Quitting.                                                               *)

\* before-quit calls stop(), once.
Quit ==
    /\ app = "running"
    /\ app' = "quitting"
    /\ stopping' = TRUE
    /\ restartTimer' = FALSE
    /\ DropReady
    /\ Fail(Starting \cup Sent)
    /\ IF child = NoHost
         THEN stop' = "managed" /\ UNCHANGED <<stopChild, dismissed, execution>>
         ELSE /\ stop' = "waiting"
              /\ stopChild' = child
              /\ Dismiss(child, "shutdown")
              /\ CancelExecutions(child)
    /\ UNCHANGED <<child, sentTo, owner, process>>

StopTimeout_Missing == FALSE /\ UNCHANGED vars

\* The host did not exit in time, or the message could not be posted.
StopTimeout ==
    /\ stop = "waiting"
    /\ Dismiss(stopChild, "kill")
    /\ child' = IF child = stopChild THEN NoHost ELSE child
    /\ stop' = "managed"
    /\ stopChild' = NoHost
    /\ UNCHANGED <<ready, readyTimer, restartTimer, stopping, asking, managed,
                   process, app>>

\* managedExecution.shutdown() ends what still runs, then stop() resolves
\* and the application quits.
ManagedShutdown ==
    /\ stop = "managed"
    /\ execution' = [e \in Executions |->
                        IF execution[e] = "running" THEN "aborted" ELSE execution[e]]
    /\ stop' = "idle"
    /\ app' = "gone"
    /\ UNCHANGED <<client, stopChild, asking, owner, process, dismissed>>

------------------------------------------------------------------------------
HostStep(h) ==
    /\ app # "gone"
    /\ \/ HostReady(h) \/ HostExits(h)
       \/ \E r \in Requests : Answer(h, r)
       \/ \E e \in Executions : ExecutionRequest(h, e) \/ ExecutionCancel(h, e)

Next ==
    \/ Launch \/ ReadyTimeout \/ RestartFires \/ Quit \/ StopTimeout \/ ManagedShutdown
    \/ \E r \in Requests : Request(r) \/ RequestWaits(r) \/ RequestStarts(r)
                            \/ RequestTimeout(r)
    \/ \E e \in Executions : ExecutionOver(e)
    \/ \E h \in Hosts : HostStep(h)

Spec == Init /\ [][Next]_vars

------------------------------------------------------------------------------
(* Safety.                                                                 *)

\* What the client believes of its child is so.  A resolved ready promise
\* stands for a child that lives and is ready: a request that finds one never
\* ends with "Agent host is unavailable".  And the pending requests were all
\* posted to the current child, which is what lets its exit reject every one of
\* them, and none is left behind when a child is replaced.
ClientAgrees ==
    /\ TypeOK
    /\ ready = "resolved" => child \in Alive /\ process[child] = "ready"
    /\ \A r \in Sent : sentTo[r] = child /\ child \in Alive

\* Nothing runs on for a host that is gone.  A process that is no longer the
\* child was told to go (nothing else would ever end it), and a managed
\* execution that nobody aborted belongs to the child, unless the end of
\* stop() is still to shut the adapter down.
NoOrphan ==
    /\ \A h \in Alive \ {child} : dismissed[h] # "no"
    /\ \A e \in Executions :
         execution[e] = "running" => owner[e] = child \/ stop # "idle"

------------------------------------------------------------------------------
(* Liveness.                                                               *)

\* Timers fire, a process that was killed ends, the adapter's shutdown ends,
\* and a fork that is tried again and again succeeds at last.  Hosts owe the
\* client nothing: they may never get ready, answer or obey host-shutdown.
Fairness ==
    /\ WF_vars(ReadyTimeout)
    /\ WF_vars(RestartFires /\ child' # NoHost)
    /\ WF_vars(StopTimeout)
    /\ WF_vars(ManagedShutdown)
    /\ \A r \in Requests : WF_vars(RequestTimeout(r))
    /\ \A h \in Hosts : WF_vars(dismissed[h] = "kill" /\ app # "gone" /\ HostExits(h))

FairSpec == Spec /\ Fairness

\* request() always settles, whatever becomes of the hosts.
RequestSettles ==
    \A r \in Requests :
        request[r] \in {"starting", "sent"} ~>
            request[r] \in {"answered", "failed"} \/ app = "gone"

\* A host that was lost is started again, unless the user quits.
HostReturns ==
    app = "running" /\ child = NoHost ~> child # NoHost \/ app # "running"

\* Quitting ends, even when the host ignores the shutdown and the renderer
\* goes on asking.
QuitEnds == app = "quitting" ~> app = "gone"
==============================================================================
