----------------------------- MODULE CommandTools ------------------------------
(***************************************************************************)
(* run_command in the Agent host, beside the file tools, and the shutdown  *)
(* or crash of the host around them.                                       *)
(*                                                                         *)
(* Under the full access profile (tool "full") the host spawns a shell,    *)
(* which leads a process group; under a bounded one ("bounded") the main   *)
(* process executes the command on the host's behalf and the two exchange  *)
(* messages by request id.                                                 *)
(*                                                                         *)
(* Processes of a group end when they like.  A signal is not an action: it *)
(* is what makes a group end, and no group has to.  Left out: output, exit *)
(* codes, events and durations.  What the main process does with a bounded *)
(* command is in HostSupervisor and LpacExecution; here it starts, is told *)
(* to stop, and is over.                                                   *)
(***************************************************************************)
EXTENDS FileTools

VARIABLES
    host,     \* "up", "stopping" (shutdown waits), "exited" or "killed"
    awaited,  \* the calls whose runs shutdown waits for
    windows,  \* is the platform Windows
    group,    \* the living processes of each command: its shell, and a "child"
              \* that holds its pipes or a "daemon" that does not
    reason,   \* why a command is being stopped, the first reason given
    stage,    \* how far its termination is: "asked" or "killed"
    pending,  \* #pending of AgentHostManagedExecutionAdapter
    closed,   \* its #shuttingDown
    toMain,   \* messages to the main process, in order
    entry,    \* a bounded command there: "running", "stopping" or "over"
    responses \* its answers, in order

commands == <<group, reason, stage>>
bounded == <<pending, closed, toMain, entry, responses>>
system == <<host, awaited, windows>>
vars == <<calls, files, system, commands, bounded>>

Init ==
    /\ FilesInit
    /\ host = "up"
    /\ awaited = {}
    /\ windows \in BOOLEAN
    /\ group = [c \in Calls |-> {}]
    /\ reason = [c \in Calls |-> None]
    /\ stage = [c \in Calls |-> None]
    /\ pending = {}
    /\ closed = FALSE
    /\ toMain = <<>>
    /\ entry = [c \in Calls |-> None]
    /\ responses = <<>>

Alive == host \in {"up", "stopping"}
InFlight(c) == step[c] \notin {"new", "over"}

Message(type, c) == [type |-> type, call |-> c]

------------------------------------------------------------------------------
(* Stopping a command of the full access profile.                          *)

\* What is left to wait for once a command has been told to stop: its whole
\* group, or on Windows the shell alone.
Gone_ShellOnly(c) == "shell" \notin group[c]

Gone(c) == IF windows THEN "shell" \notin group[c] ELSE group[c] = {}

\* terminate of the commands in S: the first reason stays, the first call
\* sends SIGTERM (taskkill) and starts the wait.
Terminate(S, why) ==
    LET asked == {c \in S : At(c, "full", "running") /\ reason[c] = None}
    IN  /\ reason' = [c \in Calls |-> IF c \in asked THEN why ELSE reason[c]]
        /\ stage' = [c \in Calls |-> IF c \in asked THEN "asked" ELSE stage[c]]
        /\ UNCHANGED group

\* The group was gone in time.
Stopped(c) ==
    /\ At(c, "full", "running")
    /\ reason[c] # None
    /\ Gone(c)
    /\ Settle(c, reason[c])
    /\ UNCHANGED commands

\* TERMINATION_GRACE_MS are over: SIGKILL (taskkill /f).
GraceOver(c) ==
    /\ At(c, "full", "running")
    /\ stage[c] = "asked"
    /\ ~Gone(c)
    /\ stage' = [stage EXCEPT ![c] = "killed"]
    /\ UNCHANGED <<calls, group, reason>>

StopFails_WaitsForGroup(c) ==
    /\ At(c, "full", "running")
    /\ stage[c] = "asked"
    /\ windows \/ ~Gone(c)
    /\ Settle(c, "error")
    /\ UNCHANGED commands

\* The signal cannot be sent, taskkill cannot be run, or
\* TERMINATION_KILL_WAIT_MS are over as well.
StopFails(c) ==
    /\ At(c, "full", "running")
    /\ reason[c] # None
    /\ windows \/ ~Gone(c)
    /\ Settle(c, "error")
    /\ UNCHANGED commands

------------------------------------------------------------------------------
(* A command of the full access profile.                                   *)

\* The root is resolved; a call that was aborted by then spawns nothing, and
\* a spawn may throw or fail before anything else happens.
Spawn(c) ==
    /\ At(c, "full", "begun")
    /\ \/ aborted[c] /\ Settle(c, "cancelled") /\ UNCHANGED commands
       \/ ~aborted[c] /\ Settle(c, "error") /\ UNCHANGED commands
       \/ /\ ~aborted[c]
          /\ Goto(c, "running")
          /\ \E g \in SUBSET {"child", "daemon"} :
               Cardinality(g) <= 1 /\ group' = [group EXCEPT ![c] = g \cup {"shell"}]
          /\ UNCHANGED <<reason, stage>>

\* The event "close" of a command that nobody asked to stop: the shell has
\* exited and nothing holds its pipes.
Close(c) ==
    /\ At(c, "full", "running")
    /\ reason[c] = None
    /\ group[c] \subseteq {"daemon"}
    /\ Settle(c, "exited")
    /\ UNCHANGED commands

\* The timer of the command fires.
Timeout(c) == UNCHANGED calls /\ At(c, "full", "running") /\ reason[c] = None
              /\ Terminate({c}, "timed-out")

\* A process ends, by itself or by a signal.
Exits(c) ==
    /\ \E p \in group[c] : group' = [group EXCEPT ![c] = @ \ {p}]
    /\ UNCHANGED <<reason, stage>>

------------------------------------------------------------------------------
(* A command of a bounded profile.                                         *)

Request_AbortMissed(c) ==
    /\ At(c, "bounded", "begun")
    /\ IF closed
       THEN Settle(c, "error") /\ UNCHANGED <<pending, toMain>>
       ELSE /\ Goto(c, "waiting")
            /\ pending' = pending \cup {c}
            /\ toMain' = Append(toMain, Message("request", c))
    /\ UNCHANGED <<closed, entry, responses>>

\* execute of the adapter: a call that was aborted by then posts its cancel
\* behind the request.
Request(c) ==
    /\ At(c, "bounded", "begun")
    /\ IF closed
       THEN Settle(c, "error") /\ UNCHANGED <<pending, toMain>>
       ELSE /\ Goto(c, "waiting")
            /\ pending' = pending \cup {c}
            /\ toMain' = toMain \o <<Message("request", c)>>
                         \o (IF aborted[c] THEN <<Message("cancel", c)>> ELSE <<>>)
    /\ UNCHANGED <<closed, entry, responses>>

\* The cancels that the calls in S post, in any order.
Cancels(S) == {s \in [1 .. Cardinality(S) -> {Message("cancel", c) : c \in S}] : IsInjective(s)}

\* handleResponse: the result, or an error of the broker.
Respond ==
    /\ responses # <<>>
    /\ LET c == Head(responses).call IN
         IF c \in pending
         THEN pending' = pending \ {c} /\ Settle(c, Head(responses).type)
         ELSE UNCHANGED <<pending, calls>>
    /\ responses' = Tail(responses)
    /\ UNCHANGED <<closed, toMain, entry>>

\* The main process takes the next message.
MainReceives ==
    /\ toMain # <<>>
    /\ LET m == Head(toMain) IN
         entry' = [entry EXCEPT ![m.call] =
                     IF m.type = "request" THEN "running"
                     ELSE IF @ = "running" THEN "stopping" ELSE @]
    /\ toMain' = Tail(toMain)
    /\ UNCHANGED <<pending, closed, responses>>

\* Its execution of a command is over.
MainEnds(c) ==
    /\ entry[c] \in {"running", "stopping"}
    /\ \E how \in {"exited", "timed-out", "error"}
                  \cup (IF entry[c] = "stopping" THEN {"cancelled"} ELSE {}) :
         responses' = Append(responses, Message(how, c))
    /\ entry' = [entry EXCEPT ![c] = "over"]
    /\ UNCHANGED <<pending, closed, toMain>>

\* It notices that the host is gone: what was posted last may be lost, and
\* whatever is left is stopped.
MainNotices ==
    /\ ~Alive
    /\ toMain' = <<>>
    /\ entry' = [c \in Calls |-> IF entry[c] = "running" THEN "stopping" ELSE entry[c]]
    /\ UNCHANGED <<pending, closed, responses>>

------------------------------------------------------------------------------
(* The host.                                                               *)

\* A run calls a tool.  The host goes on to take requests while it is
\* stopping, so a call may begin then; nobody waits for it.
Begin(c) ==
    /\ Alive
    /\ step[c] = "new"
    /\ \E t \in Tools : tool' = [tool EXCEPT ![c] = t]
    /\ step' = [step EXCEPT ![c] = "begun"]
    /\ UNCHANGED <<aborted, outcome, files, system, commands, bounded>>

\* The listeners of the signals of S.
Listeners(S) ==
    /\ Terminate(S, "cancelled")
    /\ \E s \in Cancels(S \cap pending) : toMain' = toMain \o s

\* cancelRun aborts the signal of the call's run.
Abort(c) ==
    /\ Alive
    /\ InFlight(c)
    /\ ~aborted[c]
    /\ aborted' = [aborted EXCEPT ![c] = TRUE]
    /\ Listeners({c})
    /\ UNCHANGED <<tool, step, outcome, files, system, pending, closed, entry, responses>>

\* shutdown: the application aborts every run, whose listeners come first;
\* then the router stops the commands that run, which have been asked by now,
\* cancels the bounded ones once more and rejects them.
Shutdown ==
    /\ host = "up"
    /\ host' = "stopping"
    /\ awaited' = {c \in Calls : InFlight(c)}
    /\ LET now == {c \in Calls : InFlight(c) /\ ~aborted[c]} IN
         /\ aborted' = [c \in Calls |-> aborted[c] \/ c \in now]
         /\ Terminate({c \in Calls : InFlight(c)}, "cancelled")
         /\ \E s \in Cancels(now \cap pending), t \in Cancels(pending) : toMain' = toMain \o s \o t
    /\ closed' = TRUE
    /\ step' = [c \in Calls |-> IF c \in pending THEN "over" ELSE step[c]]
    /\ outcome' = [c \in Calls |-> IF c \in pending THEN "error" ELSE outcome[c]]
    /\ pending' = {}
    /\ UNCHANGED <<tool, files, windows, entry, responses>>

\* The runs it waited for are settled.
Exit ==
    /\ host = "stopping"
    /\ \A c \in awaited : step[c] = "over"
    /\ host' = "exited"
    /\ UNCHANGED <<calls, files, awaited, windows, commands, bounded>>

Crash ==
    /\ Alive
    /\ host' = "killed"
    /\ UNCHANGED <<calls, files, awaited, windows, commands, bounded>>

FullStep(c) ==
    /\ Alive
    /\ Spawn(c) \/ Close(c) \/ Timeout(c) \/ Stopped(c) \/ GraceOver(c) \/ StopFails(c)
    /\ UNCHANGED <<files, bounded, system>>

BoundedStep ==
    /\ Alive
    /\ Respond \/ \E c \in Calls : Request(c)
    /\ UNCHANGED <<files, commands, system>>

MainStep(c) ==
    /\ \/ MainEnds(c)
       \/ MainReceives
       \/ MainNotices
    /\ UNCHANGED <<calls, files, commands, system>>

Next ==
    \/ \E c \in Calls :
         \/ Begin(c) \/ Abort(c)
         \/ Alive /\ FileStep(c) /\ UNCHANGED <<commands, bounded, system>>
         \/ FullStep(c)
         \/ Exits(c) /\ UNCHANGED <<calls, files, bounded, system>>
         \/ MainStep(c)
    \/ BoundedStep
    \/ Shutdown \/ Exit \/ Crash

\* The timers of a living host fire, what is posted is received, and the main
\* process ends its executions, whose own timers see to that.
Fairness ==
    /\ \A c \in Calls : WF_vars(FullStep(c)) /\ WF_vars(MainStep(c))
    /\ WF_vars(BoundedStep)

Spec == Init /\ [][Next]_vars /\ Fairness

------------------------------------------------------------------------------
(* Safety.                                                                 *)

\* What a call reports is true.  A command that is said to be cancelled or
\* timed out has no living process in its group (on Windows no shell), one
\* that exited has lost its shell and whoever held its pipes, and nothing is
\* called cancelled that nobody cancelled; a command that was told to stop is
\* never said to have exited by itself.
ReportsAreTrue ==
    \A c \in Calls :
        /\ outcome[c] = "cancelled" => aborted[c]
        /\ reason[c] # None => outcome[c] \in {None, reason[c], "error"}
        /\ tool[c] = "full" /\ outcome[c] \in {"cancelled", "timed-out"} =>
             IF windows THEN "shell" \notin group[c] ELSE group[c] = {}
        /\ tool[c] = "full" /\ outcome[c] = "exited" =>
             group[c] \subseteq {"daemon"}

\* The main process is told: as long as the host lives, a bounded command
\* whose call was aborted or is over, and that is running there or about to,
\* has its cancel on the way behind it.
CancelFollows(q, c) ==
    \E i \in DOMAIN q :
        /\ q[i] = Message("cancel", c)
        /\ \A j \in DOMAIN q : q[j] = Message("request", c) => j < i

\* No command that a shutdown waited for outlives the host, unless the host
\* could not stop it and said so; and no bounded command is forgotten in the
\* main process by a call that is over.
NothingIsLeftRunning ==
    /\ host = "exited" =>
         \A c \in awaited : "shell" \in group[c] => outcome[c] = "error"
    /\ Alive =>
         \A c \in Calls :
             /\ tool[c] = "bounded" /\ (aborted[c] \/ step[c] = "over")
             /\ entry[c] = "running" \/ Message("request", c) \in Range(toMain)
             => CancelFollows(toMain, c)

------------------------------------------------------------------------------
(* Liveness.                                                               *)

\* A command ends: whatever its processes do, its call returns as long as the
\* host lives.
CommandsEnd ==
    \A c \in Calls :
        step[c] \in {"running", "waiting"} ~> step[c] = "over" \/ ~Alive
==============================================================================
