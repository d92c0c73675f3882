-------------------------------- MODULE ToolInv --------------------------------
(***************************************************************************)
(* The inductive invariant behind the safety properties of FileTools and   *)
(* CommandTools: what the step of a call says of its files, its command    *)
(* and the messages about it.                                              *)
(***************************************************************************)
EXTENDS CommandTools

Outcomes == {"ok", "error", "cancelled", "timed-out", "exited"}
Requests == {Message("request", c) : c \in Calls}
Cancellations == {Message("cancel", c) : c \in Calls}
Messages == Requests \cup Cancellations
Answers == {Message(how, c) : how \in Outcomes, c \in Calls}
Contents == {Empty} \cup {<<v>> : v \in Calls \cup {Old}} \cup {Whole(v) : v \in Calls \cup {Old}}

\* Every variable keeps its shape.
CallTypes ==
    /\ tool \in [Calls -> Tools \cup {None}]
    /\ step \in [Calls -> {"new", "begun", "writing", "renaming", "unlinking", "reading",
                           "running", "waiting", "over"}]
    /\ aborted \in [Calls -> BOOLEAN]
    /\ outcome \in [Calls -> Outcomes \cup {None}]
    /\ pending \in SUBSET Calls

FileTypes ==
    /\ target \in Calls \cup {Old, None}
    /\ data \in [Calls \cup {Old} -> Contents]
    /\ temp \in SUBSET Calls
    /\ fd \in [Calls -> Calls \cup {Old, None}]
    /\ got \in [Calls -> Contents]

CommandTypes ==
    /\ group \in [Calls -> SUBSET {"shell", "child", "daemon"}]
    /\ reason \in [Calls -> {None, "cancelled", "timed-out"}]
    /\ stage \in [Calls -> {None, "asked", "killed"}]
    /\ windows \in BOOLEAN

MessageTypes ==
    /\ toMain \in Seq(Messages)
    /\ entry \in [Calls -> {None, "running", "stopping", "over"}]
    /\ responses \in Seq(Answers)

HostTypes ==
    /\ host \in {"up", "stopping", "exited", "killed"}
    /\ awaited \in SUBSET Calls
    /\ closed \in BOOLEAN

TypeOK == CallTypes /\ FileTypes /\ CommandTypes /\ MessageTypes /\ HostTypes

\* Each tool has steps of its own, and a call an outcome once it is over.
StepOfTool ==
    \A c \in Calls :
        /\ step[c] # "new" => tool[c] # None
        /\ outcome[c] # None <=> step[c] = "over"
        /\ step[c] \in {"writing", "renaming", "unlinking"} => tool[c] = "write"
        /\ step[c] = "reading" => tool[c] = "read"
        /\ step[c] = "running" => tool[c] = "full"
        /\ step[c] = "waiting" => tool[c] = "bounded"
        /\ step[c] = "waiting" <=> c \in pending
        /\ outcome[c] = "ok" => tool[c] # "full"

\* An inode is its writer's, and whole before it has the file's name.
WritesOfStep ==
    /\ data[Old] = Whole(Old)
    /\ \A c \in Calls :
        /\ data[c] \in {Empty, <<c>>, Whole(c)}
        /\ step[c] = "renaming" => data[c] = Whole(c)
        /\ target = c => /\ data[c] = Whole(c)
                         /\ tool[c] = "write"
                         /\ outcome[c] = "ok"
        /\ tool[c] = "write" /\ outcome[c] = "ok" => c \notin temp

\* A read goes through one inode that was whole when it was opened.
ReadsOfStep ==
    \A c \in Calls :
        /\ step[c] = "reading" => fd[c] # None
        /\ fd[c] # None => /\ data[fd[c]] = Whole(fd[c])
                           /\ tool[c] = "read" /\ step[c] \in {"reading", "over"}
        /\ fd[c] = None => got[c] = Empty
        /\ got[c] \in {Empty, <<fd[c]>>, Whole(fd[c])}
        /\ tool[c] = "read" /\ outcome[c] = "ok" => got[c] = Whole(fd[c])

\* Processes are those of a full command that was spawned, and a reason was
\* given while it ran.
CommandOfStep ==
    \A c \in Calls :
        /\ group[c] # {} \/ reason[c] # None => tool[c] = "full" /\ step[c] \in {"running", "over"}
        /\ reason[c] = "cancelled" => aborted[c]

\* A request is posted once, before the main process knows of the command; a
\* cancel is posted, and the command stopped, for an abort only; an answer is
\* the end of the command there.
OnceOnly(q) == \A i, j \in DOMAIN q : q[i] = q[j] /\ q[i] \in Requests => i = j

MessagesOfCall ==
    /\ OnceOnly(toMain)
    /\ \A c \in Calls :
        /\ Message("request", c) \in Range(toMain) =>
            tool[c] = "bounded" /\ step[c] \in {"waiting", "over"} /\ entry[c] = None
        /\ Message("cancel", c) \in Range(toMain) => aborted[c]
        /\ entry[c] # None => tool[c] = "bounded" /\ step[c] \in {"waiting", "over"}
        /\ entry[c] = "stopping" => aborted[c] \/ ~Alive
        /\ \A how \in Outcomes :
            Message(how, c) \in Range(responses) =>
                /\ entry[c] = "over"
                /\ how = "cancelled" => aborted[c] \/ ~Alive

\* NothingIsLeftRunning, of a command in the main process.
CancelsOfCall ==
    Alive =>
        \A c \in Calls :
            /\ tool[c] = "bounded" /\ (aborted[c] \/ step[c] = "over")
            /\ entry[c] = "running" \/ Message("request", c) \in Range(toMain)
            => CancelFollows(toMain, c)

\* The host exits after the calls it waited for.
ExitOfHost == host = "exited" => \A c \in awaited : step[c] = "over"

ToolInv ==
    /\ TypeOK
    /\ StepOfTool
    /\ WritesOfStep
    /\ ReadsOfStep
    /\ CommandOfStep
    /\ ReportsAreTrue
    /\ MessagesOfCall
    /\ CancelsOfCall
    /\ ExitOfHost
==============================================================================
