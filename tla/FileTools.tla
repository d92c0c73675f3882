------------------------------- MODULE FileTools -------------------------------
(***************************************************************************)
(* The tool calls of the Agent host that read and write files of the       *)
(* workspace, and the calls themselves: which tool each is, where it is,   *)
(* its run's abort signal and what it returned.  CommandTools adds the     *)
(* calls that run commands.                                                *)
(*                                                                         *)
(* One file is enough: calls on different files do not meet.  Its content  *)
(* is a version in two halves, so that a half-written file shows.  An      *)
(* inode is named by the call that created it.                             *)
(*                                                                         *)
(* Left out: which paths lie inside the workspace, file modes, encodings   *)
(* and the size limits, whose refusals are the outcome "error" of any      *)
(* call.  Definitions called X_Something are X with a plausible bug and    *)
(* are not part of the model.                                              *)
(***************************************************************************)
EXTENDS Naturals, Sequences, SequencesExt, FiniteSets

CONSTANTS
    Calls, \* tool calls, each of a run of its own
    Tools, \* the tools they may be: "read", "write", "full", "bounded"
    Old    \* the inode of the file before any call

None == "none"

ASSUME FileToolsAssumption ==
    /\ IsFiniteSet(Calls)
    /\ Old \notin Calls /\ None \notin Calls \cup {Old}
    /\ Tools \subseteq {"read", "write", "full", "bounded"}

VARIABLES
    tool,    \* what each call is
    step,    \* where its execute() is
    aborted, \* is its run's signal aborted
    outcome, \* what execute() returned, or threw
    target,  \* the inode that has the file's name, or none
    data,    \* the two halves of each inode
    temp,    \* the calls whose temporary file has a name
    fd,      \* the inode that a read has open
    got      \* the halves it has read

calls == <<tool, step, aborted, outcome>>
files == <<target, data, temp, fd, got>>

Empty == <<>>
Whole(v) == <<v, v>>

FilesInit ==
    /\ tool = [c \in Calls |-> None]
    /\ step = [c \in Calls |-> "new"]
    /\ aborted = [c \in Calls |-> FALSE]
    /\ outcome = [c \in Calls |-> None]
    /\ target \in {Old, None}
    /\ data = [i \in Calls \cup {Old} |-> IF i = Old THEN Whole(Old) ELSE Empty]
    /\ temp = {}
    /\ fd = [c \in Calls |-> None]
    /\ got = [c \in Calls |-> Empty]

At(c, what, where) == tool[c] = what /\ step[c] = where

Goto(c, where) == step' = [step EXCEPT ![c] = where] /\ UNCHANGED <<tool, aborted, outcome>>

\* execute() of c settles.
Settle(c, how) ==
    /\ step' = [step EXCEPT ![c] = "over"]
    /\ outcome' = [outcome EXCEPT ![c] = how]
    /\ UNCHANGED <<tool, aborted>>

\* A cancelled call throws ToolExecutionCancelledError whatever went wrong.
Failure(c) == IF aborted[c] THEN "cancelled" ELSE "error"

------------------------------------------------------------------------------
(* write_file.                                                             *)

\* A call is refused for its arguments, its path, or a file that is not
\* regular.
Refuse(c) ==
    /\ step[c] = "begun"
    /\ Settle(c, "error")
    /\ UNCHANGED files

\* throwIfCancelled, then the path is resolved and looked at.
Inspect(c) ==
    /\ At(c, "write", "begun")
    /\ IF aborted[c] THEN Settle(c, "cancelled") ELSE Goto(c, "writing")
    /\ UNCHANGED files

\* writeFile to the temporary path goes on by one half.  An abort that it
\* notices, or an I/O error, ends it; an abort is always noticed once the
\* whole file is written.
WriteHalf(c) ==
    /\ At(c, "write", "writing")
    /\ Len(data[c]) < 2
    /\ data' = [data EXCEPT ![c] = Append(@, c)]
    /\ temp' = temp \cup {c}
    /\ UNCHANGED <<calls, target, fd, got>>

WriteFails(c) ==
    /\ At(c, "write", "writing")
    /\ Goto(c, "unlinking")
    /\ UNCHANGED files

Written(c) ==
    /\ At(c, "write", "writing")
    /\ data[c] = Whole(c)
    /\ Goto(c, IF aborted[c] THEN "unlinking" ELSE "renaming")
    /\ UNCHANGED files

Rename_AbortWins(c) ==
    /\ At(c, "write", "renaming")
    /\ target' = c
    /\ temp' = temp \ {c}
    /\ Settle(c, IF aborted[c] THEN "cancelled" ELSE "ok")
    /\ UNCHANGED <<data, fd, got>>

\* An abort comes too late for the rename: the call returns what it did.
Rename(c) ==
    /\ At(c, "write", "renaming")
    /\ target' = c
    /\ temp' = temp \ {c}
    /\ Settle(c, "ok")
    /\ UNCHANGED <<data, fd, got>>

RenameFails(c) ==
    /\ At(c, "write", "renaming")
    /\ Goto(c, "unlinking")
    /\ UNCHANGED files

\* The temporary file is removed; if that fails it stays.
Unlink(c) ==
    /\ At(c, "write", "unlinking")
    /\ temp' \in {temp, temp \ {c}}
    /\ Settle(c, Failure(c))
    /\ UNCHANGED <<target, data, fd, got>>

------------------------------------------------------------------------------
(* read_file.                                                              *)

Open(c) ==
    /\ At(c, "read", "begun")
    /\ IF aborted[c] THEN Settle(c, "cancelled") /\ UNCHANGED fd
       ELSE IF target = None THEN Settle(c, "error") /\ UNCHANGED fd
       ELSE Goto(c, "reading") /\ fd' = [fd EXCEPT ![c] = target]
    /\ UNCHANGED <<target, data, temp, got>>

ReadHalf(c) ==
    /\ At(c, "read", "reading")
    /\ Len(got[c]) < 2
    /\ got' = [got EXCEPT ![c] = @ \o SubSeq(data[fd[c]], Len(@) + 1, Len(@) + 1)]
    /\ UNCHANGED <<calls, target, data, temp, fd>>

\* The stream ends, is aborted, or breaks.
ReadEnds(c) ==
    /\ At(c, "read", "reading")
    /\ \/ Len(got[c]) >= Len(data[fd[c]]) /\ Settle(c, "ok")
       \/ Settle(c, Failure(c))
    /\ UNCHANGED files

FileStep(c) ==
    \/ Refuse(c) \/ Inspect(c) \/ WriteHalf(c) \/ WriteFails(c) \/ Written(c)
    \/ Rename(c) \/ RenameFails(c) \/ Unlink(c)
    \/ Open(c) \/ ReadHalf(c) \/ ReadEnds(c)

------------------------------------------------------------------------------
(* Safety.                                                                 *)

\* write_file replaces the file in one piece: whoever looks at the name finds
\* one whole version, and a read that succeeded has read one version, though
\* the file was replaced under it.  A write that was cancelled or failed has
\* not replaced the file, and one that succeeded has left nothing behind.
FilesAreWhole ==
    /\ target # None => data[target] = Whole(target)
    /\ \A c \in Calls :
        /\ tool[c] = "read" /\ outcome[c] = "ok" => got[c] = Whole(fd[c])
        /\ tool[c] = "write" /\ outcome[c] \in {"cancelled", "error"} => target # c
        /\ tool[c] = "write" /\ outcome[c] = "ok" => c \notin temp
==============================================================================
