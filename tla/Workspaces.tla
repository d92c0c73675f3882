------------------------------ MODULE Workspaces -------------------------------
(***************************************************************************)
(* Workspaces, their agents and the conversations (threads) with them, as  *)
(* the Agent host stores them, and the main process's record of the folder *)
(* the user chose last: a folder becomes a workspace only when it was      *)
(* chosen in the dialog, once for each choice.                             *)
(*                                                                         *)
(* Ids are counted from 1, so that a table is a sequence.  The order of    *)
(* lists (last opened, last updated first) is left out: what is first in   *)
(* one may be anything in it, whatever was touched last.  Left out too:    *)
(* names, settings, policies and the contexts of workspaces.               *)
(* Definitions called X_Something are X with a plausible bug and are not   *)
(* part of the model.                                                      *)
(***************************************************************************)
EXTENDS Naturals, Sequences, SequencesExt, FiniteSets

CONSTANTS
    Folders, NoFolder,
    Earlier,                   \* bound: threads of an earlier session
    MaxWorkspaces, MaxThreads, \* bounds: rows of the tables
    MaxChoices                 \* bound: folders chosen in the dialog

ASSUME WorkspacesAssumption ==
    /\ NoFolder \notin Folders
    /\ {Earlier, MaxWorkspaces, MaxThreads, MaxChoices} \subseteq Nat

VARIABLES
    folders,    \* local_root_path of each workspace
    homes,      \* the workspace of each agent
    threads,    \* the workspace of each conversation
    authorized, \* the folder chosen last, until it is used, revoked or too old
    choices     \* how often each folder was chosen without being used since

tables == <<folders, homes, threads>>
authorizer == <<authorized, choices>>

\* The database of an earlier session: a workspace with an agent and threads.
StoreInit ==
    /\ folders = <<NoFolder>> /\ homes = <<1>>
    /\ threads = [c \in 1 .. Earlier |-> 1]
    /\ authorized = NoFolder
    /\ choices = [f \in Folders |-> 0]

\* A folder that is a workspace already is opened again instead.
CreateWorkspace(folder, w) ==
    LET old == {v \in DOMAIN folders : folder /= NoFolder /\ folders[v] = folder} IN
    /\ w \in IF old = {} THEN {Len(folders) + 1} ELSE old
    /\ w <= MaxWorkspaces
    /\ folders' = IF old = {} THEN Append(folders, folder) ELSE folders
    /\ UNCHANGED <<homes, threads>>

CreateAgent(w) ==
    /\ w \in DOMAIN folders
    /\ homes' = Append(homes, w)
    /\ UNCHANGED <<folders, threads>>

CreateConversation(w, agent) ==
    /\ w \in DOMAIN folders /\ agent \in DOMAIN homes /\ homes[agent] = w
    /\ Len(threads) < MaxThreads
    /\ threads' = Append(threads, w)
    /\ UNCHANGED <<folders, homes>>

----------------------------------------------------------------------------
\* ProjectDirectoryAuthorizer, for the one window.

Revoke ==
    /\ authorized' = NoFolder
    /\ UNCHANGED choices

Authorize(f) ==
    /\ choices[f] < MaxChoices
    /\ authorized' = f
    /\ choices' = [choices EXCEPT ![f] = @ + 1]

\* Two minutes later.
Expire ==
    /\ authorized /= NoFolder
    /\ authorized' = NoFolder
    /\ UNCHANGED <<tables, choices>>

\* The authorization is taken before the path is looked at again.
Consume_Reusable(f) ==
    /\ authorized = f
    /\ choices' = [choices EXCEPT ![f] = IF @ = 0 THEN MaxChoices + 1 ELSE @ - 1]
    /\ UNCHANGED authorized

Consume(f) ==
    /\ authorized = f
    /\ authorized' = NoFolder
    /\ choices' = [choices EXCEPT ![f] = @ - 1]

\* A folder is one workspace, and the user chose it: no choice is used twice,
\* whatever dialogs, reloads and repeated requests come between.
FoldersAreChosen ==
    /\ \A f \in Folders : choices[f] \in 0 .. MaxChoices
    /\ \A v, w \in DOMAIN folders :
         folders[v] = folders[w] /\ folders[v] /= NoFolder => v = w
==============================================================================
