----------------------------- MODULE LpacExecution -----------------------------
(***************************************************************************)
(* WindowsLpacManagedExecutionAdapter: commands in a sandbox of their own, *)
(* each with an AppContainer profile that the adapter creates, and with    *)
(* access that the provisioner grants.                                     *)
(*                                                                         *)
(* The adapter lives in the Electron main process, which may die at any    *)
(* time.  It records a profile in an intent file before it creates it; its *)
(* first execution after a start visits the intents that are left.         *)
(* Everything else outside the main process is a helper process that       *)
(* succeeds, fails, or is killed after an abort or a timeout.              *)
(*                                                                         *)
(* Left out: output and events, which kind of abort or timeout it was, the *)
(* files that are neither intents nor leftovers of a write, and whatever a *)
(* helper process might still do after it was killed or its main process   *)
(* died.  Definitions called X_Something are X with a plausible bug and    *)
(* are not part of the model.                                              *)
(***************************************************************************)
EXTENDS AclProvisioner

VARIABLES
    \* on disk and in the system
    intent,   \* the execution's intent file: "none", "planned", "created"
    profile,  \* does its AppContainer profile exist
    command,  \* its process tree: "none", "running", "exited" by itself and with
              \* success, "ended" in another way
    \* the adapter
    shutting, \* #shuttingDown
    recovery, \* #recovery: "none", "pending", "resolved", "rejected"
    todo,     \* the intents that the recovery has still to visit
    visiting, \* the one it visits
    visit,    \* where it is with it
    pc,       \* where the execution is
    outcome,  \* commandResult
    unclean,  \* is there a cleanup error
    result    \* what execute() returned

outside   == <<intent, profile, command>>
recoverer == <<recovery, todo, visiting, visit>>
course    == <<outcome, unclean, result>>
adapterVars == <<outside, shutting, recoverer, pc, course>>
vars == <<provisionerVars, adapterVars>>

NoResult == [cleanup |-> "none", effect |-> "none", termination |-> "none"]

\* The places of an execution that is in #active.
Active == {"verify", "recovery", "intent", "profile", "created", "prepare", "command",
           "cleanup", "delete", "unlink", "settle"}

\* The types of the variables; an execution past its intent has a record of
\* its profile until it removes it.
TypeOK ==
    /\ ledger \in [Executions -> {"absent", "provisioning", "prepared", "cleaning",
                                  "cleanup-failed", "cleaned"}]
    /\ planned \in [Executions -> 0..Grants]
    /\ client \in [Executions -> {"none", "prepare", "cleanup", "served", "ok", "rejected", "lost"}]
    /\ job # "recover" /\ job # "idle" => target \in Executions
    /\ intent \in [Executions -> {"none", "planned", "created"}]
    /\ profile \in [Executions -> BOOLEAN]
    /\ command \in [Executions -> {"none", "running", "exited", "ended"}]
    /\ recovery \in {"none", "pending", "resolved", "rejected"}
    /\ visiting \in todo \cup {NoExecution}
    /\ pc \in [Executions -> Active \cup {"new", "over", "refused", "lost"}]
    /\ outcome \in [Executions -> {"none", "exited", "failed", "unconfirmed"}]
    /\ \A e \in Executions :
        /\ pc[e] \in {"profile", "created"} => intent[e] = "planned"
        /\ pc[e] \in {"prepare", "command"} => intent[e] = "created" /\ profile[e]

Init ==
    /\ InitProvisioner
    /\ intent = [e \in Executions |-> "none"]
    /\ profile = [e \in Executions |-> FALSE]
    /\ command = [e \in Executions |-> "none"]
    /\ shutting = FALSE
    /\ recovery = "none"
    /\ todo = {}
    /\ visiting = NoExecution
    /\ visit = "none"
    /\ pc = [e \in Executions |-> "new"]
    /\ outcome = [e \in Executions |-> "none"]
    /\ unclean = [e \in Executions |-> FALSE]
    /\ result = [e \in Executions |-> NoResult]

To(e, label) == pc' = [pc EXCEPT ![e] = label]

\* #serviceRequest: a client process for one operation.
Ask(e, operation) == client' = [client EXCEPT ![e] = operation]

\* Its answer is taken; or nobody waits for it any more, because of an abort
\* or a timeout.
Hear(e) ==
    /\ client[e] = "ok"
    /\ client' = [client EXCEPT ![e] = "none"]

HearNothing(e) ==
    /\ client[e] # "none"
    /\ client' = [client EXCEPT ![e] = "none"]

NotProvisioner == UNCHANGED <<disk, service, worker>>

------------------------------------------------------------------------------
(* execute(), up to the try.                                               *)

Execute(e) ==
    /\ ~shutting
    /\ pc[e] = "new"
    /\ To(e, "verify")
    /\ UNCHANGED <<provisionerVars, outside, shutting, recoverer, course>>

\* #verifyInstallation fails, the recovery was rejected, or the workspace is
\* not registered: execute() throws.
Refuse(e) ==
    /\ \/ pc[e] = "verify"
       \/ pc[e] = "recovery" /\ recovery \in {"resolved", "rejected"}
    /\ To(e, "refused")
    /\ UNCHANGED <<provisionerVars, outside, shutting, recoverer, course>>

\* The first execution starts the recovery, the others wait for the same one.
JoinRecovery_EachItsOwn(e) ==
    /\ pc[e] = "verify"
    /\ To(e, "recovery")
    /\ IF recovery # "pending"
         THEN recovery' = "pending" /\ todo' = {i \in Executions : intent[i] # "none"}
         ELSE UNCHANGED <<recovery, todo>>
    /\ UNCHANGED <<provisionerVars, outside, shutting, visiting, visit, course>>

JoinRecovery(e) ==
    /\ pc[e] = "verify"
    /\ To(e, "recovery")
    /\ IF recovery = "none"
         THEN recovery' = "pending" /\ todo' = {i \in Executions : intent[i] # "none"}
         ELSE UNCHANGED <<recovery, todo>>
    /\ UNCHANGED <<provisionerVars, outside, shutting, visiting, visit, course>>

Proceed(e) ==
    /\ pc[e] = "recovery"
    /\ recovery = "resolved"
    /\ To(e, "intent")
    /\ UNCHANGED <<provisionerVars, outside, shutting, recoverer, course>>

------------------------------------------------------------------------------
(* #recoverProfileIntents.                                                 *)

Visit(e) ==
    /\ recovery = "pending"
    /\ visiting = NoExecution
    /\ e \in todo
    /\ visiting' = e
    /\ visit' = "cleanup"
    /\ Ask(e, "cleanup")
    /\ NotProvisioner
    /\ UNCHANGED <<outside, shutting, recovery, todo, pc, course>>

VisitCleaned ==
    /\ visit = "cleanup"
    /\ Hear(visiting)
    /\ visit' = "delete"
    /\ NotProvisioner
    /\ UNCHANGED <<outside, shutting, recovery, todo, visiting, pc, course>>

VisitDeletes ==
    /\ visit = "delete"
    /\ profile' = [profile EXCEPT ![visiting] = FALSE]
    /\ visit' = "unlink"
    /\ UNCHANGED <<provisionerVars, intent, command, shutting, recovery, todo,
                   visiting, pc, course>>

VisitUnlinks ==
    /\ visit = "unlink"
    /\ intent' = [intent EXCEPT ![visiting] = "none"]
    /\ todo' = todo \ {visiting}
    /\ visiting' = NoExecution
    /\ visit' = "none"
    /\ UNCHANGED <<provisionerVars, profile, command, shutting, recovery, pc, course>>

\* One failure rejects the recovery, for as long as the main process lives.
VisitFails ==
    /\ visit # "none"
    /\ IF visit = "cleanup" THEN HearNothing(visiting) ELSE UNCHANGED client
    /\ recovery' = "rejected"
    /\ todo' = {}
    /\ visiting' = NoExecution
    /\ visit' = "none"
    /\ NotProvisioner
    /\ UNCHANGED <<outside, shutting, pc, course>>

Recovered ==
    /\ recovery = "pending"
    /\ todo = {}
    /\ recovery' = "resolved"
    /\ UNCHANGED <<provisionerVars, outside, shutting, todo, visiting, visit, pc, course>>

------------------------------------------------------------------------------
(* The try of #execute.                                                    *)

\* An execution whose intent could not be written has nothing to clean.
PlanIntent(e, written) ==
    /\ pc[e] = "intent"
    /\ intent' = [intent EXCEPT ![e] = IF written THEN "planned" ELSE "none"]
    /\ To(e, IF written THEN "profile" ELSE "settle")
    /\ UNCHANGED <<provisionerVars, profile, command, shutting, recoverer, course>>

\* A launcher that fails, or is killed, may have created the profile.
CreateProfile(e, created, ok) ==
    /\ pc[e] = "profile"
    /\ ok => created
    /\ profile' = [profile EXCEPT ![e] = created]
    /\ To(e, IF ok THEN "created" ELSE "delete")
    /\ UNCHANGED <<provisionerVars, intent, command, shutting, recoverer, course>>

RecordProfile(e) ==
    /\ pc[e] = "created"
    /\ intent' = [intent EXCEPT ![e] = "created"]
    /\ Ask(e, "prepare")
    /\ To(e, "prepare")
    /\ NotProvisioner
    /\ UNCHANGED <<profile, command, shutting, recoverer, outcome, unclean, result>>

RecordFails(e) ==
    /\ pc[e] = "created"
    /\ To(e, "delete")
    /\ UNCHANGED <<provisionerVars, outside, shutting, recoverer, course>>

Start(e) ==
    /\ pc[e] = "prepare"
    /\ Hear(e)
    /\ command' = [command EXCEPT ![e] = "running"]
    /\ To(e, "command")
    /\ NotProvisioner
    /\ UNCHANGED <<intent, profile, shutting, recoverer, course>>

\* The cleanup request of the finally.
Clean(e) ==
    /\ Ask(e, "cleanup")
    /\ To(e, "cleanup")
    /\ NotProvisioner

\* Prepare was refused, its answer is not what was asked for or does not
\* come, or the command could not be spawned.
PrepareFails(e) ==
    /\ pc[e] = "prepare"
    /\ Clean(e)
    /\ UNCHANGED <<outside, shutting, recoverer, course>>

CommandExits(e, ok) ==
    /\ pc[e] = "command"
    /\ command' = [command EXCEPT ![e] = IF ok THEN "exited" ELSE "ended"]
    /\ outcome' = [outcome EXCEPT ![e] = IF ok THEN "exited" ELSE "failed"]
    /\ Clean(e)
    /\ UNCHANGED <<intent, profile, shutting, recoverer, unclean, result>>

\* An abort or a timeout: taskkill, and five seconds to see the tree end.
CommandKilled(e, confirmed) ==
    /\ pc[e] = "command"
    /\ command' = [command EXCEPT ![e] = IF confirmed THEN "ended" ELSE @]
    /\ outcome' = [outcome EXCEPT ![e] = IF confirmed THEN "failed" ELSE "unconfirmed"]
    /\ Clean(e)
    /\ UNCHANGED <<intent, profile, shutting, recoverer, unclean, result>>

\* A tree that could not be killed ends at some time.
CommandGone(e) ==
    /\ command[e] = "running"
    /\ pc[e] # "command"
    /\ command' = [command EXCEPT ![e] = "ended"]
    /\ UNCHANGED <<provisionerVars, intent, profile, shutting, recoverer, pc, course>>

------------------------------------------------------------------------------
(* The finally of #execute, and its result.                                *)

\* Only "ok" of the response is looked at, not what the result says.
Cleaned(e) ==
    /\ pc[e] = "cleanup"
    /\ Hear(e)
    /\ To(e, "delete")
    /\ NotProvisioner
    /\ UNCHANGED <<outside, shutting, recoverer, course>>

CleanupFails_Unnoticed(e) ==
    /\ pc[e] = "cleanup"
    /\ HearNothing(e)
    /\ To(e, "delete")
    /\ NotProvisioner
    /\ UNCHANGED <<outside, shutting, recoverer, course>>

CleanupFails(e) ==
    /\ pc[e] = "cleanup"
    /\ HearNothing(e)
    /\ unclean' = [unclean EXCEPT ![e] = TRUE]
    /\ To(e, "delete")
    /\ NotProvisioner
    /\ UNCHANGED <<outside, shutting, recoverer, outcome, result>>

\* The profile goes, whatever became of the cleanup request.
DeleteProfile(e) ==
    /\ pc[e] = "delete"
    /\ profile' = [profile EXCEPT ![e] = FALSE]
    /\ To(e, "unlink")
    /\ UNCHANGED <<provisionerVars, intent, command, shutting, recoverer, course>>

Unlink(e) ==
    /\ pc[e] = "unlink"
    /\ intent' = [intent EXCEPT ![e] = "none"]
    /\ To(e, "settle")
    /\ UNCHANGED <<provisionerVars, profile, command, shutting, recoverer, course>>

\* Either of the two fails, and the intent stays.
DeleteFails(e) ==
    /\ pc[e] \in {"delete", "unlink"}
    /\ unclean' = [unclean EXCEPT ![e] = TRUE]
    /\ To(e, "settle")
    /\ UNCHANGED <<provisionerVars, outside, shutting, recoverer, outcome, result>>

Effect_OfAnyExit(e) == IF outcome[e] = "none" THEN "none" ELSE "confirmed"

Effect(e) ==
    IF outcome[e] = "none" THEN "none"
    ELSE IF outcome[e] = "exited" /\ ~unclean[e] THEN "confirmed" ELSE "unknown"

Termination(e) ==
    CASE outcome[e] \in {"exited", "failed"} -> "confirmed"
      [] outcome[e] = "unconfirmed"          -> "unconfirmed"
      [] outcome[e] = "none"                 -> IF unclean[e] THEN "unconfirmed" ELSE "not-started"

Settle(e) ==
    /\ pc[e] = "settle"
    /\ result' = [result EXCEPT ![e] =
                    [cleanup     |-> IF unclean[e] THEN "failed" ELSE "clean",
                     effect      |-> Effect(e),
                     termination |-> Termination(e)]]
    /\ outcome' = [outcome EXCEPT ![e] = "none"]
    /\ unclean' = [unclean EXCEPT ![e] = FALSE]
    /\ To(e, "over")
    /\ UNCHANGED <<provisionerVars, outside, shutting, recoverer>>

------------------------------------------------------------------------------
(* The main process.                                                       *)

Shutdown ==
    /\ ~shutting
    /\ shutting' = TRUE
    /\ UNCHANGED <<provisionerVars, outside, recoverer, pc, course>>

\* The end of the process, after a shutdown or at any moment, until the next
\* one starts.  The lifetime broker takes the commands with it, and the
\* clients die.
Die ==
    /\ shutting' = FALSE
    /\ pc' = [e \in Executions |-> IF pc[e] \in Active THEN "lost" ELSE pc[e]]
    /\ command' = [e \in Executions |->
                    IF command[e] = "running" THEN "ended" ELSE command[e]]
    /\ outcome' = [e \in Executions |-> "none"]
    /\ unclean' = [e \in Executions |-> FALSE]
    /\ client' = [e \in Executions |-> "none"]
    /\ recovery' = "none"
    /\ todo' = {}
    /\ visiting' = NoExecution
    /\ visit' = "none"
    /\ NotProvisioner
    /\ UNCHANGED <<intent, profile, result>>

ExecutionStep(e) ==
    \/ JoinRecovery(e) \/ Refuse(e) \/ Proceed(e)
    \/ RecordProfile(e) \/ RecordFails(e) \/ Start(e) \/ PrepareFails(e)
    \/ CommandGone(e) \/ Cleaned(e) \/ CleanupFails(e)
    \/ DeleteProfile(e) \/ Unlink(e) \/ DeleteFails(e) \/ Settle(e)
    \/ \E written \in BOOLEAN : PlanIntent(e, written)
    \/ \E created, ok \in BOOLEAN : CreateProfile(e, created, ok)
    \/ \E ok \in BOOLEAN : CommandExits(e, ok) \/ CommandKilled(e, ok)

RecoveryStep ==
    \/ \E e \in Executions : Visit(e)
    \/ VisitCleaned \/ VisitDeletes \/ VisitUnlinks \/ VisitFails \/ Recovered

Next ==
    \/ ProvisionerStep /\ UNCHANGED adapterVars
    \/ RecoveryStep
    \/ \E e \in Executions : Execute(e) \/ ExecutionStep(e)
    \/ Shutdown \/ Die

Spec == Init /\ [][Next]_vars

------------------------------------------------------------------------------
(* Safety.                                                                 *)

\* The recovery never takes from a command the profile it runs in: it visits
\* executions of earlier main processes only.
RecoverySparesTheLiving ==
    visiting # NoExecution => pc[visiting] \notin Active

\* What the user is told of a command is true: "none" only if it never ran,
\* "confirmed" only if it ended, and no end is confirmed of one that runs.
EffectIsTrue ==
    \A e \in Executions : pc[e] = "over" =>
        /\ result[e].effect = "none" => command[e] = "none"
        /\ result[e].effect = "confirmed" => command[e] = "exited"
        /\ command[e] = "running" => result[e].termination = "unconfirmed"

\* What an execution leaves behind is known.  Through deaths of the main
\* process at any moment, a profile that exists has an intent, by which the
\* next start finds it; and what a finished execution leaves the service holds
\* for not removable, or its result says that cleaning failed.
LeftoversAreKnown ==
    /\ TypeOK
    /\ \A e \in Executions :
        /\ profile[e] => intent[e] # "none"
        /\ pc[e] = "over" /\ result[e].cleanup = "clean" =>
             /\ intent[e] = "none"
             /\ ace[e] # {} => ledger[e] \in {"cleanup-failed", "cleaning"}
==============================================================================
