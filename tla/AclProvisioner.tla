---------------------------- MODULE AclProvisioner ----------------------------
(***************************************************************************)
(* The sandbox ACL provisioner: a service that grants the Package SID of   *)
(* an execution access to its paths, and takes the access away, with a     *)
(* ledger on disk for each execution.                                      *)
(*                                                                         *)
(* The service has one pipe instance, so it serves one client at a time,   *)
(* each request in a worker process of its own, which it kills after a     *)
(* while.  A worker may die at any moment, in the middle of a write to the *)
(* ledger as well; every write of the ledger is an action, as is every     *)
(* icacls.  The service itself may stop and start again.                   *)
(*                                                                         *)
(* Left out: authentication, the checks of paths and runtime packs, which  *)
(* are one way to reject a request, the retry of a prepare request, which  *)
(* its only client never makes, and the kind of access that is granted.    *)
(* Definitions called X_Something are X with a plausible bug and are not   *)
(* part of the model.                                                      *)
(***************************************************************************)
EXTENDS Naturals

CONSTANTS
    Executions,  \* execution ids
    NoExecution, \* none
    Grants,      \* number of paths that a prepare request grants access to
    MaxDeaths    \* bound: workers that die

ASSUME AclProvisionerAssumption ==
    /\ NoExecution \notin Executions
    /\ Grants \in Nat \ {0}
    /\ MaxDeaths \in Nat

VARIABLES
    \* on disk
    ledger,   \* state of the execution's lifecycle-ledger.json
    owned,    \* does it name its execution and the owner of its profile
    litter,   \* does the directory hold anything but one ledger
    planned,  \* number of entries in aclGrants
    ace,      \* the paths that really carry the Package SID
    \* processes
    service,  \* "down", "starting", "serving"
    job,      \* what the worker does: "idle", "prepare", "cleanup", "recover"
    target,   \* the execution it works on
    step,     \* where it is
    left,     \* the entries it has still to remove
    stuck,    \* has an entry resisted removal
    rest,     \* startup recovery: the directories it has still to visit
    rejected, \* startup recovery: has one been refused
    deaths,   \* number of workers that died
    client    \* the client process of each execution: "none", the operation it
              \* asks for, "served", or the answer it got

disk   == <<ledger, owned, litter, planned, ace>>
worker == <<job, target, step, left, stuck, rest, rejected, deaths>>
provisionerVars == <<disk, service, worker, client>>

InitProvisioner ==
    /\ ledger = [e \in Executions |-> "absent"]
    /\ owned = [e \in Executions |-> FALSE]
    /\ litter = [e \in Executions |-> FALSE]
    /\ planned = [e \in Executions |-> 0]
    /\ ace = [e \in Executions |-> {}]
    /\ service = "serving"
    /\ job = "idle"
    /\ target = NoExecution
    /\ step = "none"
    /\ left = {}
    /\ stuck = FALSE
    /\ rest = {}
    /\ rejected = FALSE
    /\ deaths = 0
    /\ client = [e \in Executions |-> "none"]

At(j, s) == service # "down" /\ job = j /\ step = s

\* What the worker's steps leave alone.
KeepQueue == UNCHANGED <<service, job, target, rest, rejected, deaths, client>>
Goto(s) == step' = s

\* The client that was served gets an answer, if it is still there.
Answered(e, answer) ==
    client' = [client EXCEPT ![e] = IF @ = "served" THEN answer ELSE @]

WorkerEnds ==
    /\ job' = "idle"
    /\ target' = NoExecution
    /\ step' = "none"
    /\ left' = {}
    /\ stuck' = FALSE

\* The worker of a request is done.
Reply(answer) ==
    /\ Answered(target, answer)
    /\ WorkerEnds

------------------------------------------------------------------------------
(* Serve, and a prepare request.                                           *)

Accept(e) ==
    /\ service = "serving"
    /\ job = "idle"
    /\ client[e] \in {"prepare", "cleanup"}
    /\ client' = [client EXCEPT ![e] = "served"]
    /\ job' = client[e]
    /\ target' = e
    /\ Goto("look")
    /\ UNCHANGED <<disk, service, left, stuck, rest, rejected, deaths>>

\* There is a ledger already, or the registry does not allow the plan.
RejectPrepare ==
    /\ At("prepare", "look")
    /\ Reply("rejected")
    /\ UNCHANGED <<disk, service, rest, rejected, deaths>>

CreateLedger ==
    /\ At("prepare", "look")
    /\ ledger[target] = "absent"
    /\ ledger' = [ledger EXCEPT ![target] = "provisioning"]
    /\ Goto("own")
    /\ UNCHANGED <<owned, litter, planned, ace, left, stuck>>
    /\ KeepQueue

OwnLedger ==
    /\ At("prepare", "own")
    /\ owned' = [owned EXCEPT ![target] = TRUE]
    /\ Goto("plan")
    /\ UNCHANGED <<ledger, litter, planned, ace, left, stuck>>
    /\ KeepQueue

\* Grant-SandboxAcl: the entry first, then the access.
PlanGrant ==
    /\ At("prepare", "plan")
    /\ planned[target] < Grants
    /\ planned' = [planned EXCEPT ![target] = @ + 1]
    /\ Goto("apply")
    /\ UNCHANGED <<ledger, owned, litter, ace, left, stuck>>
    /\ KeepQueue

ApplyGrant ==
    /\ At("prepare", "apply")
    /\ ace' = [ace EXCEPT ![target] = @ \cup {planned[target]}]
    /\ Goto("plan")
    /\ UNCHANGED <<ledger, owned, litter, planned, left, stuck>>
    /\ KeepQueue

\* icacls failed, or its effect could not be verified on every file.
GrantFails(partly) ==
    /\ At("prepare", "apply")
    /\ ace' = [ace EXCEPT ![target] = IF partly THEN @ \cup {planned[target]} ELSE @]
    /\ Goto("clean")
    /\ UNCHANGED <<ledger, owned, litter, planned, left, stuck>>
    /\ KeepQueue

\* The runtime pack is verified once more.
PackChanged ==
    /\ At("prepare", "plan")
    /\ planned[target] = Grants
    /\ Goto("clean")
    /\ UNCHANGED <<disk, left, stuck>>
    /\ KeepQueue

Prepared ==
    /\ At("prepare", "plan")
    /\ planned[target] = Grants
    /\ ledger' = [ledger EXCEPT ![target] = "prepared"]
    /\ Goto("done")
    /\ UNCHANGED <<owned, litter, planned, ace, left, stuck>>
    /\ KeepQueue

------------------------------------------------------------------------------
(* A cleanup request, and Invoke-SandboxLifecycleRecovery.                 *)

NothingToClean ==
    /\ At("cleanup", "look")
    /\ ledger[target] = "absent"
    /\ Reply("ok")
    /\ UNCHANGED <<disk, service, rest, rejected, deaths>>

RefuseLedger ==
    /\ At("cleanup", "look")
    /\ ledger[target] # "absent"
    /\ ~owned[target]
    /\ Reply("rejected")
    /\ UNCHANGED <<disk, service, rest, rejected, deaths>>

AcceptLedger ==
    /\ At("cleanup", "look")
    /\ ledger[target] # "absent"
    /\ owned[target]
    /\ Goto(IF ledger[target] = "cleaned" THEN "done" ELSE "clean")
    /\ UNCHANGED <<disk, left, stuck>>
    /\ KeepQueue

StartCleaning ==
    /\ step = "clean"
    /\ ledger' = [ledger EXCEPT ![target] = "cleaning"]
    /\ left' = 1..planned[target]
    /\ stuck' = FALSE
    /\ Goto("remove")
    /\ UNCHANGED <<owned, litter, planned, ace>>
    /\ KeepQueue

\* The last entry first; the paths of all entries are tried.  A path that is not
\* there any more counts as one whose entry was removed.  (Any other error of the
\* script between two removals ends the worker like WorkerDies, with the ledger
\* as it is.)
RemoveGrant(removed) ==
    /\ step = "remove"
    /\ \E g \in left :
        /\ \A other \in left : other <= g
        /\ ace' = [ace EXCEPT ![target] = IF removed THEN @ \ {g} ELSE @]
        /\ left' = left \ {g}
    /\ stuck' = (stuck \/ ~removed)
    /\ UNCHANGED <<ledger, owned, litter, planned, step>>
    /\ KeepQueue

\* The state of the ledger that the removals leave behind.
CleanedState_Always == "cleaned"
CleanedState == IF stuck THEN "cleanup-failed" ELSE "cleaned"

CloseLedger ==
    /\ step = "remove"
    /\ left = {}
    /\ ledger' = [ledger EXCEPT ![target] = CleanedState]
    /\ stuck' = FALSE
    /\ IF job = "recover"
         THEN /\ rejected' = (rejected \/ stuck)
              /\ rest' = rest \ {target}
              /\ target' = NoExecution
              /\ Goto("visit")
         ELSE Goto("done") /\ UNCHANGED <<rejected, rest, target>>
    /\ UNCHANGED <<owned, litter, planned, ace, service, job, left, deaths, client>>

\* The response.  A cleanup is signed in the ledger and answered as "ok",
\* its result says whether all is removed; a prepare that cleans has failed.
Respond ==
    /\ step = "done"
    /\ Reply(IF job = "prepare" /\ ledger[target] # "prepared" THEN "rejected" ELSE "ok")
    /\ UNCHANGED <<disk, service, rest, rejected, deaths>>

------------------------------------------------------------------------------
(* The life of the service: it recovers before it opens its pipe.          *)

StartService ==
    /\ service = "down"
    /\ service' = "starting"
    /\ job' = "recover"
    /\ rest' = {e \in Executions : ledger[e] # "absent" \/ litter[e]}
    /\ rejected' = FALSE
    /\ Goto("visit")
    /\ UNCHANGED <<disk, target, left, stuck, deaths, client>>

\* A directory of one ledger that can be read; others are refused.
Recoverable(e) == ~litter[e] /\ ledger[e] # "absent" /\ owned[e]

VisitLedger(e) ==
    /\ At("recover", "visit")
    /\ e \in rest
    /\ Recoverable(e)
    /\ ledger[e] # "cleaned"
    /\ target' = e
    /\ Goto("clean")
    /\ UNCHANGED <<disk, service, job, left, stuck, rest, rejected, deaths, client>>

PassLedger(e) ==
    /\ At("recover", "visit")
    /\ e \in rest
    /\ ~Recoverable(e) \/ ledger[e] = "cleaned"
    /\ rest' = rest \ {e}
    /\ rejected' = (rejected \/ ~Recoverable(e))
    /\ UNCHANGED <<disk, service, job, target, step, left, stuck, deaths, client>>

Serve ==
    /\ At("recover", "visit")
    /\ rest = {}
    /\ service' = IF rejected THEN "down" ELSE "serving"
    /\ WorkerEnds
    /\ rejected' = FALSE
    /\ UNCHANGED <<disk, rest, deaths, client>>

\* The steps that write a ledger; cut short, they leave a temporary file.
Writing ==
    \/ step \in {"own", "plan", "apply", "clean", "remove"}
    \/ job = "prepare" /\ step = "look" /\ ledger[target] = "absent"
    \/ job = "cleanup" /\ step = "done"

\* The worker is killed, because it takes too long, or because the service
\* stops.  Its client gets no answer.
WorkerDies(stops, half) ==
    /\ job # "idle"
    /\ deaths < MaxDeaths
    /\ deaths' = deaths + 1
    /\ half => Writing
    /\ litter' = IF half THEN [litter EXCEPT ![target] = TRUE] ELSE litter
    /\ service' = IF stops \/ job = "recover" THEN "down" ELSE service
    /\ IF job = "recover" THEN UNCHANGED client ELSE Answered(target, "lost")
    /\ WorkerEnds
    /\ rest' = {}
    /\ rejected' = FALSE
    /\ UNCHANGED <<ledger, owned, planned, ace>>

StopService ==
    /\ service = "serving"
    /\ job = "idle"
    /\ service' = "down"
    /\ UNCHANGED <<disk, worker, client>>

ProvisionerStep ==
    \/ \E e \in Executions : Accept(e) \/ VisitLedger(e) \/ PassLedger(e)
    \/ RejectPrepare \/ CreateLedger \/ OwnLedger \/ PlanGrant \/ ApplyGrant
    \/ PackChanged \/ Prepared
    \/ NothingToClean \/ RefuseLedger \/ AcceptLedger \/ StartCleaning \/ CloseLedger
    \/ Respond \/ StartService \/ Serve \/ StopService
    \/ \E flag \in BOOLEAN : GrantFails(flag) \/ RemoveGrant(flag)
    \/ \E stops, half \in BOOLEAN : WorkerDies(stops, half)

------------------------------------------------------------------------------
(* Safety.                                                                 *)

\* Whatever dies when: a path that carries the Package SID of an execution
\* has an entry in a ledger that says that it is not clean.
GrantsAreRecorded ==
    \A e \in Executions :
        /\ ace[e] \subseteq 1..planned[e]
        /\ ace[e] # {} => ledger[e] \notin {"absent", "cleaned"}
==============================================================================
