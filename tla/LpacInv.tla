-------------------------------- MODULE LpacInv --------------------------------
(***************************************************************************)
(* The inductive invariants of LpacExecution and the provisioner, from     *)
(* which LpacProofs derives the safety properties.                         *)
(***************************************************************************)
EXTENDS LpacExecution

\* What the worker is doing says what the ledger of its target holds.  While it
\* removes entries, whatever access is left is still to be removed, unless an
\* entry has resisted.
WorkerAgrees ==
    /\ ledger \in [Executions -> {"absent", "provisioning", "prepared", "cleaning",
                                  "cleanup-failed", "cleaned"}]
    /\ planned \in [Executions -> 0..Grants]
    /\ ace \in [Executions -> SUBSET Nat]
    /\ \/ job = "idle" /\ step = "none"
       \/ job = "prepare" /\ step \in {"look", "own", "plan", "apply", "clean", "remove", "done"}
       \/ job = "cleanup" /\ step \in {"look", "clean", "remove", "done"}
       \/ job = "recover" /\ step \in {"visit", "clean", "remove"}
    /\ step \notin {"none", "visit"} => target \in Executions
    /\ step \in {"own", "plan", "apply"} => ledger[target] = "provisioning"
    /\ step = "apply" => planned[target] > 0
    /\ step = "clean" => ledger[target] \notin {"absent", "cleaned"}
    /\ step = "remove" => /\ ledger[target] = "cleaning"
                          /\ stuck \in BOOLEAN
                          /\ stuck \/ ace[target] \subseteq left

GrantsInv == WorkerAgrees /\ GrantsAreRecorded

\* The executions that this main process has not brought beyond the recovery.
Early == {"new", "verify", "recovery", "refused", "intent"}

\* The recovery starts before any execution writes an intent, so what it visits
\* are executions of earlier main processes, or such that are over.
RecoveryInv ==
    /\ pc \in [Executions -> Active \cup {"new", "over", "refused", "lost"}]
    /\ intent \in [Executions -> {"none", "planned", "created"}]
    /\ recovery \in {"none", "pending", "resolved", "rejected"}
    /\ visit \in {"none", "cleanup", "delete", "unlink"}
    /\ visiting \in todo \cup {NoExecution}
    /\ visit # "none" => visiting \in todo
    /\ recovery # "pending" => todo = {} /\ visit = "none"
    /\ \A e \in todo : e \in Executions /\ pc[e] \in {"over", "lost"}
    /\ \A e \in Executions :
         /\ pc[e] \in Early => intent[e] = "none"
         /\ recovery = "none" => pc[e] \notin Active \ {"verify"}
         /\ recovery # "resolved" => pc[e] \notin Active \ {"verify", "recovery"}

\* Profiles of executions: there is an intent as long as there is a profile.
ProfileInv ==
    /\ profile \in [Executions -> BOOLEAN]
    /\ visit = "unlink" => ~profile[visiting]
    /\ \A e \in Executions :
         /\ profile[e] => intent[e] # "none"
         /\ pc[e] \in {"profile", "created"} => intent[e] = "planned"
         /\ pc[e] = "created" => profile[e]
         /\ pc[e] \in {"prepare", "command"} => intent[e] = "created" /\ profile[e]
         /\ pc[e] = "unlink" => ~profile[e]

\* What the adapter remembers of a command is what became of it.
EffectInv ==
    /\ command \in [Executions -> {"none", "running", "exited", "ended"}]
    /\ outcome \in [Executions -> {"none", "exited", "failed", "unconfirmed"}]
    /\ unclean \in [Executions -> BOOLEAN]
    /\ result \in [Executions -> [cleanup : {"none", "clean", "failed"},
                                  effect : {"none", "confirmed", "unknown"},
                                  termination : {"none", "confirmed", "unconfirmed", "not-started"}]]
    /\ EffectIsTrue
    /\ \A e \in Executions :
         /\ pc[e] \in Early \cup {"profile", "created", "prepare"} =>
              command[e] = "none" /\ outcome[e] = "none"
         /\ pc[e] = "command" => command[e] = "running" /\ outcome[e] = "none"
         /\ pc[e] \in {"cleanup", "delete", "unlink", "settle"} =>
              /\ outcome[e] = "none" => command[e] = "none"
              /\ outcome[e] = "exited" => command[e] = "exited"
              /\ outcome[e] = "failed" => command[e] = "ended"
              /\ outcome[e] = "unconfirmed" => command[e] \in {"running", "ended"}

\* Access of e is out of use and on its way out: nobody grants any more, and
\* the ledger says what is left.
Withdrawn(e) ==
    /\ ledger[e] \in {"absent", "cleaning", "cleanup-failed", "cleaned"}
    /\ client[e] # "prepare"
    /\ ~(job = "prepare" /\ target = e)

\* A client is served by the worker of its request; a cleanup that is answered
\* with ok has withdrawn the access.
CleanupInv ==
    /\ client \in [Executions -> {"none", "prepare", "cleanup", "served", "ok", "rejected", "lost"}]
    /\ service = "down" => job = "idle"
    /\ job = "idle" => target = NoExecution
    /\ job = "cleanup" /\ step = "done" => ledger[target] \in {"cleaned", "cleanup-failed"}
    /\ \A e \in Executions :
         /\ client[e] = "prepare" => pc[e] = "prepare"
         /\ client[e] = "served" => job \in {"prepare", "cleanup"} /\ target = e
         /\ pc[e] = "cleanup" /\ client[e] = "served" => job = "cleanup"
         /\ pc[e] = "cleanup" /\ client[e] = "ok" => Withdrawn(e)
         /\ pc[e] \in Early \cup {"profile", "created"} =>
              ledger[e] = "absent" /\ client[e] = "none" /\ ~(job # "idle" /\ target = e)
         /\ pc[e] \in {"delete", "unlink", "settle"} /\ ~unclean[e] => Withdrawn(e)
         /\ pc[e] = "settle" /\ ~unclean[e] => intent[e] = "none"
         /\ pc[e] = "over" /\ result[e].cleanup = "clean" => Withdrawn(e) /\ intent[e] = "none"

LInv == GrantsInv /\ RecoveryInv /\ ProfileInv /\ EffectInv /\ CleanupInv
================================================================================
