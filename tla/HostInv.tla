-------------------------------- MODULE HostInv --------------------------------
(***************************************************************************)
(* The inductive invariant behind the safety properties of HostSupervisor: *)
(* what the ready promise says of the child, of the timers and of the      *)
(* requests, and what #stop waits for.                                     *)
(***************************************************************************)
EXTENDS HostSupervisor

\* The ready promise is about the child: while it is pending the child starts
\* and its timer is set, once it is resolved the child is ready; a child
\* without one is a child that #stop has dismissed.
PromiseOfChild ==
    /\ child # NoHost => process[child] # "none"
    /\ ready = "pending" => /\ child # NoHost
                            /\ process[child] = "starting"
                            /\ readyTimer = child
    /\ ready = "resolved" => child # NoHost /\ process[child] = "ready"
    /\ readyTimer # NoHost => ready = "pending"
    /\ ready = "none" /\ child # NoHost =>
            dismissed[child] # "no" /\ (stop # "idle" \/ app = "gone")

\* A request waits for the promise or was posted to the child it stands for.
RequestsOfPromise ==
    /\ Starting # {} => ready = "pending"
    /\ \A r \in Sent : ready = "resolved" /\ sentTo[r] = child

\* What #stop waits for lives and was told to go, and is the child only until
\* another one is forked.
StopOfChild ==
    /\ stop = "waiting" <=> stopChild # NoHost
    /\ stop # "idle" => app = "quitting"
    /\ stop = "waiting" => /\ process[stopChild] # "none"
                           /\ dismissed[stopChild] # "no"
                           /\ child = stopChild => ready = "none"

\* Who is left behind was told to go; what runs belongs to a ready child,
\* until #stop shuts the adapter down.
NothingLeft ==
    /\ \A h \in Hosts \ {child} : process[h] # "none" => dismissed[h] # "no"
    /\ \A e \in Executions :
        execution[e] = "running" =>
            /\ app # "gone"
            /\ stop = "idle" => owner[e] = child /\ process[child] = "ready"

\* Whatever hosts do and whenever they do it, the client and the processes
\* agree.
HostInv ==
    /\ TypeOK
    /\ PromiseOfChild
    /\ RequestsOfPromise
    /\ StopOfChild
    /\ NothingLeft
==============================================================================
