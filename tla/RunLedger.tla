------------------------------ MODULE RunLedger ------------------------------
(***************************************************************************)
(* What the run machinery promises the user, without a process, a thread   *)
(* or a database in it: each conversation has one open run at most, a tool *)
(* call takes effect once, with a grant, and only while nobody has asked   *)
(* the run to stop; a run that was asked to stop ends as stopped or        *)
(* interrupted and never as completed or failed; and an ended run stays    *)
(* as it ended.                                                            *)
(***************************************************************************)
CONSTANTS Runs, ConversationOf, Calls

VARIABLES
    phase,    \* what the user sees of a run
    granted,  \* the calls of a run that policy or user let through
    performed \* the calls of a run whose tool was entered

ledger == <<phase, granted, performed>>

Open == {"open", "stopping"}
Ended == {"completed", "failed", "cancelled", "interrupted"}

Init ==
    /\ phase = [r \in Runs |-> "none"]
    /\ granted = [r \in Runs |-> {}]
    /\ performed = [r \in Runs |-> {}]

Submit(r) ==
    /\ phase[r] = "none"
    /\ \A s \in Runs : phase[s] \in Open => ConversationOf[s] # ConversationOf[r]
    /\ phase' = [phase EXCEPT ![r] = "open"]
    /\ UNCHANGED <<granted, performed>>

Grant(r, k) ==
    /\ phase[r] \in Open
    /\ granted' = [granted EXCEPT ![r] = @ \cup {k}]
    /\ UNCHANGED <<phase, performed>>

Perform(r, k) ==
    /\ phase[r] = "open"
    /\ k \in granted[r] \ performed[r]
    /\ performed' = [performed EXCEPT ![r] = @ \cup {k}]
    /\ UNCHANGED <<phase, granted>>

RequestStop(r) ==
    /\ phase[r] = "open"
    /\ phase' = [phase EXCEPT ![r] = "stopping"]
    /\ UNCHANGED <<granted, performed>>

Conclude(r) ==
    /\ \/ phase[r] = "open" /\ phase' = [phase EXCEPT ![r] = "completed"]
       \/ phase[r] = "open" /\ phase' = [phase EXCEPT ![r] = "failed"]
       \/ phase[r] = "stopping" /\ phase' = [phase EXCEPT ![r] = "cancelled"]
    /\ UNCHANGED <<granted, performed>>

\* The host goes away under the runs of S.
Interrupt(S) ==
    /\ \A r \in S : phase[r] \in Open
    /\ phase' = [r \in Runs |-> IF r \in S THEN "interrupted" ELSE phase[r]]
    /\ UNCHANGED <<granted, performed>>

Next ==
    \/ \E r \in Runs : Submit(r) \/ RequestStop(r) \/ Conclude(r)
    \/ \E r \in Runs, k \in Calls : Grant(r, k) \/ Perform(r, k)
    \/ \E S \in SUBSET Runs : Interrupt(S)

Spec == Init /\ [][Next]_ledger
==============================================================================
