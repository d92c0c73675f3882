----------------------------- MODULE RunLedgerInv -----------------------------
(***************************************************************************)
(* What the refinement of RunLedger by RunCore needs beyond IInv: that a   *)
(* grant once given stays, and that the user grants in open runs only.     *)
(***************************************************************************)
EXTENDS RunCoreInv

\* The places from which the current call may still ask for approval.
BeforeApproval == {"prepare", "secret", "begin", "round", "stream", "turn",
                   "turnStored", "call", "approvalRow"}

\* The places where the row of an approval may be pending.
Asking == {"approvalStatus", "awaitApproval", "caught", "caughtStored", "ending",
           "expire"}

\* A run starts unaborted, and a cancel that came in at the request for the
\* secret is seen before the run is called running.
StartOfPlace ==
    \A r \in Runs : pc[r] \in {"prepare", "begin"} => abort[r] = "no"

\* Calls that are not proposed yet have no policy, and calls that are not
\* reached no decision: a grant is never overwritten.
GrantsAhead ==
    \A r \in Runs, k \in Calls :
        /\ status[r] = Absent \/ (r \in active /\ k > last[r]) => kind[r][k] = Absent
        /\ \/ status[r] = Absent
           \/ r \in active /\ (k > cur[r] \/ (k = cur[r] /\ pc[r] \in BeforeApproval))
           => approval[r][k] = Absent

\* What is pending in a host that serves is the current call's approval of an
\* open run, or of one whose approvals expire next.
PendingOfPlace ==
    host \in {"up", "closing"} =>
        \A r \in Runs, k \in Calls :
            approval[r][k] = "pending" => k = cur[r] /\ pc[r] \in Asking

LedgerInv == StartOfPlace /\ GrantsAhead /\ PendingOfPlace
==============================================================================
