------------------------------ MODULE LpacProofs ------------------------------
(***************************************************************************)
(* The invariants of LpacInv are inductive, and what follows from them for *)
(* any number of executions, of paths and of dying workers.  The           *)
(* provisioner and the adapter touch each other only through the clients,  *)
(* so that each part of the invariant has steps of one of them only, but   *)
(* for the last part, which is about both.                                 *)
(***************************************************************************)
EXTENDS LpacInv, TLAPS

USE DEF disk, worker, provisionerVars, outside, recoverer, course, adapterVars, NotProvisioner
\* The adapter only asks and hears: the ledgers, the access and the worker are
\* the provisioner's.
LEMMA AdapterAsks ==
    [Next]_vars => \/ ProvisionerStep /\ UNCHANGED adapterVars
                   \/ UNCHANGED <<disk, service, worker>>
<1> SUFFICES ASSUME [Next]_vars PROVE \/ ProvisionerStep /\ UNCHANGED adapterVars
                                      \/ UNCHANGED <<disk, service, worker>>
  OBVIOUS
<1> DEFINE K == UNCHANGED <<disk, service, worker>>
<1>1. ASSUME NEW e \in Executions, Execute(e) PROVE K
  BY <1>1 DEF Execute
<1>2. ASSUME NEW e \in Executions, JoinRecovery(e) PROVE K
  BY <1>2 DEF JoinRecovery
<1>3. ASSUME NEW e \in Executions, Refuse(e) PROVE K
  BY <1>3 DEF Refuse
<1>4. ASSUME NEW e \in Executions, Proceed(e) PROVE K
  BY <1>4 DEF Proceed
<1>5. ASSUME NEW e \in Executions, Visit(e) PROVE K
  BY <1>5 DEF Visit
<1>6. ASSUME VisitCleaned PROVE K
  BY <1>6 DEF VisitCleaned
<1>7. ASSUME VisitDeletes PROVE K
  BY <1>7 DEF VisitDeletes
<1>8. ASSUME VisitUnlinks PROVE K
  BY <1>8 DEF VisitUnlinks
<1>9. ASSUME VisitFails PROVE K
  BY <1>9 DEF VisitFails
<1>10. ASSUME Recovered PROVE K
  BY <1>10 DEF Recovered
<1>11. ASSUME NEW e \in Executions, NEW written \in BOOLEAN, PlanIntent(e, written) PROVE K
  BY <1>11 DEF PlanIntent
<1>12. ASSUME NEW e \in Executions, NEW created \in BOOLEAN, NEW ok \in BOOLEAN,
   CreateProfile(e, created, ok) PROVE K
  BY <1>12 DEF CreateProfile
<1>13. ASSUME NEW e \in Executions, RecordProfile(e) PROVE K
  BY <1>13 DEF RecordProfile
<1>14. ASSUME NEW e \in Executions, RecordFails(e) PROVE K
  BY <1>14 DEF RecordFails
<1>15. ASSUME NEW e \in Executions, Start(e) PROVE K
  BY <1>15 DEF Start
<1>16. ASSUME NEW e \in Executions, PrepareFails(e) PROVE K
  BY <1>16 DEF PrepareFails, Clean
<1>17. ASSUME NEW e \in Executions, NEW ok \in BOOLEAN, CommandExits(e, ok) PROVE K
  BY <1>17 DEF CommandExits, Clean
<1>18. ASSUME NEW e \in Executions, NEW ok \in BOOLEAN, CommandKilled(e, ok) PROVE K
  BY <1>18 DEF CommandKilled, Clean
<1>19. ASSUME NEW e \in Executions, CommandGone(e) PROVE K
  BY <1>19 DEF CommandGone
<1>20. ASSUME NEW e \in Executions, Cleaned(e) PROVE K
  BY <1>20 DEF Cleaned
<1>21. ASSUME NEW e \in Executions, CleanupFails(e) PROVE K
  BY <1>21 DEF CleanupFails
<1>22. ASSUME NEW e \in Executions, DeleteProfile(e) PROVE K
  BY <1>22 DEF DeleteProfile
<1>23. ASSUME NEW e \in Executions, Unlink(e) PROVE K
  BY <1>23 DEF Unlink
<1>24. ASSUME NEW e \in Executions, DeleteFails(e) PROVE K
  BY <1>24 DEF DeleteFails
<1>25. ASSUME NEW e \in Executions, Settle(e) PROVE K
  BY <1>25 DEF Settle
<1>26. ASSUME Shutdown PROVE K
  BY <1>26 DEF Shutdown
<1>27. ASSUME Die PROVE K
  BY <1>27 DEF Die
<1>28. CASE UNCHANGED vars
  BY <1>28 DEF vars
<1>29. QED
  BY <1>1, <1>2, <1>3, <1>4, <1>5, <1>6, <1>7, <1>8, <1>9, <1>10, <1>11, <1>12, <1>13, <1>14,
     <1>15, <1>16, <1>17, <1>18, <1>19, <1>20, <1>21, <1>22, <1>23, <1>24, <1>25, <1>26, <1>27,
     <1>28 DEF Next, RecoveryStep, ExecutionStep
------------------------------------------------------------------------------
(* The parts of the invariant.                                             *)

\* The ledger knows what was granted, whatever the worker does and whenever it
\* dies.
LEMMA GrantsKept == GrantsInv /\ [Next]_vars => GrantsInv'
<1> SUFFICES ASSUME GrantsInv, [Next]_vars PROVE GrantsInv'
  OBVIOUS
<1> USE AclProvisionerAssumption DEF GrantsInv, WorkerAgrees, GrantsAreRecorded
<1>1. ASSUME NEW e \in Executions, Accept(e) PROVE GrantsInv'
  BY <1>1 DEF Accept, Goto
<1>2. ASSUME NEW e \in Executions, VisitLedger(e) PROVE GrantsInv'
  BY <1>2 DEF VisitLedger, At, Goto, Recoverable
<1>3. ASSUME NEW e \in Executions, PassLedger(e) PROVE GrantsInv'
  BY <1>3 DEF PassLedger, At
<1>4. ASSUME RejectPrepare PROVE GrantsInv'
  BY <1>4 DEF RejectPrepare, At, Reply, Answered, WorkerEnds
<1>5. ASSUME CreateLedger PROVE GrantsInv'
  BY <1>5 DEF CreateLedger, At, Goto, KeepQueue
<1>6. ASSUME OwnLedger PROVE GrantsInv'
  BY <1>6 DEF OwnLedger, At, Goto, KeepQueue
<1>7. ASSUME PlanGrant PROVE GrantsInv'
  BY <1>7 DEF PlanGrant, At, Goto, KeepQueue
<1>8. ASSUME ApplyGrant PROVE GrantsInv'
  BY <1>8 DEF ApplyGrant, At, Goto, KeepQueue
<1>9. ASSUME NEW flag \in BOOLEAN, GrantFails(flag) PROVE GrantsInv'
  BY <1>9 DEF GrantFails, At, Goto, KeepQueue
<1>10. ASSUME PackChanged PROVE GrantsInv'
  BY <1>10 DEF PackChanged, At, Goto, KeepQueue
<1>11. ASSUME Prepared PROVE GrantsInv'
  BY <1>11 DEF Prepared, At, Goto, KeepQueue
<1>12. ASSUME NothingToClean PROVE GrantsInv'
  BY <1>12 DEF NothingToClean, At, Reply, Answered, WorkerEnds
<1>13. ASSUME RefuseLedger PROVE GrantsInv'
  BY <1>13 DEF RefuseLedger, At, Reply, Answered, WorkerEnds
<1>14. ASSUME AcceptLedger PROVE GrantsInv'
  BY <1>14 DEF AcceptLedger, At, Goto, KeepQueue
<1>15. ASSUME StartCleaning PROVE GrantsInv'
  BY <1>15 DEF StartCleaning, Goto, KeepQueue
<1>16. ASSUME NEW flag \in BOOLEAN, RemoveGrant(flag) PROVE GrantsInv'
  <2>1. PICK g \in left : /\ ace' = [ace EXCEPT ![target] = IF flag THEN @ \ {g} ELSE @]
                         /\ left' = left \ {g}
    BY <1>16 DEF RemoveGrant
  <2>2. CASE flag
    BY <1>16, <2>1, <2>2 DEF RemoveGrant, KeepQueue
  <2>3. CASE ~flag
    BY <1>16, <2>1, <2>3 DEF RemoveGrant, KeepQueue
  <2>4. QED
    BY <2>2, <2>3
<1>17. ASSUME CloseLedger PROVE GrantsInv'
  BY <1>17 DEF CloseLedger, CleanedState, Goto
<1>18. ASSUME Respond PROVE GrantsInv'
  BY <1>18 DEF Respond, Reply, Answered, WorkerEnds
<1>19. ASSUME StartService PROVE GrantsInv'
  BY <1>19 DEF StartService, Goto
<1>20. ASSUME Serve PROVE GrantsInv'
  BY <1>20 DEF Serve, At, WorkerEnds
<1>21. ASSUME NEW stops \in BOOLEAN, NEW half \in BOOLEAN, WorkerDies(stops, half) PROVE
   GrantsInv'
  BY <1>21 DEF WorkerDies, Answered, WorkerEnds
<1>22. ASSUME StopService PROVE GrantsInv'
  BY <1>22 DEF StopService
<1>23. CASE UNCHANGED <<disk, service, worker>>
  BY <1>23
<1>24. QED
  BY <1>1, <1>2, <1>3, <1>4, <1>5, <1>6, <1>7, <1>8, <1>9, <1>10, <1>11, <1>12, <1>13, <1>14,
     <1>15, <1>16, <1>17, <1>18, <1>19, <1>20, <1>21, <1>22, <1>23, AdapterAsks DEF
     ProvisionerStep
\* The recovery is over before an execution of its main process has an intent,
\* and a dying main process takes both with it.
LEMMA RecoveryKept == RecoveryInv /\ [Next]_vars => RecoveryInv'
<1> SUFFICES ASSUME RecoveryInv, [Next]_vars PROVE RecoveryInv'
  OBVIOUS
<1> USE AclProvisionerAssumption DEF RecoveryInv, Active, Early
<1>1. ASSUME NEW e \in Executions, Execute(e) PROVE RecoveryInv'
  BY <1>1 DEF Execute, To
<1>2. ASSUME NEW e \in Executions, JoinRecovery(e) PROVE RecoveryInv'
  BY <1>2 DEF JoinRecovery, To
<1>3. ASSUME NEW e \in Executions, Refuse(e) PROVE RecoveryInv'
  BY <1>3 DEF Refuse, To
<1>4. ASSUME NEW e \in Executions, Proceed(e) PROVE RecoveryInv'
  BY <1>4 DEF Proceed, To
<1>5. ASSUME NEW e \in Executions, Visit(e) PROVE RecoveryInv'
  BY <1>5 DEF Visit, Ask
<1>6. ASSUME VisitCleaned PROVE RecoveryInv'
  BY <1>6 DEF VisitCleaned, Hear
<1>7. ASSUME VisitDeletes PROVE RecoveryInv'
  BY <1>7 DEF VisitDeletes
<1>8. ASSUME VisitUnlinks PROVE RecoveryInv'
  BY <1>8 DEF VisitUnlinks
<1>9. ASSUME VisitFails PROVE RecoveryInv'
  BY <1>9 DEF VisitFails, HearNothing
<1>10. ASSUME Recovered PROVE RecoveryInv'
  BY <1>10 DEF Recovered
<1>11. ASSUME NEW e \in Executions, NEW written \in BOOLEAN, PlanIntent(e, written) PROVE
   RecoveryInv'
  BY <1>11 DEF PlanIntent, To
<1>12. ASSUME NEW e \in Executions, NEW created \in BOOLEAN, NEW ok \in BOOLEAN,
   CreateProfile(e, created, ok) PROVE RecoveryInv'
  BY <1>12 DEF CreateProfile, To
<1>13. ASSUME NEW e \in Executions, RecordProfile(e) PROVE RecoveryInv'
  BY <1>13 DEF RecordProfile, To, Ask
<1>14. ASSUME NEW e \in Executions, RecordFails(e) PROVE RecoveryInv'
  BY <1>14 DEF RecordFails, To
<1>15. ASSUME NEW e \in Executions, Start(e) PROVE RecoveryInv'
  BY <1>15 DEF Start, To, Hear
<1>16. ASSUME NEW e \in Executions, PrepareFails(e) PROVE RecoveryInv'
  BY <1>16 DEF PrepareFails, Clean, To, Ask
<1>17. ASSUME NEW e \in Executions, NEW ok \in BOOLEAN, CommandExits(e, ok) PROVE RecoveryInv'
  BY <1>17 DEF CommandExits, Clean, To, Ask
<1>18. ASSUME NEW e \in Executions, NEW ok \in BOOLEAN, CommandKilled(e, ok) PROVE RecoveryInv'
  BY <1>18 DEF CommandKilled, Clean, To, Ask
<1>19. ASSUME NEW e \in Executions, CommandGone(e) PROVE RecoveryInv'
  BY <1>19 DEF CommandGone
<1>20. ASSUME NEW e \in Executions, Cleaned(e) PROVE RecoveryInv'
  BY <1>20 DEF Cleaned, To, Hear
<1>21. ASSUME NEW e \in Executions, CleanupFails(e) PROVE RecoveryInv'
  BY <1>21 DEF CleanupFails, To, HearNothing
<1>22. ASSUME NEW e \in Executions, DeleteProfile(e) PROVE RecoveryInv'
  BY <1>22 DEF DeleteProfile, To
<1>23. ASSUME NEW e \in Executions, Unlink(e) PROVE RecoveryInv'
  BY <1>23 DEF Unlink, To
<1>24. ASSUME NEW e \in Executions, DeleteFails(e) PROVE RecoveryInv'
  BY <1>24 DEF DeleteFails, To
<1>25. ASSUME NEW e \in Executions, Settle(e) PROVE RecoveryInv'
  BY <1>25 DEF Settle, To
<1>26. ASSUME Shutdown PROVE RecoveryInv'
  BY <1>26 DEF Shutdown
<1>27. ASSUME Die PROVE RecoveryInv'
  BY <1>27 DEF Die
<1>28. CASE UNCHANGED adapterVars
  BY <1>28
<1>29. QED
  BY <1>1, <1>2, <1>3, <1>4, <1>5, <1>6, <1>7, <1>8, <1>9, <1>10, <1>11, <1>12, <1>13, <1>14,
     <1>15, <1>16, <1>17, <1>18, <1>19, <1>20, <1>21, <1>22, <1>23, <1>24, <1>25, <1>26, <1>27,
     <1>28 DEF Next, vars, RecoveryStep, ExecutionStep
\* An intent is written before its profile is created and outlives it, in the
\* execution and in the recovery.
LEMMA ProfileKept == RecoveryInv /\ ProfileInv /\ [Next]_vars => ProfileInv'
<1> SUFFICES ASSUME RecoveryInv, ProfileInv, [Next]_vars PROVE ProfileInv'
  OBVIOUS
<1> USE AclProvisionerAssumption DEF RecoveryInv, ProfileInv, Active, Early
<1>1. ASSUME NEW e \in Executions, Execute(e) PROVE ProfileInv'
  BY <1>1 DEF Execute, To
<1>2. ASSUME NEW e \in Executions, JoinRecovery(e) PROVE ProfileInv'
  BY <1>2 DEF JoinRecovery, To
<1>3. ASSUME NEW e \in Executions, Refuse(e) PROVE ProfileInv'
  BY <1>3 DEF Refuse, To
<1>4. ASSUME NEW e \in Executions, Proceed(e) PROVE ProfileInv'
  BY <1>4 DEF Proceed, To
<1>5. ASSUME NEW e \in Executions, Visit(e) PROVE ProfileInv'
  BY <1>5 DEF Visit, Ask
<1>6. ASSUME VisitCleaned PROVE ProfileInv'
  BY <1>6 DEF VisitCleaned, Hear
<1>7. ASSUME VisitDeletes PROVE ProfileInv'
  BY <1>7 DEF VisitDeletes
<1>8. ASSUME VisitUnlinks PROVE ProfileInv'
  BY <1>8 DEF VisitUnlinks
<1>9. ASSUME VisitFails PROVE ProfileInv'
  BY <1>9 DEF VisitFails, HearNothing
<1>10. ASSUME Recovered PROVE ProfileInv'
  BY <1>10 DEF Recovered
<1>11. ASSUME NEW e \in Executions, NEW written \in BOOLEAN, PlanIntent(e, written) PROVE
   ProfileInv'
  BY <1>11 DEF PlanIntent, To
<1>12. ASSUME NEW e \in Executions, NEW created \in BOOLEAN, NEW ok \in BOOLEAN,
   CreateProfile(e, created, ok) PROVE ProfileInv'
  BY <1>12 DEF CreateProfile, To
<1>13. ASSUME NEW e \in Executions, RecordProfile(e) PROVE ProfileInv'
  BY <1>13 DEF RecordProfile, To, Ask
<1>14. ASSUME NEW e \in Executions, RecordFails(e) PROVE ProfileInv'
  BY <1>14 DEF RecordFails, To
<1>15. ASSUME NEW e \in Executions, Start(e) PROVE ProfileInv'
  BY <1>15 DEF Start, To, Hear
<1>16. ASSUME NEW e \in Executions, PrepareFails(e) PROVE ProfileInv'
  BY <1>16 DEF PrepareFails, Clean, To, Ask
<1>17. ASSUME NEW e \in Executions, NEW ok \in BOOLEAN, CommandExits(e, ok) PROVE ProfileInv'
  BY <1>17 DEF CommandExits, Clean, To, Ask
<1>18. ASSUME NEW e \in Executions, NEW ok \in BOOLEAN, CommandKilled(e, ok) PROVE ProfileInv'
  BY <1>18 DEF CommandKilled, Clean, To, Ask
<1>19. ASSUME NEW e \in Executions, CommandGone(e) PROVE ProfileInv'
  BY <1>19 DEF CommandGone
<1>20. ASSUME NEW e \in Executions, Cleaned(e) PROVE ProfileInv'
  BY <1>20 DEF Cleaned, To, Hear
<1>21. ASSUME NEW e \in Executions, CleanupFails(e) PROVE ProfileInv'
  BY <1>21 DEF CleanupFails, To, HearNothing
<1>22. ASSUME NEW e \in Executions, DeleteProfile(e) PROVE ProfileInv'
  BY <1>22 DEF DeleteProfile, To
<1>23. ASSUME NEW e \in Executions, Unlink(e) PROVE ProfileInv'
  BY <1>23 DEF Unlink, To
<1>24. ASSUME NEW e \in Executions, DeleteFails(e) PROVE ProfileInv'
  BY <1>24 DEF DeleteFails, To
<1>25. ASSUME NEW e \in Executions, Settle(e) PROVE ProfileInv'
  BY <1>25 DEF Settle, To
<1>26. ASSUME Shutdown PROVE ProfileInv'
  BY <1>26 DEF Shutdown
<1>27. ASSUME Die PROVE ProfileInv'
  BY <1>27 DEF Die
<1>28. CASE UNCHANGED adapterVars
  BY <1>28
<1>29. QED
  BY <1>1, <1>2, <1>3, <1>4, <1>5, <1>6, <1>7, <1>8, <1>9, <1>10, <1>11, <1>12, <1>13, <1>14,
     <1>15, <1>16, <1>17, <1>18, <1>19, <1>20, <1>21, <1>22, <1>23, <1>24, <1>25, <1>26, <1>27,
     <1>28 DEF Next, vars, RecoveryStep, ExecutionStep
\* The outcome that the adapter keeps is that of the command.
LEMMA EffectKept == RecoveryInv /\ EffectInv /\ [Next]_vars => EffectInv'
<1> SUFFICES ASSUME RecoveryInv, EffectInv, [Next]_vars PROVE EffectInv'
  OBVIOUS
<1> USE AclProvisionerAssumption DEF RecoveryInv, EffectInv, EffectIsTrue, Active, Early
<1>1. ASSUME NEW e \in Executions, Execute(e) PROVE EffectInv'
  BY <1>1 DEF Execute, To
<1>2. ASSUME NEW e \in Executions, JoinRecovery(e) PROVE EffectInv'
  BY <1>2 DEF JoinRecovery, To
<1>3. ASSUME NEW e \in Executions, Refuse(e) PROVE EffectInv'
  BY <1>3 DEF Refuse, To
<1>4. ASSUME NEW e \in Executions, Proceed(e) PROVE EffectInv'
  BY <1>4 DEF Proceed, To
<1>5. ASSUME NEW e \in Executions, Visit(e) PROVE EffectInv'
  BY <1>5 DEF Visit, Ask
<1>6. ASSUME VisitCleaned PROVE EffectInv'
  BY <1>6 DEF VisitCleaned, Hear
<1>7. ASSUME VisitDeletes PROVE EffectInv'
  BY <1>7 DEF VisitDeletes
<1>8. ASSUME VisitUnlinks PROVE EffectInv'
  BY <1>8 DEF VisitUnlinks
<1>9. ASSUME VisitFails PROVE EffectInv'
  BY <1>9 DEF VisitFails, HearNothing
<1>10. ASSUME Recovered PROVE EffectInv'
  BY <1>10 DEF Recovered
<1>11. ASSUME NEW e \in Executions, NEW written \in BOOLEAN, PlanIntent(e, written) PROVE
   EffectInv'
  BY <1>11 DEF PlanIntent, To
<1>12. ASSUME NEW e \in Executions, NEW created \in BOOLEAN, NEW ok \in BOOLEAN,
   CreateProfile(e, created, ok) PROVE EffectInv'
  BY <1>12 DEF CreateProfile, To
<1>13. ASSUME NEW e \in Executions, RecordProfile(e) PROVE EffectInv'
  BY <1>13 DEF RecordProfile, To, Ask
<1>14. ASSUME NEW e \in Executions, RecordFails(e) PROVE EffectInv'
  BY <1>14 DEF RecordFails, To
<1>15. ASSUME NEW e \in Executions, Start(e) PROVE EffectInv'
  BY <1>15 DEF Start, To, Hear
<1>16. ASSUME NEW e \in Executions, PrepareFails(e) PROVE EffectInv'
  BY <1>16 DEF PrepareFails, Clean, To, Ask
<1>17. ASSUME NEW e \in Executions, NEW ok \in BOOLEAN, CommandExits(e, ok) PROVE EffectInv'
  BY <1>17 DEF CommandExits, Clean, To, Ask
<1>18. ASSUME NEW e \in Executions, NEW ok \in BOOLEAN, CommandKilled(e, ok) PROVE EffectInv'
  BY <1>18 DEF CommandKilled, Clean, To, Ask
<1>19. ASSUME NEW e \in Executions, CommandGone(e) PROVE EffectInv'
  BY <1>19 DEF CommandGone
<1>20. ASSUME NEW e \in Executions, Cleaned(e) PROVE EffectInv'
  BY <1>20 DEF Cleaned, To, Hear
<1>21. ASSUME NEW e \in Executions, CleanupFails(e) PROVE EffectInv'
  BY <1>21 DEF CleanupFails, To, HearNothing
<1>22. ASSUME NEW e \in Executions, DeleteProfile(e) PROVE EffectInv'
  BY <1>22 DEF DeleteProfile, To
<1>23. ASSUME NEW e \in Executions, Unlink(e) PROVE EffectInv'
  BY <1>23 DEF Unlink, To
<1>24. ASSUME NEW e \in Executions, DeleteFails(e) PROVE EffectInv'
  BY <1>24 DEF DeleteFails, To
<1>25. ASSUME NEW e \in Executions, Settle(e) PROVE EffectInv'
  BY <1>25 DEF Settle, To, Effect, Termination
<1>26. ASSUME Shutdown PROVE EffectInv'
  BY <1>26 DEF Shutdown
<1>27. ASSUME Die PROVE EffectInv'
  BY <1>27 DEF Die
<1>28. CASE UNCHANGED adapterVars
  BY <1>28
<1>29. QED
  BY <1>1, <1>2, <1>3, <1>4, <1>5, <1>6, <1>7, <1>8, <1>9, <1>10, <1>11, <1>12, <1>13, <1>14,
     <1>15, <1>16, <1>17, <1>18, <1>19, <1>20, <1>21, <1>22, <1>23, <1>24, <1>25, <1>26, <1>27,
     <1>28 DEF Next, vars, RecoveryStep, ExecutionStep
\* What a finished execution is told to be clean is out of use and on its way
\* out: the answer "ok" comes from the worker that closed the ledger.
LEMMA CleanupKept == LInv /\ [Next]_vars => CleanupInv'
<1> SUFFICES ASSUME LInv, [Next]_vars PROVE CleanupInv'
  OBVIOUS
<1> USE AclProvisionerAssumption DEF LInv, CleanupInv, Withdrawn, Active, Early
<1>1. ASSUME NEW e \in Executions, Accept(e), UNCHANGED adapterVars PROVE CleanupInv'
  BY <1>1 DEF GrantsInv, WorkerAgrees, Accept, Goto
<1>2. ASSUME NEW e \in Executions, VisitLedger(e), UNCHANGED adapterVars PROVE CleanupInv'
  BY <1>2 DEF GrantsInv, WorkerAgrees, VisitLedger, At, Goto, Recoverable
<1>3. ASSUME NEW e \in Executions, PassLedger(e), UNCHANGED adapterVars PROVE CleanupInv'
  BY <1>3 DEF GrantsInv, WorkerAgrees, PassLedger, At
<1>4. ASSUME RejectPrepare, UNCHANGED adapterVars PROVE CleanupInv'
  BY <1>4 DEF GrantsInv, WorkerAgrees, RejectPrepare, At, Reply, Answered, WorkerEnds
<1>5. ASSUME CreateLedger, UNCHANGED adapterVars PROVE CleanupInv'
  BY <1>5 DEF GrantsInv, WorkerAgrees, CreateLedger, At, Goto, KeepQueue
<1>6. ASSUME OwnLedger, UNCHANGED adapterVars PROVE CleanupInv'
  BY <1>6 DEF GrantsInv, WorkerAgrees, OwnLedger, At, Goto, KeepQueue
<1>7. ASSUME PlanGrant, UNCHANGED adapterVars PROVE CleanupInv'
  BY <1>7 DEF GrantsInv, WorkerAgrees, PlanGrant, At, Goto, KeepQueue
<1>8. ASSUME ApplyGrant, UNCHANGED adapterVars PROVE CleanupInv'
  BY <1>8 DEF GrantsInv, WorkerAgrees, ApplyGrant, At, Goto, KeepQueue
<1>9. ASSUME NEW flag \in BOOLEAN, GrantFails(flag), UNCHANGED adapterVars PROVE CleanupInv'
  BY <1>9 DEF GrantsInv, WorkerAgrees, GrantFails, At, Goto, KeepQueue
<1>10. ASSUME PackChanged, UNCHANGED adapterVars PROVE CleanupInv'
  BY <1>10 DEF GrantsInv, WorkerAgrees, PackChanged, At, Goto, KeepQueue
<1>11. ASSUME Prepared, UNCHANGED adapterVars PROVE CleanupInv'
  BY <1>11 DEF GrantsInv, WorkerAgrees, Prepared, At, Goto, KeepQueue
<1>12. ASSUME NothingToClean, UNCHANGED adapterVars PROVE CleanupInv'
  BY <1>12 DEF GrantsInv, WorkerAgrees, NothingToClean, At, Reply, Answered, WorkerEnds
<1>13. ASSUME RefuseLedger, UNCHANGED adapterVars PROVE CleanupInv'
  BY <1>13 DEF GrantsInv, WorkerAgrees, RefuseLedger, At, Reply, Answered, WorkerEnds
<1>14. ASSUME AcceptLedger, UNCHANGED adapterVars PROVE CleanupInv'
  BY <1>14 DEF GrantsInv, WorkerAgrees, AcceptLedger, At, Goto, KeepQueue
<1>15. ASSUME StartCleaning, UNCHANGED adapterVars PROVE CleanupInv'
  BY <1>15 DEF GrantsInv, WorkerAgrees, StartCleaning, Goto, KeepQueue
<1>16. ASSUME NEW flag \in BOOLEAN, RemoveGrant(flag), UNCHANGED adapterVars PROVE CleanupInv'
  BY <1>16 DEF GrantsInv, WorkerAgrees, RemoveGrant, KeepQueue
<1>17. ASSUME CloseLedger, UNCHANGED adapterVars PROVE CleanupInv'
  BY <1>17 DEF GrantsInv, WorkerAgrees, CloseLedger, CleanedState, Goto
<1>18. ASSUME Respond, UNCHANGED adapterVars PROVE CleanupInv'
  BY <1>18 DEF GrantsInv, WorkerAgrees, Respond, Reply, Answered, WorkerEnds
<1>19. ASSUME StartService, UNCHANGED adapterVars PROVE CleanupInv'
  BY <1>19 DEF GrantsInv, WorkerAgrees, StartService, Goto
<1>20. ASSUME Serve, UNCHANGED adapterVars PROVE CleanupInv'
  BY <1>20 DEF GrantsInv, WorkerAgrees, Serve, At, WorkerEnds
<1>21. ASSUME NEW stops \in BOOLEAN, NEW half \in BOOLEAN, WorkerDies(stops, half), UNCHANGED
   adapterVars PROVE CleanupInv'
  BY <1>21 DEF GrantsInv, WorkerAgrees, WorkerDies, Answered, WorkerEnds
<1>22. ASSUME StopService, UNCHANGED adapterVars PROVE CleanupInv'
  BY <1>22 DEF GrantsInv, WorkerAgrees, StopService
<1>23. ASSUME NEW e \in Executions, Execute(e) PROVE CleanupInv'
  BY <1>23 DEF Execute, RecoveryInv, To
<1>24. ASSUME NEW e \in Executions, JoinRecovery(e) PROVE CleanupInv'
  BY <1>24 DEF JoinRecovery, RecoveryInv, To
<1>25. ASSUME NEW e \in Executions, Refuse(e) PROVE CleanupInv'
  BY <1>25 DEF Refuse, RecoveryInv, To
<1>26. ASSUME NEW e \in Executions, Proceed(e) PROVE CleanupInv'
  BY <1>26 DEF Proceed, RecoveryInv, To
<1>27. ASSUME NEW e \in Executions, Visit(e) PROVE CleanupInv'
  BY <1>27 DEF Visit, RecoveryInv, Ask
<1>28. ASSUME VisitCleaned PROVE CleanupInv'
  BY <1>28 DEF VisitCleaned, RecoveryInv, Hear
<1>29. ASSUME VisitDeletes PROVE CleanupInv'
  BY <1>29 DEF VisitDeletes, RecoveryInv
<1>30. ASSUME VisitUnlinks PROVE CleanupInv'
  BY <1>30 DEF VisitUnlinks, RecoveryInv
<1>31. ASSUME VisitFails PROVE CleanupInv'
  BY <1>31 DEF VisitFails, RecoveryInv, HearNothing
<1>32. ASSUME Recovered PROVE CleanupInv'
  BY <1>32 DEF Recovered, RecoveryInv
<1>33. ASSUME NEW e \in Executions, NEW written \in BOOLEAN, PlanIntent(e, written) PROVE
   CleanupInv'
  BY <1>33 DEF PlanIntent, RecoveryInv, To
<1>34. ASSUME NEW e \in Executions, NEW created \in BOOLEAN, NEW ok \in BOOLEAN,
   CreateProfile(e, created, ok) PROVE CleanupInv'
  BY <1>34 DEF CreateProfile, RecoveryInv, To
<1>35. ASSUME NEW e \in Executions, RecordProfile(e) PROVE CleanupInv'
  BY <1>35 DEF RecordProfile, RecoveryInv, To, Ask
<1>36. ASSUME NEW e \in Executions, RecordFails(e) PROVE CleanupInv'
  BY <1>36 DEF RecordFails, RecoveryInv, To
<1>37. ASSUME NEW e \in Executions, Start(e) PROVE CleanupInv'
  BY <1>37 DEF Start, RecoveryInv, To, Hear
<1>38. ASSUME NEW e \in Executions, PrepareFails(e) PROVE CleanupInv'
  BY <1>38 DEF PrepareFails, RecoveryInv, Clean, To, Ask
<1>39. ASSUME NEW e \in Executions, NEW ok \in BOOLEAN, CommandExits(e, ok) PROVE CleanupInv'
  BY <1>39 DEF CommandExits, RecoveryInv, Clean, To, Ask
<1>40. ASSUME NEW e \in Executions, NEW ok \in BOOLEAN, CommandKilled(e, ok) PROVE CleanupInv'
  BY <1>40 DEF CommandKilled, RecoveryInv, Clean, To, Ask
<1>41. ASSUME NEW e \in Executions, CommandGone(e) PROVE CleanupInv'
  BY <1>41 DEF CommandGone, RecoveryInv
<1>42. ASSUME NEW e \in Executions, Cleaned(e) PROVE CleanupInv'
  BY <1>42 DEF Cleaned, RecoveryInv, To, Hear
<1>43. ASSUME NEW e \in Executions, CleanupFails(e) PROVE CleanupInv'
  BY <1>43 DEF CleanupFails, RecoveryInv, To, HearNothing, EffectInv
<1>44. ASSUME NEW e \in Executions, DeleteProfile(e) PROVE CleanupInv'
  BY <1>44 DEF DeleteProfile, RecoveryInv, To
<1>45. ASSUME NEW e \in Executions, Unlink(e) PROVE CleanupInv'
  BY <1>45 DEF Unlink, RecoveryInv, To
<1>46. ASSUME NEW e \in Executions, DeleteFails(e) PROVE CleanupInv'
  BY <1>46 DEF DeleteFails, RecoveryInv, To, EffectInv
<1>47. ASSUME NEW e \in Executions, Settle(e) PROVE CleanupInv'
  BY <1>47 DEF Settle, RecoveryInv, To, EffectInv
<1>48. ASSUME Shutdown PROVE CleanupInv'
  BY <1>48 DEF Shutdown, RecoveryInv
<1>49. ASSUME Die PROVE CleanupInv'
  BY <1>49 DEF Die, RecoveryInv
<1>50. CASE UNCHANGED vars
  BY <1>50 DEF vars
<1>51. QED
  BY <1>1, <1>2, <1>3, <1>4, <1>5, <1>6, <1>7, <1>8, <1>9, <1>10, <1>11, <1>12, <1>13, <1>14,
     <1>15, <1>16, <1>17, <1>18, <1>19, <1>20, <1>21, <1>22, <1>23, <1>24, <1>25, <1>26, <1>27,
     <1>28, <1>29, <1>30, <1>31, <1>32, <1>33, <1>34, <1>35, <1>36, <1>37, <1>38, <1>39, <1>40,
     <1>41, <1>42, <1>43, <1>44, <1>45, <1>46, <1>47, <1>48, <1>49, <1>50 DEF Next, RecoveryStep,
     ExecutionStep, ProvisionerStep
------------------------------------------------------------------------------
(* What follows.                                                           *)

LEMMA LpacInvariant == Spec => []LInv
<1> USE AclProvisionerAssumption
<1>1. Init => LInv
  <2> SUFFICES ASSUME Init PROVE LInv
    OBVIOUS
  <2> USE DEF Init, InitProvisioner, NoResult
  <2>1. GrantsInv
    BY DEF GrantsInv, WorkerAgrees, GrantsAreRecorded
  <2>2. RecoveryInv
    BY DEF RecoveryInv, Active, Early
  <2>3. ProfileInv
    BY DEF ProfileInv
  <2>4. EffectInv
    BY DEF EffectInv, EffectIsTrue, Early
  <2>5. CleanupInv
    BY DEF CleanupInv, Early, Withdrawn
  <2>6. QED
    BY <2>1, <2>2, <2>3, <2>4, <2>5 DEF LInv
<1>2. LInv /\ [Next]_vars => LInv'
  BY GrantsKept, RecoveryKept, ProfileKept, EffectKept, CleanupKept DEF LInv
<1>3. QED
  BY <1>1, <1>2, PTL DEF Spec

\* Whatever dies when, a path that carries the Package SID of an execution has
\* an entry in a ledger that does not say "cleaned": Grant-SandboxAcl writes
\* the entry before it calls icacls, and Remove-SandboxAcl closes the ledger
\* only behind the last removal.
THEOREM GrantsRecorded == Spec => []GrantsAreRecorded
<1>1. LInv => GrantsAreRecorded
  BY DEF LInv, GrantsInv
<1>2. QED
  BY <1>1, LpacInvariant, PTL

\* #recoverProfileIntents visits no execution of its own main process, so that
\* it takes no profile from a command that may be running in it.
THEOREM RecoverySpares == Spec => []RecoverySparesTheLiving
<1>1. LInv => RecoverySparesTheLiving
  BY AclProvisionerAssumption DEF LInv, RecoveryInv, RecoverySparesTheLiving, Active
<1>2. QED
  BY <1>1, LpacInvariant, PTL

\* The effect and the termination that #execute reports are those of the
\* command, with any number of executions at once.
THEOREM EffectsTrue == Spec => []EffectIsTrue
<1>1. LInv => EffectIsTrue
  BY DEF LInv, EffectInv
<1>2. QED
  BY <1>1, LpacInvariant, PTL

\* A profile that exists has an intent file, by which the next start finds it,
\* and what an execution that reports a clean end leaves behind is in a ledger
\* of the service: through deaths of the main process, the worker and the
\* service at any moment.
THEOREM LeftoversKnown == Spec => []LeftoversAreKnown
<1>1. LInv => LeftoversAreKnown
  BY DEF LInv, GrantsInv, WorkerAgrees, GrantsAreRecorded, RecoveryInv, ProfileInv,
         EffectInv, CleanupInv, Withdrawn, LeftoversAreKnown, TypeOK
<1>2. QED
  BY <1>1, LpacInvariant, PTL
==============================================================================
