------------------------------ MODULE HostProofs ------------------------------
(***************************************************************************)
(* HostInv is kept by every step of HostSupervisor, and with it what the   *)
(* client believes of its child is so and nothing is left behind, for any  *)
(* number of hosts, requests and executions.                               *)
(***************************************************************************)
EXTENDS HostInv, TLAPS

USE DEF client, halting, asking, managed, outside

\* Every variable keeps its shape.
LEMMA TypeKept == TypeOK /\ StopOfChild /\ [Next]_vars => TypeOK'
<1> SUFFICES ASSUME TypeOK, StopOfChild, [Next]_vars PROVE TypeOK'
  OBVIOUS
<1> USE HostSupervisorAssumption DEF TypeOK, StopOfChild
<1>1. ASSUME Launch PROVE TypeOK'
  BY <1>1 DEF Launch, Fork, ForkFails, Fresh, Alive
<1>2. ASSUME ReadyTimeout PROVE TypeOK'
  BY <1>2 DEF ReadyTimeout, DropReady, Fail, Dismiss, ScheduleRestart
<1>3. ASSUME RestartFires PROVE TypeOK'
  BY <1>3 DEF RestartFires, Fork, ForkFails, Fresh, Alive
<1>4. ASSUME Quit PROVE TypeOK'
  <2>1. owner' = owner /\ execution' = [e \in Executions |->
         IF child # NoHost /\ owner[e] = child /\ execution[e] = "running"
         THEN "aborted" ELSE execution[e]]
    BY <1>4 DEF Quit, CancelExecutions
  <2>2. QED
    BY <1>4, <2>1 DEF Quit, DropReady, Fail, Dismiss
<1>5. ASSUME StopTimeout PROVE TypeOK'
  BY <1>5 DEF StopTimeout, Dismiss
<1>6. ASSUME ManagedShutdown PROVE TypeOK'
  BY <1>6 DEF ManagedShutdown
<1>7. ASSUME NEW r \in Requests, Request(r) PROVE TypeOK'
  BY <1>7 DEF Request
<1>8. ASSUME NEW r \in Requests, RequestWaits(r) PROVE TypeOK'
  BY <1>8 DEF RequestWaits
<1>9. ASSUME NEW r \in Requests, RequestStarts(r) PROVE TypeOK'
  BY <1>9 DEF RequestStarts, Fork, ForkFails, Fresh, Alive
<1>10. ASSUME NEW r \in Requests, RequestTimeout(r) PROVE TypeOK'
  BY <1>10 DEF RequestTimeout, Fail
<1>11. ASSUME NEW e \in Executions, ExecutionOver(e) PROVE TypeOK'
  BY <1>11 DEF ExecutionOver
<1>12. ASSUME NEW h \in Hosts, app # "gone", HostReady(h) PROVE TypeOK'
  BY <1>12 DEF HostReady
<1>13. ASSUME NEW h \in Hosts, app # "gone", HostExits(h) PROVE TypeOK'
  <2>1. owner' = owner /\ execution' = [e \in Executions |->
         IF child = h /\ owner[e] = h /\ execution[e] = "running"
         THEN "aborted" ELSE execution[e]]
    BY <1>13 DEF HostExits, CancelExecutions
  <2>2. /\ child' \in Hosts \cup {NoHost} /\ ready' \in {"none", "pending", "resolved"}
        /\ readyTimer' \in Hosts \cup {NoHost} /\ restartTimer' \in BOOLEAN
        /\ request' \in [Requests -> {"new", "starting", "sent", "answered", "failed"}]
    <3>1. CASE child = h
      BY <1>13, <3>1 DEF HostExits, DropReady, Fail, ScheduleRestart
    <3>2. CASE child # h
      BY <1>13, <3>2 DEF HostExits
    <3>3. QED
      BY <3>1, <3>2
  <2>3. QED
    BY <1>13, <2>1, <2>2, SMTT(30) DEF HostExits
<1>14. ASSUME NEW h \in Hosts, NEW r \in Requests, app # "gone", Answer(h, r) PROVE
    TypeOK'
  BY <1>14 DEF Answer
<1>15. ASSUME NEW h \in Hosts, NEW e \in Executions, app # "gone", ExecutionRequest(h,
    e) PROVE TypeOK'
  BY <1>15 DEF ExecutionRequest
<1>16. ASSUME NEW h \in Hosts, NEW e \in Executions, app # "gone", ExecutionCancel(h,
    e) PROVE TypeOK'
  BY <1>16 DEF ExecutionCancel
<1>17. CASE UNCHANGED vars
  BY <1>17 DEF vars
<1> HIDE DEF TypeOK, StopOfChild
<1>18. QED
  BY <1>1, <1>2, <1>3, <1>4, <1>5, <1>6, <1>7, <1>8, <1>9, <1>10, <1>11, <1>12, <1>13,
      <1>14, <1>15, <1>16, <1>17 DEF Next, HostStep
\* The promise is dropped with the child or before it.
LEMMA PromiseKept == HostInv /\ [Next]_vars => PromiseOfChild'
<1> SUFFICES ASSUME HostInv, [Next]_vars PROVE PromiseOfChild'
  OBVIOUS
<1> USE HostSupervisorAssumption DEF HostInv, TypeOK, PromiseOfChild,
    RequestsOfPromise, StopOfChild, NothingLeft, Starting, Sent
<1>1. ASSUME Launch PROVE PromiseOfChild'
  BY <1>1 DEF Launch, Fork, ForkFails, Fresh, Alive
<1>2. ASSUME ReadyTimeout PROVE PromiseOfChild'
  BY <1>2 DEF ReadyTimeout, DropReady, Fail, Dismiss, ScheduleRestart
<1>3. ASSUME RestartFires PROVE PromiseOfChild'
  BY <1>3 DEF RestartFires, Fork, ForkFails, Fresh, Alive
<1>4. ASSUME Quit PROVE PromiseOfChild'
  BY <1>4 DEF Quit, DropReady, Fail, Dismiss, CancelExecutions
<1>5. ASSUME StopTimeout PROVE PromiseOfChild'
  BY <1>5 DEF StopTimeout, Dismiss
<1>6. ASSUME ManagedShutdown PROVE PromiseOfChild'
  BY <1>6 DEF ManagedShutdown
<1>7. ASSUME NEW r \in Requests, Request(r) PROVE PromiseOfChild'
  BY <1>7 DEF Request
<1>8. ASSUME NEW r \in Requests, RequestWaits(r) PROVE PromiseOfChild'
  BY <1>8 DEF RequestWaits
<1>9. ASSUME NEW r \in Requests, RequestStarts(r) PROVE PromiseOfChild'
  BY <1>9 DEF RequestStarts, Fork, ForkFails, Fresh, Alive
<1>10. ASSUME NEW r \in Requests, RequestTimeout(r) PROVE PromiseOfChild'
  BY <1>10 DEF RequestTimeout, Fail
<1>11. ASSUME NEW e \in Executions, ExecutionOver(e) PROVE PromiseOfChild'
  BY <1>11 DEF ExecutionOver
<1>12. ASSUME NEW h \in Hosts, app # "gone", HostReady(h) PROVE PromiseOfChild'
  BY <1>12 DEF HostReady
<1>13. ASSUME NEW h \in Hosts, app # "gone", HostExits(h) PROVE PromiseOfChild'
  BY <1>13 DEF HostExits, CancelExecutions, DropReady, Fail, ScheduleRestart, Alive
<1>14. ASSUME NEW h \in Hosts, NEW r \in Requests, app # "gone", Answer(h, r) PROVE
    PromiseOfChild'
  BY <1>14 DEF Answer
<1>15. ASSUME NEW h \in Hosts, NEW e \in Executions, app # "gone", ExecutionRequest(h,
    e) PROVE PromiseOfChild'
  BY <1>15 DEF ExecutionRequest
<1>16. ASSUME NEW h \in Hosts, NEW e \in Executions, app # "gone", ExecutionCancel(h,
    e) PROVE PromiseOfChild'
  BY <1>16 DEF ExecutionCancel
<1>17. CASE UNCHANGED vars
  BY <1>17 DEF vars
<1> HIDE DEF HostInv, TypeOK, PromiseOfChild, RequestsOfPromise, StopOfChild,
    NothingLeft, Starting, Sent
<1>18. QED
  BY <1>1, <1>2, <1>3, <1>4, <1>5, <1>6, <1>7, <1>8, <1>9, <1>10, <1>11, <1>12, <1>13,
      <1>14, <1>15, <1>16, <1>17 DEF Next, HostStep
\* Requests are settled with the promise they wait for, or with the child.
LEMMA RequestsKept == HostInv /\ [Next]_vars => RequestsOfPromise'
<1> SUFFICES ASSUME HostInv, [Next]_vars PROVE RequestsOfPromise'
  OBVIOUS
<1> USE HostSupervisorAssumption DEF HostInv, TypeOK, PromiseOfChild,
    RequestsOfPromise, StopOfChild, NothingLeft, Starting, Sent
<1>1. ASSUME Launch PROVE RequestsOfPromise'
  BY <1>1 DEF Launch, Fork, ForkFails, Fresh, Alive
<1>2. ASSUME ReadyTimeout PROVE RequestsOfPromise'
  BY <1>2 DEF ReadyTimeout, DropReady, Fail, Dismiss, ScheduleRestart
<1>3. ASSUME RestartFires PROVE RequestsOfPromise'
  BY <1>3 DEF RestartFires, Fork, ForkFails, Fresh, Alive
<1>4. ASSUME Quit PROVE RequestsOfPromise'
  BY <1>4 DEF Quit, DropReady, Fail, Dismiss, CancelExecutions
<1>5. ASSUME StopTimeout PROVE RequestsOfPromise'
  BY <1>5 DEF StopTimeout, Dismiss
<1>6. ASSUME ManagedShutdown PROVE RequestsOfPromise'
  BY <1>6 DEF ManagedShutdown
<1>7. ASSUME NEW r \in Requests, Request(r) PROVE RequestsOfPromise'
  BY <1>7 DEF Request
<1>8. ASSUME NEW r \in Requests, RequestWaits(r) PROVE RequestsOfPromise'
  BY <1>8 DEF RequestWaits
<1>9. ASSUME NEW r \in Requests, RequestStarts(r) PROVE RequestsOfPromise'
  BY <1>9 DEF RequestStarts, Fork, ForkFails, Fresh, Alive
<1>10. ASSUME NEW r \in Requests, RequestTimeout(r) PROVE RequestsOfPromise'
  BY <1>10 DEF RequestTimeout, Fail
<1>11. ASSUME NEW e \in Executions, ExecutionOver(e) PROVE RequestsOfPromise'
  BY <1>11 DEF ExecutionOver
<1>12. ASSUME NEW h \in Hosts, app # "gone", HostReady(h) PROVE RequestsOfPromise'
  BY <1>12 DEF HostReady
<1>13. ASSUME NEW h \in Hosts, app # "gone", HostExits(h) PROVE RequestsOfPromise'
  BY <1>13 DEF HostExits, CancelExecutions, DropReady, Fail, ScheduleRestart, Alive
<1>14. ASSUME NEW h \in Hosts, NEW r \in Requests, app # "gone", Answer(h, r) PROVE
    RequestsOfPromise'
  BY <1>14 DEF Answer
<1>15. ASSUME NEW h \in Hosts, NEW e \in Executions, app # "gone", ExecutionRequest(h,
    e) PROVE RequestsOfPromise'
  BY <1>15 DEF ExecutionRequest
<1>16. ASSUME NEW h \in Hosts, NEW e \in Executions, app # "gone", ExecutionCancel(h,
    e) PROVE RequestsOfPromise'
  BY <1>16 DEF ExecutionCancel
<1>17. CASE UNCHANGED vars
  BY <1>17 DEF vars
<1> HIDE DEF HostInv, TypeOK, PromiseOfChild, RequestsOfPromise, StopOfChild,
    NothingLeft, Starting, Sent
<1>18. QED
  BY <1>1, <1>2, <1>3, <1>4, <1>5, <1>6, <1>7, <1>8, <1>9, <1>10, <1>11, <1>12, <1>13,
      <1>14, <1>15, <1>16, <1>17 DEF Next, HostStep
\* #stop hears of the exit of the child it waits for, and of no other.
LEMMA StopKept == HostInv /\ [Next]_vars => StopOfChild'
<1> SUFFICES ASSUME HostInv, [Next]_vars PROVE StopOfChild'
  OBVIOUS
<1> USE HostSupervisorAssumption DEF HostInv, TypeOK, PromiseOfChild,
    RequestsOfPromise, StopOfChild, NothingLeft, Starting, Sent
<1>1. ASSUME Launch PROVE StopOfChild'
  BY <1>1 DEF Launch, Fork, ForkFails, Fresh, Alive
<1>2. ASSUME ReadyTimeout PROVE StopOfChild'
  BY <1>2 DEF ReadyTimeout, DropReady, Fail, Dismiss, ScheduleRestart
<1>3. ASSUME RestartFires PROVE StopOfChild'
  BY <1>3 DEF RestartFires, Fork, ForkFails, Fresh, Alive
<1>4. ASSUME Quit PROVE StopOfChild'
  BY <1>4 DEF Quit, DropReady, Fail, Dismiss, CancelExecutions
<1>5. ASSUME StopTimeout PROVE StopOfChild'
  BY <1>5 DEF StopTimeout, Dismiss
<1>6. ASSUME ManagedShutdown PROVE StopOfChild'
  BY <1>6 DEF ManagedShutdown
<1>7. ASSUME NEW r \in Requests, Request(r) PROVE StopOfChild'
  BY <1>7 DEF Request
<1>8. ASSUME NEW r \in Requests, RequestWaits(r) PROVE StopOfChild'
  BY <1>8 DEF RequestWaits
<1>9. ASSUME NEW r \in Requests, RequestStarts(r) PROVE StopOfChild'
  BY <1>9 DEF RequestStarts, Fork, ForkFails, Fresh, Alive
<1>10. ASSUME NEW r \in Requests, RequestTimeout(r) PROVE StopOfChild'
  BY <1>10 DEF RequestTimeout, Fail
<1>11. ASSUME NEW e \in Executions, ExecutionOver(e) PROVE StopOfChild'
  BY <1>11 DEF ExecutionOver
<1>12. ASSUME NEW h \in Hosts, app # "gone", HostReady(h) PROVE StopOfChild'
  BY <1>12 DEF HostReady
<1>13. ASSUME NEW h \in Hosts, app # "gone", HostExits(h) PROVE StopOfChild'
  BY <1>13 DEF HostExits, CancelExecutions, DropReady, Fail, ScheduleRestart, Alive
<1>14. ASSUME NEW h \in Hosts, NEW r \in Requests, app # "gone", Answer(h, r) PROVE
    StopOfChild'
  BY <1>14 DEF Answer
<1>15. ASSUME NEW h \in Hosts, NEW e \in Executions, app # "gone", ExecutionRequest(h,
    e) PROVE StopOfChild'
  BY <1>15 DEF ExecutionRequest
<1>16. ASSUME NEW h \in Hosts, NEW e \in Executions, app # "gone", ExecutionCancel(h,
    e) PROVE StopOfChild'
  BY <1>16 DEF ExecutionCancel
<1>17. CASE UNCHANGED vars
  BY <1>17 DEF vars
<1> HIDE DEF HostInv, TypeOK, PromiseOfChild, RequestsOfPromise, StopOfChild,
    NothingLeft, Starting, Sent
<1>18. QED
  BY <1>1, <1>2, <1>3, <1>4, <1>5, <1>6, <1>7, <1>8, <1>9, <1>10, <1>11, <1>12, <1>13,
      <1>14, <1>15, <1>16, <1>17 DEF Next, HostStep
\* No child is left before it was told to go, and no execution before it was aborted.
LEMMA NothingLeftKept == HostInv /\ [Next]_vars => NothingLeft'
<1> SUFFICES ASSUME HostInv, [Next]_vars PROVE NothingLeft'
  OBVIOUS
<1> USE HostSupervisorAssumption DEF HostInv, TypeOK, PromiseOfChild,
    RequestsOfPromise, StopOfChild, NothingLeft, Starting, Sent
<1>1. ASSUME Launch PROVE NothingLeft'
  BY <1>1 DEF Launch, Fork, ForkFails, Fresh, Alive
<1>2. ASSUME ReadyTimeout PROVE NothingLeft'
  BY <1>2 DEF ReadyTimeout, DropReady, Fail, Dismiss, ScheduleRestart
<1>3. ASSUME RestartFires PROVE NothingLeft'
  BY <1>3 DEF RestartFires, Fork, ForkFails, Fresh, Alive
<1>4. ASSUME Quit PROVE NothingLeft'
  BY <1>4 DEF Quit, DropReady, Fail, Dismiss, CancelExecutions
<1>5. ASSUME StopTimeout PROVE NothingLeft'
  BY <1>5 DEF StopTimeout, Dismiss
<1>6. ASSUME ManagedShutdown PROVE NothingLeft'
  BY <1>6 DEF ManagedShutdown
<1>7. ASSUME NEW r \in Requests, Request(r) PROVE NothingLeft'
  BY <1>7 DEF Request
<1>8. ASSUME NEW r \in Requests, RequestWaits(r) PROVE NothingLeft'
  BY <1>8 DEF RequestWaits
<1>9. ASSUME NEW r \in Requests, RequestStarts(r) PROVE NothingLeft'
  BY <1>9 DEF RequestStarts, Fork, ForkFails, Fresh, Alive
<1>10. ASSUME NEW r \in Requests, RequestTimeout(r) PROVE NothingLeft'
  BY <1>10 DEF RequestTimeout, Fail
<1>11. ASSUME NEW e \in Executions, ExecutionOver(e) PROVE NothingLeft'
  BY <1>11 DEF ExecutionOver
<1>12. ASSUME NEW h \in Hosts, app # "gone", HostReady(h) PROVE NothingLeft'
  BY <1>12 DEF HostReady
<1>13. ASSUME NEW h \in Hosts, app # "gone", HostExits(h) PROVE NothingLeft'
  BY <1>13 DEF HostExits, CancelExecutions, DropReady, Fail, ScheduleRestart, Alive
<1>14. ASSUME NEW h \in Hosts, NEW r \in Requests, app # "gone", Answer(h, r) PROVE
    NothingLeft'
  BY <1>14 DEF Answer
<1>15. ASSUME NEW h \in Hosts, NEW e \in Executions, app # "gone", ExecutionRequest(h,
    e) PROVE NothingLeft'
  BY <1>15 DEF ExecutionRequest
<1>16. ASSUME NEW h \in Hosts, NEW e \in Executions, app # "gone", ExecutionCancel(h,
    e) PROVE NothingLeft'
  BY <1>16 DEF ExecutionCancel
<1>17. CASE UNCHANGED vars
  BY <1>17 DEF vars
<1> HIDE DEF HostInv, TypeOK, PromiseOfChild, RequestsOfPromise, StopOfChild,
    NothingLeft, Starting, Sent
<1>18. QED
  BY <1>1, <1>2, <1>3, <1>4, <1>5, <1>6, <1>7, <1>8, <1>9, <1>10, <1>11, <1>12, <1>13,
      <1>14, <1>15, <1>16, <1>17 DEF Next, HostStep
\* HostInv holds at every moment.
THEOREM HostInvariance == Spec => []HostInv
<1>1. Init => HostInv
  <2> SUFFICES ASSUME Init PROVE HostInv
    OBVIOUS
  <2>1. TypeOK
    BY DEF Init, TypeOK
  <2>2. PromiseOfChild /\ StopOfChild
    BY DEF Init, PromiseOfChild, StopOfChild
  <2>3. RequestsOfPromise
    BY DEF Init, RequestsOfPromise, Starting, Sent
  <2>4. NothingLeft
    BY DEF Init, NothingLeft
  <2>5. QED
    BY <2>1, <2>2, <2>3, <2>4 DEF HostInv
<1>2. HostInv /\ [Next]_vars => HostInv'
  BY TypeKept, PromiseKept, RequestsKept, StopKept, NothingLeftKept DEF HostInv
<1>3. QED
  BY <1>1, <1>2, PTL DEF Spec

\* A resolved ready promise stands for a child that is ready, and the pending
\* requests were all posted to it.
THEOREM ClientKnowsItsChild == Spec => []ClientAgrees
<1>1. HostInv => ClientAgrees
  BY DEF HostInv, ClientAgrees, PromiseOfChild, RequestsOfPromise, TypeOK, Alive, Sent
<1>2. QED
  BY <1>1, HostInvariance, PTL

\* A process that is no longer the child was told to go, and a managed
\* execution that nobody aborted belongs to the child or ends with #stop.
THEOREM NothingIsOrphaned == Spec => []NoOrphan
<1>1. HostInv => NoOrphan
  BY DEF HostInv, NoOrphan, NothingLeft, Alive
<1>2. QED
  BY <1>1, HostInvariance, PTL
==============================================================================
