---------------------------- MODULE RunCoreProofs ----------------------------
(***************************************************************************)
(* The inductive invariants of RunCore, and what follows from them for     *)
(* any number of runs, conversations, calls and rounds.                    *)
(*                                                                         *)
(* The step of IInv is cut into four lemmas, one per family of conjuncts,  *)
(* so that each expands only the definitions its family needs; each has    *)
(* one step per action.  With LedgerInv beside it every step of RunCore,   *)
(* crashes included, is a step of RunLedger or leaves the ledger as it is. *)
(*                                                                         *)
(* RowsInv is kept by every step as well: no row makes a transition that   *)
(* its table does not have, every prompt is awaited, and no checkpoint is  *)
(* dropped before its text is kept.  Then how calls end: EndInv is kept,   *)
(* and SettledInv too if a host dies between handlers only, so that a run  *)
(* that has ended leaves no open call and no untold effect.                *)
(***************************************************************************)
EXTENDS RunEndInv, TLAPS

USE DEF calls, text, place, control, process, Goto, SetStatus, SetCall, Calls

\* Every action keeps the variables in their types: the bounds on cur, last
\* and rounds rest on where the run stands in its loop over the calls.
LEMMA TypeStep == IInv /\ [Next]_vars => (TypeOK)'
<1> SUFFICES ASSUME IInv, [Next]_vars PROVE TypeOK'
  OBVIOUS
<1> DEFINE I == TypeOK
<1> USE RunCoreAssumption DEF IInv, TypeOK, CallsOfPlace, InCalls, Unaborted,
    RunStatus, OpenRunStatus, TerminalRunStatus, ToolCallStatus, UnfinishedCallStatus,
    TerminalCallStatus, AwaitPoints, SyncPoints, Absent
<1>1. ASSUME NEW r \in Runs, Prepare(r) PROVE I'
  BY <1>1 DEF Prepare
<1>2. ASSUME NEW r \in Runs, Begin(r) PROVE I'
  BY <1>2 DEF Begin
<1>3. ASSUME NEW r \in Runs, RequestTurn(r) PROVE I'
  BY <1>3 DEF RequestTurn, UnlessAborted
<1>4. ASSUME NEW r \in Runs, AppendAssistantTurn(r) PROVE I'
  BY <1>4 DEF AppendAssistantTurn
<1>5. ASSUME NEW r \in Runs, TurnStored(r) PROVE I'
  BY <1>5 DEF TurnStored, AfterTurn
<1>6. ASSUME NEW r \in Runs, NextRound(r) PROVE I'
  BY <1>6 DEF NextRound
<1>7. ASSUME NEW r \in Runs, AbandonCalls(r) PROVE I'
  BY <1>7 DEF AbandonCalls
<1>8. ASSUME NEW r \in Runs, RejectCall(r) PROVE I'
  BY <1>8 DEF RejectCall, AtCall, Kind
<1>9. ASSUME NEW r \in Runs, AskApproval(r) PROVE I'
  BY <1>9 DEF AskApproval, AtCall, Kind
<1>10. ASSUME NEW r \in Runs, CreateApproval(r) PROVE I'
  BY <1>10 DEF CreateApproval
<1>11. ASSUME NEW r \in Runs, AwaitApproval(r) PROVE I'
  BY <1>11 DEF AwaitApproval
<1>12. ASSUME NEW r \in Runs, ApprovalDecided(r) PROVE I'
  BY <1>12 DEF ApprovalDecided, Resume
<1>13. ASSUME NEW r \in Runs, Denied(r) PROVE I'
  BY <1>13 DEF Denied
<1>14. ASSUME NEW r \in Runs, BeginTool(r) PROVE I'
  BY <1>14 DEF BeginTool, Permitted, AtCall, Kind
<1>15. ASSUME NEW r \in Runs, ExecuteTool(r) PROVE I'
  BY <1>15 DEF ExecuteTool
<1>16. ASSUME NEW r \in Runs, AskInput(r) PROVE I'
  BY <1>16 DEF AskInput, AtCall, Kind
<1>17. ASSUME NEW r \in Runs, AwaitInput(r) PROVE I'
  BY <1>17 DEF AwaitInput
<1>18. ASSUME NEW r \in Runs, InputAnswered(r) PROVE I'
  BY <1>18 DEF InputAnswered, Resume
<1>19. ASSUME NEW r \in Runs, InputDone(r) PROVE I'
  BY <1>19 DEF InputDone
<1>20. ASSUME NEW r \in Runs, InputAborted(r) PROVE I'
  BY <1>20 DEF InputAborted
<1>21. ASSUME NEW r \in Runs, ReportResult(r) PROVE I'
  BY <1>21 DEF ReportResult
<1>22. ASSUME NEW r \in Runs, Finish(r) PROVE I'
  BY <1>22 DEF Finish, UnlessAborted, Aborted
<1>23. ASSUME NEW r \in Runs, KeepInterruptedText(r) PROVE I'
  BY <1>23 DEF KeepInterruptedText
<1>24. ASSUME NEW r \in Runs, DropCheckpoint(r) PROVE I'
  BY <1>24 DEF DropCheckpoint
<1>25. ASSUME NEW r \in Runs, Conclude(r) PROVE I'
  BY <1>25 DEF Conclude, EndStatus
<1>26. ASSUME NEW r \in Runs, ExpireApprovals(r) PROVE I'
  BY <1>26 DEF ExpireApprovals, ExpirePending
<1>27. ASSUME NEW r \in Runs, Settle(r) PROVE I'
  BY <1>27 DEF Settle, Forget
<1>28. ASSUME NEW r \in Runs, RunRecovered(r) PROVE I'
  BY <1>28 DEF RunRecovered, Forget
<1>29. ASSUME NEW r \in Runs, StreamFails(r) PROVE I'
  BY <1>29 DEF StreamFails
<1>30. ASSUME NEW r \in Runs, TurnEnds(r) PROVE I'
  BY <1>30 DEF TurnEnds
<1>31. ASSUME NEW r \in Runs, ToolCancelled(r) PROVE I'
  BY <1>31 DEF ToolCancelled, UnlessAborted
<1>32. ASSUME NEW r \in Runs, TextDelta(r) PROVE I'
  BY <1>32 DEF TextDelta
<1>33. ASSUME NEW r \in Runs, StartRun(r) PROVE I'
  BY <1>33 DEF StartRun, Serving, MayStart, OpenRuns
<1>34. ASSUME NEW r \in Runs, ProvideRunInput(r) PROVE I'
  BY <1>34 DEF ProvideRunInput, Serving
<1>35. ASSUME NEW r \in Runs, CancelRun(r) PROVE I'
  BY <1>35 DEF CancelRun, AbortRuns, Serving
<1>36. ASSUME NEW r \in Runs, RecoverRun(r) PROVE I'
  BY <1>36 DEF RecoverRun
<1>37. ASSUME NEW r \in Runs, NEW knd \in CallKinds, CreateToolCall(r, knd) PROVE I'
  BY <1>37 DEF CreateToolCall
<1>38. ASSUME NEW r \in Runs, NEW k \in Calls, FinishUncertainCall(r, k) PROVE I'
  BY <1>38 DEF FinishUncertainCall, UncertainOutcome, Unfinished
<1>39. ASSUME NEW r \in Runs, NEW k \in Calls, SyntheticResult(r, k) PROVE I'
  BY <1>39 DEF SyntheticResult
<1>40. ASSUME NEW r \in Runs, NEW found \in BOOLEAN, SecretArrives(r, found) PROVE I'
  BY <1>40 DEF SecretArrives, UnlessAborted
<1>41. ASSUME NEW r \in Runs, NEW outcome \in {"succeeded", "failed"},
    ToolReturns(r, outcome) PROVE I'
  BY <1>41 DEF ToolReturns
<1>42. ASSUME NEW r \in Runs, NEW k \in Calls, NEW decision \in {"approved",
    "denied"}, ResolveApproval(r, k, decision) PROVE I'
  <2>1. approval' \in [Runs -> [Calls -> {Absent, "pending", "approved", "denied",
      "expired"}]]
    BY <1>42 DEF ResolveApproval
  <2>2. \/ waiter' = [waiter EXCEPT ![r] = "none"] /\ pc' = [pc EXCEPT ![r] = "decided"]
        \/ waiter' = waiter /\ pc' = pc
    BY <1>42 DEF ResolveApproval
  <2>3. waiter' \in [Runs -> {"none", "approval", "input"}]
    BY <2>2
  <2>4. pc' \in [Runs -> AwaitPoints \cup SyncPoints]
    BY <2>2
  <2> QED
    BY <1>42, <2>1, <2>3, <2>4 DEF ResolveApproval
<1>43. ASSUME Boot PROVE I'
  BY <1>43 DEF Boot, OpenRuns
<1>44. ASSUME Ready PROVE I'
  BY <1>44 DEF Ready, ExpirePending
<1>45. ASSUME Shutdown PROVE I'
  BY <1>45 DEF Shutdown, AbortRuns
<1>46. ASSUME Exit PROVE I'
  BY <1>46 DEF Exit, HostGone, Forget
<1>47. ASSUME Crash PROVE I'
  BY <1>47 DEF Crash, HostGone, Forget
<1>48. CASE UNCHANGED vars
  BY <1>48 DEF vars
<1> HIDE DEF IInv, TypeOK, CallsOfPlace, InCalls, Unaborted, RunStatus,
    OpenRunStatus, TerminalRunStatus, ToolCallStatus, UnfinishedCallStatus,
    TerminalCallStatus, AwaitPoints, SyncPoints, Absent
<1> QED
  BY <1>1, <1>2, <1>3, <1>4, <1>5, <1>6, <1>7, <1>8, <1>9, <1>10, <1>11, <1>12,
      <1>13, <1>14, <1>15, <1>16, <1>17, <1>18, <1>19, <1>20, <1>21, <1>22, <1>23,
      <1>24, <1>25, <1>26, <1>27, <1>28, <1>29, <1>30, <1>31, <1>32, <1>33, <1>34,
      <1>35, <1>36, <1>37, <1>38, <1>39, <1>40, <1>41, <1>42, <1>43, <1>44, <1>45,
      <1>46, <1>47, <1>48 DEF Next, RunStep, Answer, UserRequest, HostStep

\* A step by which a run of a serving host moves on keeps PlaceOfHost.
LEMMA PlaceOfHostKept ==
  ASSUME TypeOK, PlaceOfHost,
         NEW r \in Runs, NEW s, NEW label \in AwaitPoints \cup SyncPoints,
         host \notin {"down", "recovering"}, r \notin recovering, label # "recover",
         SetStatus(r, s), Goto(r, label),
         host' = host, recovering' = recovering
  PROVE  PlaceOfHost'
<1>1. \A q \in Runs : pc'[q] = "recover" => pc[q] = "recover"
  BY DEF TypeOK
<1>2. \A q \in Runs : pc[q] # "recover"
  BY DEF PlaceOfHost
<1>3. \A q \in recovering : status'[q] \in TerminalRunStatus
  BY DEF TypeOK, PlaceOfHost
<1> QED
  BY <1>1, <1>2, <1>3 DEF PlaceOfHost

\* Every action keeps a run's status, its membership in #activeRuns and its
\* waiter in step with the place of its execution.
LEMMA PlaceStep == IInv /\ [Next]_vars => (PlaceOfHost /\ StatusOfPlace /\ WaiterOfPlace)'
<1> SUFFICES ASSUME IInv, [Next]_vars PROVE (PlaceOfHost /\ StatusOfPlace /\
    WaiterOfPlace)'
  OBVIOUS
<1> DEFINE I == PlaceOfHost /\ StatusOfPlace /\ WaiterOfPlace
<1> USE DEF IInv, TypeOK, PlaceOfHost, StatusOfPlace, WaiterOfPlace, OpenRunStatus,
    TerminalRunStatus, Epilogue, CanTransitionRun, RunTransitions, Aborted, AwaitPoints,
    SyncPoints, Busy, Absent
<1>1. ASSUME NEW r \in Runs, Prepare(r) PROVE I'
  <2>1. PlaceOfHost'
    <3>1. host \notin {"down", "recovering"}
      BY <1>1 DEF Prepare
    <3>2. r \notin recovering
      BY <1>1 DEF Prepare
    <3> QED
      BY <1>1, <3>1, <3>2, PlaceOfHostKept DEF Prepare
  <2>2. StatusOfPlace'
    BY <1>1 DEF Prepare
  <2>3. WaiterOfPlace'
    BY <1>1 DEF Prepare
  <2> QED
    BY <2>1, <2>2, <2>3
<1>2. ASSUME NEW r \in Runs, Begin(r) PROVE I'
  <2>1. PlaceOfHost'
    <3>1. host \notin {"down", "recovering"}
      BY <1>2 DEF Begin
    <3>2. r \notin recovering
      BY <1>2 DEF Begin
    <3> QED
      BY <1>2, <3>1, <3>2, PlaceOfHostKept DEF Begin
  <2>2. StatusOfPlace'
    BY <1>2 DEF Begin
  <2>3. WaiterOfPlace'
    BY <1>2 DEF Begin
  <2> QED
    BY <2>1, <2>2, <2>3
<1>3. ASSUME NEW r \in Runs, RequestTurn(r) PROVE I'
  BY <1>3 DEF RequestTurn, UnlessAborted
<1>4. ASSUME NEW r \in Runs, AppendAssistantTurn(r) PROVE I'
  BY <1>4 DEF AppendAssistantTurn
<1>5. ASSUME NEW r \in Runs, TurnStored(r) PROVE I'
  BY <1>5 DEF TurnStored, AfterTurn
<1>6. ASSUME NEW r \in Runs, NextRound(r) PROVE I'
  BY <1>6 DEF NextRound
<1>7. ASSUME NEW r \in Runs, AbandonCalls(r) PROVE I'
  BY <1>7 DEF AbandonCalls
<1>8. ASSUME NEW r \in Runs, RejectCall(r) PROVE I'
  BY <1>8 DEF RejectCall, AtCall, Kind
<1>9. ASSUME NEW r \in Runs, AskApproval(r) PROVE I'
  BY <1>9 DEF AskApproval, AtCall, Kind
<1>10. ASSUME NEW r \in Runs, CreateApproval(r) PROVE I'
  BY <1>10 DEF CreateApproval
<1>11. ASSUME NEW r \in Runs, AwaitApproval(r) PROVE I'
  <2>1. PlaceOfHost'
    <3>1. host \notin {"down", "recovering"}
      BY <1>11 DEF AwaitApproval
    <3>2. r \notin recovering
      BY <1>11 DEF AwaitApproval
    <3> QED
      BY <1>11, <3>1, <3>2, PlaceOfHostKept DEF AwaitApproval
  <2>2. StatusOfPlace'
    BY <1>11 DEF AwaitApproval
  <2>3. WaiterOfPlace'
    BY <1>11 DEF AwaitApproval
  <2> QED
    BY <2>1, <2>2, <2>3
<1>12. ASSUME NEW r \in Runs, ApprovalDecided(r) PROVE I'
  BY <1>12 DEF ApprovalDecided, Resume
<1>13. ASSUME NEW r \in Runs, Denied(r) PROVE I'
  BY <1>13 DEF Denied
<1>14. ASSUME NEW r \in Runs, BeginTool(r) PROVE I'
  BY <1>14 DEF BeginTool, Permitted, AtCall, Kind
<1>15. ASSUME NEW r \in Runs, ExecuteTool(r) PROVE I'
  BY <1>15 DEF ExecuteTool
<1>16. ASSUME NEW r \in Runs, AskInput(r) PROVE I'
  BY <1>16 DEF AskInput, AtCall, Kind
<1>17. ASSUME NEW r \in Runs, AwaitInput(r) PROVE I'
  <2>1. PlaceOfHost'
    <3>1. host \notin {"down", "recovering"}
      BY <1>17 DEF AwaitInput
    <3>2. r \notin recovering
      BY <1>17 DEF AwaitInput
    <3> QED
      BY <1>17, <3>1, <3>2, PlaceOfHostKept DEF AwaitInput
  <2>2. StatusOfPlace'
    BY <1>17 DEF AwaitInput
  <2>3. WaiterOfPlace'
    BY <1>17 DEF AwaitInput
  <2> QED
    BY <2>1, <2>2, <2>3
<1>18. ASSUME NEW r \in Runs, InputAnswered(r) PROVE I'
  BY <1>18 DEF InputAnswered, Resume
<1>19. ASSUME NEW r \in Runs, InputDone(r) PROVE I'
  BY <1>19 DEF InputDone
<1>20. ASSUME NEW r \in Runs, InputAborted(r) PROVE I'
  BY <1>20 DEF InputAborted
<1>21. ASSUME NEW r \in Runs, ReportResult(r) PROVE I'
  BY <1>21 DEF ReportResult
<1>22. ASSUME NEW r \in Runs, Finish(r) PROVE I'
  BY <1>22 DEF Finish, UnlessAborted
<1>23. ASSUME NEW r \in Runs, KeepInterruptedText(r) PROVE I'
  BY <1>23 DEF KeepInterruptedText
<1>24. ASSUME NEW r \in Runs, DropCheckpoint(r) PROVE I'
  BY <1>24 DEF DropCheckpoint
<1>25. ASSUME NEW r \in Runs, Conclude(r) PROVE I'
  BY <1>25 DEF Conclude, EndStatus
<1>26. ASSUME NEW r \in Runs, ExpireApprovals(r) PROVE I'
  BY <1>26 DEF ExpireApprovals, ExpirePending
<1>27. ASSUME NEW r \in Runs, Settle(r) PROVE I'
  BY <1>27 DEF Settle, Forget
<1>28. ASSUME NEW r \in Runs, RunRecovered(r) PROVE I'
  BY <1>28 DEF RunRecovered, Forget
<1>29. ASSUME NEW r \in Runs, StreamFails(r) PROVE I'
  BY <1>29 DEF StreamFails
<1>30. ASSUME NEW r \in Runs, TurnEnds(r) PROVE I'
  BY <1>30 DEF TurnEnds
<1>31. ASSUME NEW r \in Runs, ToolCancelled(r) PROVE I'
  BY <1>31 DEF ToolCancelled, UnlessAborted
<1>32. ASSUME NEW r \in Runs, TextDelta(r) PROVE I'
  BY <1>32 DEF TextDelta
<1>33. ASSUME NEW r \in Runs, StartRun(r) PROVE I'
  BY <1>33 DEF StartRun, Serving, MayStart, OpenRuns
<1>34. ASSUME NEW r \in Runs, ProvideRunInput(r) PROVE I'
  BY <1>34 DEF ProvideRunInput, Serving
<1>35. ASSUME NEW r \in Runs, CancelRun(r) PROVE I'
  BY <1>35 DEF CancelRun, AbortRuns, Serving
<1>36. ASSUME NEW r \in Runs, RecoverRun(r) PROVE I'
  BY <1>36 DEF RecoverRun
<1>37. ASSUME NEW r \in Runs, NEW knd \in CallKinds, CreateToolCall(r, knd) PROVE I'
  BY <1>37 DEF CreateToolCall
<1>38. ASSUME NEW r \in Runs, NEW k \in Calls, FinishUncertainCall(r, k) PROVE I'
  BY <1>38 DEF FinishUncertainCall, UncertainOutcome, Unfinished
<1>39. ASSUME NEW r \in Runs, NEW k \in Calls, SyntheticResult(r, k) PROVE I'
  BY <1>39 DEF SyntheticResult
<1>40. ASSUME NEW r \in Runs, NEW found \in BOOLEAN, SecretArrives(r, found) PROVE I'
  BY <1>40 DEF SecretArrives, UnlessAborted
<1>41. ASSUME NEW r \in Runs, NEW outcome \in {"succeeded", "failed"},
    ToolReturns(r, outcome) PROVE I'
  BY <1>41 DEF ToolReturns
<1>42. ASSUME NEW r \in Runs, NEW k \in Calls, NEW decision \in {"approved",
    "denied"}, ResolveApproval(r, k, decision) PROVE I'
  <2>1. PlaceOfHost'
    BY <1>42 DEF ResolveApproval, Serving
  <2>2. StatusOfPlace'
    BY <1>42 DEF ResolveApproval, Serving
  <2>3. WaiterOfPlace'
    BY <1>42 DEF ResolveApproval, Serving
  <2> QED
    BY <2>1, <2>2, <2>3
<1>43. ASSUME Boot PROVE I'
  BY <1>43 DEF Boot, OpenRuns
<1>44. ASSUME Ready PROVE I'
  BY <1>44 DEF Ready, ExpirePending
<1>45. ASSUME Shutdown PROVE I'
  BY <1>45 DEF Shutdown, AbortRuns
<1>46. ASSUME Exit PROVE I'
  BY <1>46 DEF Exit, HostGone, Forget
<1>47. ASSUME Crash PROVE I'
  BY <1>47 DEF Crash, HostGone, Forget
<1>48. CASE UNCHANGED vars
  BY <1>48 DEF vars
<1> HIDE DEF IInv, TypeOK, PlaceOfHost, StatusOfPlace, WaiterOfPlace, OpenRunStatus,
    TerminalRunStatus, Epilogue, CanTransitionRun, RunTransitions, Aborted, AwaitPoints,
    SyncPoints, Busy, Absent
<1> QED
  BY <1>1, <1>2, <1>3, <1>4, <1>5, <1>6, <1>7, <1>8, <1>9, <1>10, <1>11, <1>12,
      <1>13, <1>14, <1>15, <1>16, <1>17, <1>18, <1>19, <1>20, <1>21, <1>22, <1>23,
      <1>24, <1>25, <1>26, <1>27, <1>28, <1>29, <1>30, <1>31, <1>32, <1>33, <1>34,
      <1>35, <1>36, <1>37, <1>38, <1>39, <1>40, <1>41, <1>42, <1>43, <1>44, <1>45,
      <1>46, <1>47, <1>48 DEF Next, RunStep, Answer, UserRequest, HostStep

\* Every action keeps what the place of an execution says of its abort
\* signal, its calls and the grant of the call it is about to enter.
LEMMA CallsStep == IInv /\ [Next]_vars => (AbortOfPlace /\ CallsOfPlace /\ GrantOfPlace)'
<1> SUFFICES ASSUME IInv, [Next]_vars PROVE (AbortOfPlace /\ CallsOfPlace /\
    GrantOfPlace)'
  OBVIOUS
<1> DEFINE I == AbortOfPlace /\ CallsOfPlace /\ GrantOfPlace
<1> USE RunCoreAssumption DEF IInv, TypeOK, AbortOfPlace, CallsOfPlace,
    GrantOfPlace, Unaborted, BeforeEntry, InCalls, Kind, Absent, Epilogue,
    OpenRunStatus, TerminalRunStatus, StatusOfPlace, WaiterOfPlace, PlaceOfHost,
    Aborted, AwaitPoints, SyncPoints, Busy
<1>1. ASSUME NEW r \in Runs, Prepare(r) PROVE I'
  BY <1>1 DEF Prepare
<1>2. ASSUME NEW r \in Runs, Begin(r) PROVE I'
  BY <1>2 DEF Begin
<1>3. ASSUME NEW r \in Runs, RequestTurn(r) PROVE I'
  BY <1>3 DEF RequestTurn, UnlessAborted
<1>4. ASSUME NEW r \in Runs, AppendAssistantTurn(r) PROVE I'
  BY <1>4 DEF AppendAssistantTurn
<1>5. ASSUME NEW r \in Runs, TurnStored(r) PROVE I'
  <2>1. AbortOfPlace'
    BY <1>5 DEF TurnStored, AfterTurn
  <2>2. CallsOfPlace'
    BY <1>5 DEF TurnStored, AfterTurn
  <2>3. GrantOfPlace'
    BY <1>5 DEF TurnStored, AfterTurn
  <2> QED
    BY <2>1, <2>2, <2>3
<1>6. ASSUME NEW r \in Runs, NextRound(r) PROVE I'
  BY <1>6 DEF NextRound
<1>7. ASSUME NEW r \in Runs, AbandonCalls(r) PROVE I'
  BY <1>7 DEF AbandonCalls
<1>8. ASSUME NEW r \in Runs, RejectCall(r) PROVE I'
  BY <1>8 DEF RejectCall, AtCall
<1>9. ASSUME NEW r \in Runs, AskApproval(r) PROVE I'
  BY <1>9 DEF AskApproval, AtCall
<1>10. ASSUME NEW r \in Runs, CreateApproval(r) PROVE I'
  BY <1>10 DEF CreateApproval
<1>11. ASSUME NEW r \in Runs, AwaitApproval(r) PROVE I'
  BY <1>11 DEF AwaitApproval
<1>12. ASSUME NEW r \in Runs, ApprovalDecided(r) PROVE I'
  BY <1>12 DEF ApprovalDecided, Resume
<1>13. ASSUME NEW r \in Runs, Denied(r) PROVE I'
  BY <1>13 DEF Denied
<1>14. ASSUME NEW r \in Runs, BeginTool(r) PROVE I'
  BY <1>14 DEF BeginTool, Permitted, AtCall
<1>15. ASSUME NEW r \in Runs, ExecuteTool(r) PROVE I'
  BY <1>15 DEF ExecuteTool
<1>16. ASSUME NEW r \in Runs, AskInput(r) PROVE I'
  BY <1>16 DEF AskInput, AtCall
<1>17. ASSUME NEW r \in Runs, AwaitInput(r) PROVE I'
  BY <1>17 DEF AwaitInput
<1>18. ASSUME NEW r \in Runs, InputAnswered(r) PROVE I'
  BY <1>18 DEF InputAnswered, Resume
<1>19. ASSUME NEW r \in Runs, InputDone(r) PROVE I'
  BY <1>19 DEF InputDone
<1>20. ASSUME NEW r \in Runs, InputAborted(r) PROVE I'
  BY <1>20 DEF InputAborted
<1>21. ASSUME NEW r \in Runs, ReportResult(r) PROVE I'
  BY <1>21 DEF ReportResult
<1>22. ASSUME NEW r \in Runs, Finish(r) PROVE I'
  BY <1>22 DEF Finish, UnlessAborted
<1>23. ASSUME NEW r \in Runs, KeepInterruptedText(r) PROVE I'
  BY <1>23 DEF KeepInterruptedText
<1>24. ASSUME NEW r \in Runs, DropCheckpoint(r) PROVE I'
  BY <1>24 DEF DropCheckpoint
<1>25. ASSUME NEW r \in Runs, Conclude(r) PROVE I'
  BY <1>25 DEF Conclude, EndStatus
<1>26. ASSUME NEW r \in Runs, ExpireApprovals(r) PROVE I'
  <2>1. AbortOfPlace' /\ CallsOfPlace'
    BY <1>26 DEF ExpireApprovals
  <2>2. \A s \in Runs \ {r} : \A k \in Calls : approval'[s][k] = approval[s][k]
    BY <1>26 DEF ExpireApprovals, ExpirePending
  <2>3. \A s \in Runs : pc'[s] \in {"decided", "verdict", "execute"} => s # r /\
      pc[s] = pc'[s] /\ cur[s] \in Calls
    BY <1>26 DEF ExpireApprovals
  <2>4. GrantOfPlace'
    BY <1>26, <2>2, <2>3 DEF ExpireApprovals
  <2> QED
    BY <2>1, <2>4
<1>27. ASSUME NEW r \in Runs, Settle(r) PROVE I'
  <2>1. AbortOfPlace'
    BY <1>27 DEF Settle, Forget
  <2>2. CallsOfPlace'
    BY <1>27 DEF Settle, Forget
  <2>3. GrantOfPlace'
    BY <1>27 DEF Settle, Forget
  <2> QED
    BY <2>1, <2>2, <2>3
<1>28. ASSUME NEW r \in Runs, RunRecovered(r) PROVE I'
  BY <1>28 DEF RunRecovered, Forget
<1>29. ASSUME NEW r \in Runs, StreamFails(r) PROVE I'
  BY <1>29 DEF StreamFails
<1>30. ASSUME NEW r \in Runs, TurnEnds(r) PROVE I'
  BY <1>30 DEF TurnEnds
<1>31. ASSUME NEW r \in Runs, ToolCancelled(r) PROVE I'
  BY <1>31 DEF ToolCancelled, UnlessAborted
<1>32. ASSUME NEW r \in Runs, TextDelta(r) PROVE I'
  BY <1>32 DEF TextDelta
<1>33. ASSUME NEW r \in Runs, StartRun(r) PROVE I'
  BY <1>33 DEF StartRun, Serving, MayStart, OpenRuns
<1>34. ASSUME NEW r \in Runs, ProvideRunInput(r) PROVE I'
  BY <1>34 DEF ProvideRunInput, Serving
<1>35. ASSUME NEW r \in Runs, CancelRun(r) PROVE I'
  <2>1. AbortOfPlace'
    BY <1>35 DEF CancelRun, AbortRuns, Serving
  <2>2. CallsOfPlace'
    BY <1>35 DEF CancelRun, AbortRuns, Serving
  <2>3. GrantOfPlace'
    BY <1>35 DEF CancelRun, AbortRuns, Serving
  <2> QED
    BY <2>1, <2>2, <2>3
<1>36. ASSUME NEW r \in Runs, RecoverRun(r) PROVE I'
  <2>1. status[r] # Absent /\ executed[r] = executed'[r] /\ pc' = [pc EXCEPT ![r] =
      "recover"]
    BY <1>36 DEF RecoverRun
  <2>2. AbortOfPlace' /\ GrantOfPlace'
    BY <1>36 DEF RecoverRun
  <2>3. CallsOfPlace'
    BY <1>36, <2>1 DEF RecoverRun
  <2> QED
    BY <2>2, <2>3
<1>37. ASSUME NEW r \in Runs, NEW knd \in CallKinds, CreateToolCall(r, knd) PROVE I'
  BY <1>37 DEF CreateToolCall
<1>38. ASSUME NEW r \in Runs, NEW k \in Calls, FinishUncertainCall(r, k) PROVE I'
  BY <1>38 DEF FinishUncertainCall, UncertainOutcome, Unfinished
<1>39. ASSUME NEW r \in Runs, NEW k \in Calls, SyntheticResult(r, k) PROVE I'
  BY <1>39 DEF SyntheticResult
<1>40. ASSUME NEW r \in Runs, NEW found \in BOOLEAN, SecretArrives(r, found) PROVE I'
  BY <1>40 DEF SecretArrives, UnlessAborted
<1>41. ASSUME NEW r \in Runs, NEW outcome \in {"succeeded", "failed"},
    ToolReturns(r, outcome) PROVE I'
  BY <1>41 DEF ToolReturns
<1>42. ASSUME NEW r \in Runs, NEW k \in Calls, NEW decision \in {"approved",
    "denied"}, ResolveApproval(r, k, decision) PROVE I'
  <2>1. AbortOfPlace' /\ CallsOfPlace'
    BY <1>42, SMTT(30) DEF ResolveApproval, Serving
  <2>2. \A s \in Runs : pc[s] \notin {"decided", "verdict", "execute"}
    BY <1>42 DEF ResolveApproval, Serving
  <2>3. \A s \in Runs : pc'[s] # "execute"
    BY <1>42, <2>2 DEF ResolveApproval
  <2>4. \A s \in Runs : pc'[s] \in {"decided", "verdict"} => s = r /\ cur[r] = k /\
      pc[r] = "awaitApproval"
    BY <1>42, <2>2 DEF ResolveApproval
  <2>5. approval'[r][k] = decision
    BY <1>42 DEF ResolveApproval
  <2>6. \A s \in Runs : pc'[s] \in {"approvalRow", "approvalStatus",
      "awaitApproval", "decided", "verdict"} => Kind(s) = "ask"
    BY <1>42, <2>4 DEF ResolveApproval
  <2> QED
    BY <1>42, <2>1, <2>3, <2>4, <2>5, <2>6 DEF ResolveApproval
<1>43. ASSUME Boot PROVE I'
  BY <1>43 DEF Boot, OpenRuns
<1>44. ASSUME Ready PROVE I'
  BY <1>44 DEF Ready, ExpirePending
<1>45. ASSUME Shutdown PROVE I'
  BY <1>45 DEF Shutdown, AbortRuns
<1>46. ASSUME Exit PROVE I'
  BY <1>46 DEF Exit, HostGone, Forget
<1>47. ASSUME Crash PROVE I'
  BY <1>47 DEF Crash, HostGone, Forget
<1>48. CASE UNCHANGED vars
  BY <1>48 DEF vars
<1> HIDE DEF IInv, TypeOK, AbortOfPlace, CallsOfPlace, GrantOfPlace, Unaborted,
    BeforeEntry, InCalls, Kind, Absent, Epilogue, OpenRunStatus, TerminalRunStatus,
    StatusOfPlace, WaiterOfPlace, PlaceOfHost, Aborted, AwaitPoints, SyncPoints, Busy
<1> QED
  BY <1>1, <1>2, <1>3, <1>4, <1>5, <1>6, <1>7, <1>8, <1>9, <1>10, <1>11, <1>12,
      <1>13, <1>14, <1>15, <1>16, <1>17, <1>18, <1>19, <1>20, <1>21, <1>22, <1>23,
      <1>24, <1>25, <1>26, <1>27, <1>28, <1>29, <1>30, <1>31, <1>32, <1>33, <1>34,
      <1>35, <1>36, <1>37, <1>38, <1>39, <1>40, <1>41, <1>42, <1>43, <1>44, <1>45,
      <1>46, <1>47, <1>48 DEF Next, RunStep, Answer, UserRequest, HostStep

\* Every action keeps one open run per conversation, and an authorisation
\* behind every call that was entered.
LEMMA LedgerStep == IInv /\ [Next]_vars => (OneOpenRunPerConversation /\
    ExecutionIsAuthorised)'
<1> SUFFICES ASSUME IInv, [Next]_vars PROVE (OneOpenRunPerConversation /\
    ExecutionIsAuthorised)'
  OBVIOUS
<1> DEFINE I == OneOpenRunPerConversation /\ ExecutionIsAuthorised
<1> USE DEF IInv, TypeOK, OneOpenRunPerConversation, ExecutionIsAuthorised,
    OpenRuns, StatusOfPlace, Epilogue, OpenRunStatus, TerminalRunStatus, CallsOfPlace,
    GrantOfPlace, Kind, BeforeEntry, CanTransitionRun, RunTransitions
<1>1. ASSUME NEW r \in Runs, Prepare(r) PROVE I'
  <2>1. status[r] \in OpenRunStatus
    BY <1>1 DEF Prepare
  <2>2. \A s \in Runs : status'[s] \in OpenRunStatus => status[s] \in OpenRunStatus
    BY <1>1, <2>1 DEF Prepare
  <2>3. OneOpenRunPerConversation'
    BY <1>1, <2>2 DEF Prepare
  <2>4. ExecutionIsAuthorised'
    BY <1>1 DEF Prepare
  <2> QED
    BY <2>3, <2>4
<1>2. ASSUME NEW r \in Runs, Begin(r) PROVE I'
  <2>1. status[r] \in OpenRunStatus
    BY <1>2 DEF Begin
  <2>2. \A s \in Runs : status'[s] \in OpenRunStatus => status[s] \in OpenRunStatus
    BY <1>2, <2>1 DEF Begin
  <2>3. OneOpenRunPerConversation'
    BY <1>2, <2>2 DEF Begin
  <2>4. ExecutionIsAuthorised'
    BY <1>2 DEF Begin
  <2> QED
    BY <2>3, <2>4
<1>3. ASSUME NEW r \in Runs, RequestTurn(r) PROVE I'
  BY <1>3 DEF RequestTurn, UnlessAborted
<1>4. ASSUME NEW r \in Runs, AppendAssistantTurn(r) PROVE I'
  BY <1>4 DEF AppendAssistantTurn
<1>5. ASSUME NEW r \in Runs, TurnStored(r) PROVE I'
  BY <1>5 DEF TurnStored, AfterTurn
<1>6. ASSUME NEW r \in Runs, NextRound(r) PROVE I'
  BY <1>6 DEF NextRound
<1>7. ASSUME NEW r \in Runs, AbandonCalls(r) PROVE I'
  BY <1>7 DEF AbandonCalls
<1>8. ASSUME NEW r \in Runs, RejectCall(r) PROVE I'
  BY <1>8 DEF RejectCall, AtCall
<1>9. ASSUME NEW r \in Runs, AskApproval(r) PROVE I'
  BY <1>9 DEF AskApproval, AtCall
<1>10. ASSUME NEW r \in Runs, CreateApproval(r) PROVE I'
  BY <1>10 DEF CreateApproval
<1>11. ASSUME NEW r \in Runs, AwaitApproval(r) PROVE I'
  <2>1. status[r] \in OpenRunStatus
    BY <1>11 DEF AwaitApproval
  <2>2. \A s \in Runs : status'[s] \in OpenRunStatus => status[s] \in OpenRunStatus
    BY <1>11, <2>1 DEF AwaitApproval
  <2>3. OneOpenRunPerConversation'
    BY <1>11, <2>2 DEF AwaitApproval
  <2>4. ExecutionIsAuthorised'
    BY <1>11 DEF AwaitApproval
  <2> QED
    BY <2>3, <2>4
<1>12. ASSUME NEW r \in Runs, ApprovalDecided(r) PROVE I'
  BY <1>12, SMTT(30) DEF ApprovalDecided, Resume
<1>13. ASSUME NEW r \in Runs, Denied(r) PROVE I'
  BY <1>13 DEF Denied
<1>14. ASSUME NEW r \in Runs, BeginTool(r) PROVE I'
  BY <1>14 DEF BeginTool, Permitted, AtCall
<1>15. ASSUME NEW r \in Runs, ExecuteTool(r) PROVE I'
  BY <1>15 DEF ExecuteTool
<1>16. ASSUME NEW r \in Runs, AskInput(r) PROVE I'
  BY <1>16 DEF AskInput, AtCall
<1>17. ASSUME NEW r \in Runs, AwaitInput(r) PROVE I'
  <2>1. status[r] \in OpenRunStatus
    BY <1>17 DEF AwaitInput
  <2>2. \A s \in Runs : status'[s] \in OpenRunStatus => status[s] \in OpenRunStatus
    BY <1>17, <2>1 DEF AwaitInput
  <2>3. OneOpenRunPerConversation'
    BY <1>17, <2>2 DEF AwaitInput
  <2>4. ExecutionIsAuthorised'
    BY <1>17 DEF AwaitInput
  <2> QED
    BY <2>3, <2>4
<1>18. ASSUME NEW r \in Runs, InputAnswered(r) PROVE I'
  BY <1>18 DEF InputAnswered, Resume
<1>19. ASSUME NEW r \in Runs, InputDone(r) PROVE I'
  BY <1>19 DEF InputDone
<1>20. ASSUME NEW r \in Runs, InputAborted(r) PROVE I'
  BY <1>20 DEF InputAborted
<1>21. ASSUME NEW r \in Runs, ReportResult(r) PROVE I'
  BY <1>21 DEF ReportResult
<1>22. ASSUME NEW r \in Runs, Finish(r) PROVE I'
  BY <1>22 DEF Finish, UnlessAborted, Aborted
<1>23. ASSUME NEW r \in Runs, KeepInterruptedText(r) PROVE I'
  BY <1>23 DEF KeepInterruptedText
<1>24. ASSUME NEW r \in Runs, DropCheckpoint(r) PROVE I'
  BY <1>24 DEF DropCheckpoint
<1>25. ASSUME NEW r \in Runs, Conclude(r) PROVE I'
  BY <1>25 DEF Conclude, EndStatus
<1>26. ASSUME NEW r \in Runs, ExpireApprovals(r) PROVE I'
  BY <1>26 DEF ExpireApprovals, ExpirePending
<1>27. ASSUME NEW r \in Runs, Settle(r) PROVE I'
  BY <1>27 DEF Settle, Forget
<1>28. ASSUME NEW r \in Runs, RunRecovered(r) PROVE I'
  BY <1>28 DEF RunRecovered, Forget
<1>29. ASSUME NEW r \in Runs, StreamFails(r) PROVE I'
  BY <1>29 DEF StreamFails
<1>30. ASSUME NEW r \in Runs, TurnEnds(r) PROVE I'
  BY <1>30 DEF TurnEnds
<1>31. ASSUME NEW r \in Runs, ToolCancelled(r) PROVE I'
  BY <1>31 DEF ToolCancelled, UnlessAborted
<1>32. ASSUME NEW r \in Runs, TextDelta(r) PROVE I'
  BY <1>32 DEF TextDelta
<1>33. ASSUME NEW r \in Runs, StartRun(r) PROVE I'
  BY <1>33 DEF StartRun, Serving, MayStart
<1>34. ASSUME NEW r \in Runs, ProvideRunInput(r) PROVE I'
  BY <1>34 DEF ProvideRunInput, Serving
<1>35. ASSUME NEW r \in Runs, CancelRun(r) PROVE I'
  BY <1>35 DEF CancelRun, AbortRuns, Serving
<1>36. ASSUME NEW r \in Runs, RecoverRun(r) PROVE I'
  BY <1>36 DEF RecoverRun
<1>37. ASSUME NEW r \in Runs, NEW knd \in CallKinds, CreateToolCall(r, knd) PROVE I'
  BY <1>37 DEF CreateToolCall
<1>38. ASSUME NEW r \in Runs, NEW k \in Calls, FinishUncertainCall(r, k) PROVE I'
  BY <1>38 DEF FinishUncertainCall, UncertainOutcome, Unfinished
<1>39. ASSUME NEW r \in Runs, NEW k \in Calls, SyntheticResult(r, k) PROVE I'
  BY <1>39 DEF SyntheticResult
<1>40. ASSUME NEW r \in Runs, NEW found \in BOOLEAN, SecretArrives(r, found) PROVE I'
  BY <1>40 DEF SecretArrives, UnlessAborted
<1>41. ASSUME NEW r \in Runs, NEW outcome \in {"succeeded", "failed"},
    ToolReturns(r, outcome) PROVE I'
  BY <1>41 DEF ToolReturns
<1>42. ASSUME NEW r \in Runs, NEW k \in Calls, NEW decision \in {"approved",
    "denied"}, ResolveApproval(r, k, decision) PROVE I'
  BY <1>42 DEF ResolveApproval, Serving
<1>43. ASSUME Boot PROVE I'
  BY <1>43 DEF Boot
<1>44. ASSUME Ready PROVE I'
  BY <1>44 DEF Ready, ExpirePending
<1>45. ASSUME Shutdown PROVE I'
  BY <1>45 DEF Shutdown, AbortRuns
<1>46. ASSUME Exit PROVE I'
  BY <1>46 DEF Exit, HostGone, Forget
<1>47. ASSUME Crash PROVE I'
  BY <1>47 DEF Crash, HostGone, Forget
<1>48. CASE UNCHANGED vars
  BY <1>48 DEF vars
<1> HIDE DEF IInv, TypeOK, OneOpenRunPerConversation, ExecutionIsAuthorised,
    OpenRuns, StatusOfPlace, Epilogue, OpenRunStatus, TerminalRunStatus, CallsOfPlace,
    GrantOfPlace, Kind, BeforeEntry, CanTransitionRun, RunTransitions
<1> QED
  BY <1>1, <1>2, <1>3, <1>4, <1>5, <1>6, <1>7, <1>8, <1>9, <1>10, <1>11, <1>12,
      <1>13, <1>14, <1>15, <1>16, <1>17, <1>18, <1>19, <1>20, <1>21, <1>22, <1>23,
      <1>24, <1>25, <1>26, <1>27, <1>28, <1>29, <1>30, <1>31, <1>32, <1>33, <1>34,
      <1>35, <1>36, <1>37, <1>38, <1>39, <1>40, <1>41, <1>42, <1>43, <1>44, <1>45,
      <1>46, <1>47, <1>48 DEF Next, RunStep, Answer, UserRequest, HostStep

------------------------------------------------------------------------------
\* A fresh installation, with no process and no rows, satisfies the invariant.
LEMMA InitInv == Init => IInv
<1> SUFFICES ASSUME Init PROVE IInv
  OBVIOUS
<1> USE RunCoreAssumption DEF Init, Absent, OpenRunStatus, TerminalRunStatus
<1>1. TypeOK
  BY DEF TypeOK, AwaitPoints, SyncPoints
<1>2. PlaceOfHost /\ StatusOfPlace /\ WaiterOfPlace
  BY DEF PlaceOfHost, StatusOfPlace, WaiterOfPlace, Epilogue
<1>3. AbortOfPlace /\ CallsOfPlace /\ GrantOfPlace
  BY DEF AbortOfPlace, CallsOfPlace, GrantOfPlace, Unaborted, BeforeEntry, InCalls
<1>4. OneOpenRunPerConversation /\ ExecutionIsAuthorised
  BY DEF OneOpenRunPerConversation, ExecutionIsAuthorised, OpenRuns
<1> QED
  BY <1>1, <1>2, <1>3, <1>4 DEF IInv

\* Every step of the specification keeps the invariant.
LEMMA StepInv == IInv /\ [Next]_vars => IInv'
<1> SUFFICES ASSUME IInv, [Next]_vars PROVE IInv'
  OBVIOUS
<1>1. TypeOK'
  BY TypeStep
<1>2. (PlaceOfHost /\ StatusOfPlace /\ WaiterOfPlace)'
  BY PlaceStep
<1>3. (AbortOfPlace /\ CallsOfPlace /\ GrantOfPlace)'
  BY CallsStep
<1>4. (OneOpenRunPerConversation /\ ExecutionIsAuthorised)'
  BY LedgerStep
<1> QED
  BY <1>1, <1>2, <1>3, <1>4 DEF IInv

\* The invariant holds in every state the program can reach.
THEOREM Invariance == Spec => []IInv
  BY InitInv, StepInv, PTL DEF Spec

\* The variables of the host and of the store keep their types.
THEOREM TypeCorrect == Spec => []TypeOK
<1>1. IInv => TypeOK
  BY DEF IInv
<1> QED
  BY <1>1, Invariance, PTL

\* startRun never opens a second run in a conversation, however its
\* statements interleave with cancellations, crashes and restarts.
THEOREM OneOpenRun == Spec => []OneOpenRunPerConversation
<1>1. IInv => OneOpenRunPerConversation
  BY DEF IInv
<1> QED
  BY <1>1, Invariance, PTL

\* No tool is ever entered without a policy that allows it or an approval of
\* this very call by the user.
THEOREM Authorised == Spec => []ExecutionIsAuthorised
<1>1. IInv => ExecutionIsAuthorised
  BY DEF IInv
<1> QED
  BY <1>1, Invariance, PTL

\* A tool is entered at most once for a call: the calls of a run are worked
\* off in order, and none at or after the current one has been entered.
THEOREM ToolEnteredOnce == Spec => []EnteredOnce
<1>1. IInv => EnteredOnce
  <2> SUFFICES ASSUME IInv, NEW r \in Runs, pc[r] = "execute"
               PROVE cur[r] \notin executed[r]
    BY DEF EnteredOnce
  <2>1. \A k \in executed[r] : k < cur[r]
    BY DEF IInv, CallsOfPlace, BeforeEntry
  <2>2. cur[r] \in Nat
    BY DEF IInv, TypeOK
  <2> QED
    BY <2>1, <2>2
<1> QED
  BY <1>1, Invariance, PTL

\* After the user cancelled a run, or a shutdown began, no tool of the run is
\* entered: between the last look at the signal and tool.execute no handler
\* can come in.
THEOREM AbortIsRespected == Spec => NoToolAfterAbort
<1>1. ASSUME IInv, [Next]_vars
      PROVE [\A r \in Runs : Aborted(r) => executed'[r] = executed[r]]_executed
  <2> SUFFICES ASSUME executed' # executed, NEW s \in Runs, abort[s] # "no"
               PROVE executed'[s] = executed[s]
    BY DEF Aborted
  <2> HIDE DEF Goto, SetStatus, SetCall, Calls
  <2>1. ASSUME NEW r \in Runs, RunStep(r), ~ExecuteTool(r) PROVE executed' = executed
    BY <2>1 DEF RunStep, Prepare, Begin, RequestTurn, CreateToolCall,
        AppendAssistantTurn, TurnStored, NextRound, AbandonCalls, RejectCall,
        AskApproval, CreateApproval, AwaitApproval, ApprovalDecided, Denied,
        BeginTool, AskInput, AwaitInput, InputAnswered, InputDone, InputAborted,
        ReportResult, Finish, KeepInterruptedText, DropCheckpoint, Conclude,
        ExpireApprovals, Settle, RunRecovered, FinishUncertainCall, SyntheticResult
  <2>2. ASSUME NEW r \in Runs, Answer(r) \/ TextDelta(r) \/ UserRequest(r) \/
      RecoverRun(r)
        PROVE executed' = executed
    BY <2>2 DEF Answer, UserRequest, SecretArrives, StreamFails, TurnEnds,
        ToolReturns, ToolCancelled, TextDelta, StartRun, ProvideRunInput, CancelRun,
        ResolveApproval, RecoverRun
  <2>3. ASSUME HostStep PROVE executed' = executed
    BY <2>3 DEF HostStep, Boot, Ready, Shutdown, Exit, Crash, HostGone
  <2>4. PICK r \in Runs : ExecuteTool(r)
    BY <1>1, <2>1, <2>2, <2>3 DEF Next, vars
  <2>5. pc[r] = "execute" /\ executed' = [executed EXCEPT ![r] = @ \cup {cur[r]}]
    BY <2>4 DEF ExecuteTool
  <2>6. abort[r] = "no"
    BY <1>1, <2>5 DEF IInv, AbortOfPlace, Unaborted
  <2> QED
    BY <1>1, <2>5, <2>6 DEF IInv, TypeOK
<1> QED
  BY <1>1, Invariance, PTL DEF Spec, NoToolAfterAbort

------------------------------------------------------------------------------
\* RunCore implements RunLedger.

\* An abort comes in at waits only, so that a run starts and begins without.
LEMMA StartKept == IInv /\ LedgerInv /\ [Next]_vars => StartOfPlace'
<1> SUFFICES ASSUME IInv, LedgerInv, [Next]_vars PROVE StartOfPlace'
  OBVIOUS
<1> USE DEF IInv, TypeOK, LedgerInv, StartOfPlace, AbortOfPlace, WaiterOfPlace,
    Unaborted, SyncPoints, AwaitPoints
<1>1. ASSUME NEW r \in Runs, Prepare(r) PROVE StartOfPlace'
  BY <1>1 DEF Prepare
<1>2. ASSUME NEW r \in Runs, Begin(r) PROVE StartOfPlace'
  BY <1>2 DEF Begin
<1>3. ASSUME NEW r \in Runs, RequestTurn(r) PROVE StartOfPlace'
  BY <1>3 DEF RequestTurn, UnlessAborted
<1>4. ASSUME NEW r \in Runs, NEW knd \in CallKinds, CreateToolCall(r, knd) PROVE
    StartOfPlace'
  BY <1>4 DEF CreateToolCall
<1>5. ASSUME NEW r \in Runs, AppendAssistantTurn(r) PROVE StartOfPlace'
  BY <1>5 DEF AppendAssistantTurn
<1>6. ASSUME NEW r \in Runs, TurnStored(r) PROVE StartOfPlace'
  BY <1>6 DEF TurnStored, AfterTurn
<1>7. ASSUME NEW r \in Runs, NextRound(r) PROVE StartOfPlace'
  BY <1>7 DEF NextRound
<1>8. ASSUME NEW r \in Runs, AbandonCalls(r) PROVE StartOfPlace'
  BY <1>8 DEF AbandonCalls
<1>9. ASSUME NEW r \in Runs, RejectCall(r) PROVE StartOfPlace'
  BY <1>9 DEF RejectCall, AtCall, Kind
<1>10. ASSUME NEW r \in Runs, AskApproval(r) PROVE StartOfPlace'
  BY <1>10 DEF AskApproval, AtCall, Kind
<1>11. ASSUME NEW r \in Runs, CreateApproval(r) PROVE StartOfPlace'
  BY <1>11 DEF CreateApproval
<1>12. ASSUME NEW r \in Runs, AwaitApproval(r) PROVE StartOfPlace'
  BY <1>12 DEF AwaitApproval
<1>13. ASSUME NEW r \in Runs, ApprovalDecided(r) PROVE StartOfPlace'
  BY <1>13 DEF ApprovalDecided, Resume
<1>14. ASSUME NEW r \in Runs, Denied(r) PROVE StartOfPlace'
  BY <1>14 DEF Denied
<1>15. ASSUME NEW r \in Runs, BeginTool(r) PROVE StartOfPlace'
  BY <1>15 DEF BeginTool, Permitted, AtCall, Kind
<1>16. ASSUME NEW r \in Runs, ExecuteTool(r) PROVE StartOfPlace'
  BY <1>16 DEF ExecuteTool
<1>17. ASSUME NEW r \in Runs, AskInput(r) PROVE StartOfPlace'
  BY <1>17 DEF AskInput, AtCall, Kind
<1>18. ASSUME NEW r \in Runs, AwaitInput(r) PROVE StartOfPlace'
  BY <1>18 DEF AwaitInput
<1>19. ASSUME NEW r \in Runs, InputAnswered(r) PROVE StartOfPlace'
  BY <1>19 DEF InputAnswered, Resume
<1>20. ASSUME NEW r \in Runs, InputDone(r) PROVE StartOfPlace'
  BY <1>20 DEF InputDone
<1>21. ASSUME NEW r \in Runs, InputAborted(r) PROVE StartOfPlace'
  BY <1>21 DEF InputAborted
<1>22. ASSUME NEW r \in Runs, ReportResult(r) PROVE StartOfPlace'
  BY <1>22 DEF ReportResult
<1>23. ASSUME NEW r \in Runs, Finish(r) PROVE StartOfPlace'
  BY <1>23 DEF Finish, UnlessAborted, Aborted
<1>24. ASSUME NEW r \in Runs, KeepInterruptedText(r) PROVE StartOfPlace'
  BY <1>24 DEF KeepInterruptedText
<1>25. ASSUME NEW r \in Runs, DropCheckpoint(r) PROVE StartOfPlace'
  BY <1>25 DEF DropCheckpoint
<1>26. ASSUME NEW r \in Runs, Conclude(r) PROVE StartOfPlace'
  BY <1>26 DEF Conclude, EndStatus
<1>27. ASSUME NEW r \in Runs, ExpireApprovals(r) PROVE StartOfPlace'
  BY <1>27 DEF ExpireApprovals, ExpirePending
<1>28. ASSUME NEW r \in Runs, Settle(r) PROVE StartOfPlace'
  BY <1>28 DEF Settle, Forget
<1>29. ASSUME NEW r \in Runs, RunRecovered(r) PROVE StartOfPlace'
  BY <1>29 DEF RunRecovered, Forget
<1>30. ASSUME NEW r \in Runs, NEW k \in Calls, FinishUncertainCall(r, k) PROVE
    StartOfPlace'
  BY <1>30 DEF FinishUncertainCall
<1>31. ASSUME NEW r \in Runs, NEW k \in Calls, SyntheticResult(r, k) PROVE StartOfPlace'
  BY <1>31 DEF SyntheticResult
<1>32. ASSUME NEW r \in Runs, NEW found \in BOOLEAN, SecretArrives(r, found) PROVE
    StartOfPlace'
  BY <1>32 DEF SecretArrives, UnlessAborted, Aborted
<1>33. ASSUME NEW r \in Runs, StreamFails(r) PROVE StartOfPlace'
  BY <1>33 DEF StreamFails
<1>34. ASSUME NEW r \in Runs, TurnEnds(r) PROVE StartOfPlace'
  BY <1>34 DEF TurnEnds
<1>35. ASSUME NEW r \in Runs, NEW outcome \in {"succeeded", "failed"}, ToolReturns(r,
    outcome) PROVE StartOfPlace'
  BY <1>35 DEF ToolReturns
<1>36. ASSUME NEW r \in Runs, ToolCancelled(r) PROVE StartOfPlace'
  BY <1>36 DEF ToolCancelled, UnlessAborted
<1>37. ASSUME NEW r \in Runs, TextDelta(r) PROVE StartOfPlace'
  BY <1>37 DEF TextDelta
<1>38. ASSUME NEW r \in Runs, StartRun(r) PROVE StartOfPlace'
  BY <1>38 DEF StartRun, Serving, CallsOfPlace, Absent
<1>39. ASSUME NEW r \in Runs, ProvideRunInput(r) PROVE StartOfPlace'
  BY <1>39 DEF ProvideRunInput
<1>40. ASSUME NEW r \in Runs, CancelRun(r) PROVE StartOfPlace'
  BY <1>40 DEF CancelRun, AbortRuns, Serving, Busy
<1>41. ASSUME NEW r \in Runs, NEW k \in Calls, NEW decision \in {"approved",
    "denied"}, ResolveApproval(r, k, decision) PROVE StartOfPlace'
  BY <1>41 DEF ResolveApproval
<1>42. ASSUME NEW r \in Runs, RecoverRun(r) PROVE StartOfPlace'
  BY <1>42 DEF RecoverRun
<1>43. ASSUME Boot PROVE StartOfPlace'
  BY <1>43 DEF Boot, OpenRuns
<1>44. ASSUME Ready PROVE StartOfPlace'
  BY <1>44 DEF Ready, ExpirePending
<1>45. ASSUME Shutdown PROVE StartOfPlace'
  BY <1>45 DEF Shutdown, AbortRuns, Busy
<1>46. ASSUME Exit PROVE StartOfPlace'
  BY <1>46 DEF Exit, HostGone, Forget
<1>47. ASSUME Crash PROVE StartOfPlace'
  BY <1>47 DEF Crash, HostGone, Forget
<1>48. CASE UNCHANGED vars
  BY <1>48 DEF vars
<1>49. QED
  BY <1>1, <1>2, <1>3, <1>4, <1>5, <1>6, <1>7, <1>8, <1>9, <1>10, <1>11, <1>12, <1>13,
      <1>14, <1>15, <1>16, <1>17, <1>18, <1>19, <1>20, <1>21, <1>22, <1>23, <1>24, <1>25,
      <1>26, <1>27, <1>28, <1>29, <1>30, <1>31, <1>32, <1>33, <1>34, <1>35, <1>36, <1>37,
      <1>38, <1>39, <1>40, <1>41, <1>42, <1>43, <1>44, <1>45, <1>46, <1>47, <1>48 DEF
      Next, RunStep, Answer, UserRequest, HostStep
\* Rows of calls are written when the call is proposed, and those of approvals
\* when it is reached.
LEMMA GrantsAheadKept == IInv /\ LedgerInv /\ [Next]_vars => GrantsAhead'
<1> SUFFICES ASSUME IInv, LedgerInv, [Next]_vars PROVE GrantsAhead'
  OBVIOUS
<1> USE RunCoreAssumption DEF IInv, TypeOK, LedgerInv, GrantsAhead, PendingOfPlace,
    CallsOfPlace, StatusOfPlace, PlaceOfHost, WaiterOfPlace, BeforeApproval, Asking
<1>1. ASSUME NEW r \in Runs, Prepare(r) PROVE GrantsAhead'
  BY <1>1 DEF Prepare, Absent
<1>2. ASSUME NEW r \in Runs, Begin(r) PROVE GrantsAhead'
  BY <1>2 DEF Begin, Absent
<1>3. ASSUME NEW r \in Runs, RequestTurn(r) PROVE GrantsAhead'
  BY <1>3 DEF RequestTurn, UnlessAborted
<1>4. ASSUME NEW r \in Runs, NEW knd \in CallKinds, CreateToolCall(r, knd) PROVE
    GrantsAhead'
  BY <1>4 DEF CreateToolCall
<1>5. ASSUME NEW r \in Runs, AppendAssistantTurn(r) PROVE GrantsAhead'
  BY <1>5 DEF AppendAssistantTurn
<1>6. ASSUME NEW r \in Runs, TurnStored(r) PROVE GrantsAhead'
  BY <1>6 DEF TurnStored, AfterTurn
<1>7. ASSUME NEW r \in Runs, NextRound(r) PROVE GrantsAhead'
  BY <1>7 DEF NextRound
<1>8. ASSUME NEW r \in Runs, AbandonCalls(r) PROVE GrantsAhead'
  BY <1>8 DEF AbandonCalls
<1>9. ASSUME NEW r \in Runs, RejectCall(r) PROVE GrantsAhead'
  BY <1>9 DEF RejectCall, AtCall, Kind
<1>10. ASSUME NEW r \in Runs, AskApproval(r) PROVE GrantsAhead'
  BY <1>10 DEF AskApproval, AtCall, Kind
<1>11. ASSUME NEW r \in Runs, CreateApproval(r) PROVE GrantsAhead'
  BY <1>11 DEF CreateApproval
<1>12. ASSUME NEW r \in Runs, AwaitApproval(r) PROVE GrantsAhead'
  BY <1>12 DEF AwaitApproval, Absent
<1>13. ASSUME NEW r \in Runs, ApprovalDecided(r) PROVE GrantsAhead'
  BY <1>13 DEF ApprovalDecided, Resume, Absent
<1>14. ASSUME NEW r \in Runs, Denied(r) PROVE GrantsAhead'
  BY <1>14 DEF Denied
<1>15. ASSUME NEW r \in Runs, BeginTool(r) PROVE GrantsAhead'
  BY <1>15 DEF BeginTool, Permitted, AtCall, Kind
<1>16. ASSUME NEW r \in Runs, ExecuteTool(r) PROVE GrantsAhead'
  BY <1>16 DEF ExecuteTool
<1>17. ASSUME NEW r \in Runs, AskInput(r) PROVE GrantsAhead'
  BY <1>17 DEF AskInput, AtCall, Kind
<1>18. ASSUME NEW r \in Runs, AwaitInput(r) PROVE GrantsAhead'
  BY <1>18 DEF AwaitInput, Absent
<1>19. ASSUME NEW r \in Runs, InputAnswered(r) PROVE GrantsAhead'
  BY <1>19 DEF InputAnswered, Resume, Absent
<1>20. ASSUME NEW r \in Runs, InputDone(r) PROVE GrantsAhead'
  BY <1>20 DEF InputDone
<1>21. ASSUME NEW r \in Runs, InputAborted(r) PROVE GrantsAhead'
  BY <1>21 DEF InputAborted
<1>22. ASSUME NEW r \in Runs, ReportResult(r) PROVE GrantsAhead'
  BY <1>22 DEF ReportResult
<1>23. ASSUME NEW r \in Runs, Finish(r) PROVE GrantsAhead'
  BY <1>23 DEF Finish, UnlessAborted, Aborted, Absent
<1>24. ASSUME NEW r \in Runs, KeepInterruptedText(r) PROVE GrantsAhead'
  BY <1>24 DEF KeepInterruptedText
<1>25. ASSUME NEW r \in Runs, DropCheckpoint(r) PROVE GrantsAhead'
  BY <1>25 DEF DropCheckpoint
<1>26. ASSUME NEW r \in Runs, Conclude(r) PROVE GrantsAhead'
  BY <1>26 DEF Conclude, EndStatus, Absent
<1>27. ASSUME NEW r \in Runs, ExpireApprovals(r) PROVE GrantsAhead'
  BY <1>27 DEF ExpireApprovals, ExpirePending
<1>28. ASSUME NEW r \in Runs, Settle(r) PROVE GrantsAhead'
  BY <1>28 DEF Settle, Forget
<1>29. ASSUME NEW r \in Runs, RunRecovered(r) PROVE GrantsAhead'
  BY <1>29 DEF RunRecovered, Forget
<1>30. ASSUME NEW r \in Runs, NEW k \in Calls, FinishUncertainCall(r, k) PROVE
    GrantsAhead'
  BY <1>30 DEF FinishUncertainCall
<1>31. ASSUME NEW r \in Runs, NEW k \in Calls, SyntheticResult(r, k) PROVE GrantsAhead'
  BY <1>31 DEF SyntheticResult
<1>32. ASSUME NEW r \in Runs, NEW found \in BOOLEAN, SecretArrives(r, found) PROVE
    GrantsAhead'
  BY <1>32 DEF SecretArrives, UnlessAborted
<1>33. ASSUME NEW r \in Runs, StreamFails(r) PROVE GrantsAhead'
  BY <1>33 DEF StreamFails
<1>34. ASSUME NEW r \in Runs, TurnEnds(r) PROVE GrantsAhead'
  BY <1>34 DEF TurnEnds
<1>35. ASSUME NEW r \in Runs, NEW outcome \in {"succeeded", "failed"}, ToolReturns(r,
    outcome) PROVE GrantsAhead'
  BY <1>35 DEF ToolReturns
<1>36. ASSUME NEW r \in Runs, ToolCancelled(r) PROVE GrantsAhead'
  BY <1>36 DEF ToolCancelled, UnlessAborted
<1>37. ASSUME NEW r \in Runs, TextDelta(r) PROVE GrantsAhead'
  BY <1>37 DEF TextDelta
<1>38. ASSUME NEW r \in Runs, StartRun(r) PROVE GrantsAhead'
  BY <1>38 DEF StartRun, Absent, Serving, Epilogue
<1>39. ASSUME NEW r \in Runs, ProvideRunInput(r) PROVE GrantsAhead'
  BY <1>39 DEF ProvideRunInput
<1>40. ASSUME NEW r \in Runs, CancelRun(r) PROVE GrantsAhead'
  BY <1>40 DEF CancelRun, AbortRuns, Absent
<1>41. ASSUME NEW r \in Runs, NEW k \in Calls, NEW decision \in {"approved",
    "denied"}, ResolveApproval(r, k, decision) PROVE GrantsAhead'
  BY <1>41 DEF ResolveApproval, Serving, Busy, SyncPoints, Absent
<1>42. ASSUME NEW r \in Runs, RecoverRun(r) PROVE GrantsAhead'
  BY <1>42 DEF RecoverRun
<1>43. ASSUME Boot PROVE GrantsAhead'
  BY <1>43 DEF Boot, OpenRuns, Absent
<1>44. ASSUME Ready PROVE GrantsAhead'
  BY <1>44 DEF Ready, ExpirePending, Absent
<1>45. ASSUME Shutdown PROVE GrantsAhead'
  BY <1>45 DEF Shutdown, AbortRuns
<1>46. ASSUME Exit PROVE GrantsAhead'
  BY <1>46 DEF Exit, HostGone, Forget
<1>47. ASSUME Crash PROVE GrantsAhead'
  BY <1>47 DEF Crash, HostGone, Forget
<1>48. CASE UNCHANGED vars
  BY <1>48 DEF vars
<1> HIDE DEF IInv, TypeOK, LedgerInv, GrantsAhead, PendingOfPlace, CallsOfPlace,
    StatusOfPlace, PlaceOfHost, WaiterOfPlace, BeforeApproval, Asking
<1>49. QED
  BY <1>1, <1>2, <1>3, <1>4, <1>5, <1>6, <1>7, <1>8, <1>9, <1>10, <1>11, <1>12, <1>13,
      <1>14, <1>15, <1>16, <1>17, <1>18, <1>19, <1>20, <1>21, <1>22, <1>23, <1>24, <1>25,
      <1>26, <1>27, <1>28, <1>29, <1>30, <1>31, <1>32, <1>33, <1>34, <1>35, <1>36, <1>37,
      <1>38, <1>39, <1>40, <1>41, <1>42, <1>43, <1>44, <1>45, <1>46, <1>47, <1>48 DEF
      Next, RunStep, Answer, UserRequest, HostStep
\* A pending approval is that of the call the run waits with, until it is
\* decided or expires.
LEMMA PendingKept == IInv /\ LedgerInv /\ [Next]_vars => PendingOfPlace'
<1> SUFFICES ASSUME IInv, LedgerInv, [Next]_vars PROVE PendingOfPlace'
  OBVIOUS
<1> USE RunCoreAssumption DEF IInv, TypeOK, LedgerInv, GrantsAhead, PendingOfPlace,
    CallsOfPlace, StatusOfPlace, PlaceOfHost, WaiterOfPlace, BeforeApproval, Asking
<1>1. ASSUME NEW r \in Runs, Prepare(r) PROVE PendingOfPlace'
  BY <1>1 DEF Prepare
<1>2. ASSUME NEW r \in Runs, Begin(r) PROVE PendingOfPlace'
  BY <1>2 DEF Begin
<1>3. ASSUME NEW r \in Runs, RequestTurn(r) PROVE PendingOfPlace'
  BY <1>3 DEF RequestTurn, UnlessAborted
<1>4. ASSUME NEW r \in Runs, NEW knd \in CallKinds, CreateToolCall(r, knd) PROVE
    PendingOfPlace'
  BY <1>4 DEF CreateToolCall
<1>5. ASSUME NEW r \in Runs, AppendAssistantTurn(r) PROVE PendingOfPlace'
  BY <1>5 DEF AppendAssistantTurn
<1>6. ASSUME NEW r \in Runs, TurnStored(r) PROVE PendingOfPlace'
  BY <1>6 DEF TurnStored, AfterTurn
<1>7. ASSUME NEW r \in Runs, NextRound(r) PROVE PendingOfPlace'
  BY <1>7 DEF NextRound
<1>8. ASSUME NEW r \in Runs, AbandonCalls(r) PROVE PendingOfPlace'
  BY <1>8 DEF AbandonCalls
<1>9. ASSUME NEW r \in Runs, RejectCall(r) PROVE PendingOfPlace'
  BY <1>9 DEF RejectCall, AtCall, Kind
<1>10. ASSUME NEW r \in Runs, AskApproval(r) PROVE PendingOfPlace'
  BY <1>10 DEF AskApproval, AtCall, Kind
<1>11. ASSUME NEW r \in Runs, CreateApproval(r) PROVE PendingOfPlace'
  BY <1>11 DEF CreateApproval
<1>12. ASSUME NEW r \in Runs, AwaitApproval(r) PROVE PendingOfPlace'
  BY <1>12 DEF AwaitApproval
<1>13. ASSUME NEW r \in Runs, ApprovalDecided(r) PROVE PendingOfPlace'
  BY <1>13 DEF ApprovalDecided, Resume
<1>14. ASSUME NEW r \in Runs, Denied(r) PROVE PendingOfPlace'
  BY <1>14 DEF Denied
<1>15. ASSUME NEW r \in Runs, BeginTool(r) PROVE PendingOfPlace'
  BY <1>15 DEF BeginTool, Permitted, AtCall, Kind
<1>16. ASSUME NEW r \in Runs, ExecuteTool(r) PROVE PendingOfPlace'
  BY <1>16 DEF ExecuteTool
<1>17. ASSUME NEW r \in Runs, AskInput(r) PROVE PendingOfPlace'
  BY <1>17 DEF AskInput, AtCall, Kind
<1>18. ASSUME NEW r \in Runs, AwaitInput(r) PROVE PendingOfPlace'
  BY <1>18 DEF AwaitInput
<1>19. ASSUME NEW r \in Runs, InputAnswered(r) PROVE PendingOfPlace'
  BY <1>19 DEF InputAnswered, Resume
<1>20. ASSUME NEW r \in Runs, InputDone(r) PROVE PendingOfPlace'
  BY <1>20 DEF InputDone
<1>21. ASSUME NEW r \in Runs, InputAborted(r) PROVE PendingOfPlace'
  BY <1>21 DEF InputAborted
<1>22. ASSUME NEW r \in Runs, ReportResult(r) PROVE PendingOfPlace'
  BY <1>22 DEF ReportResult
<1>23. ASSUME NEW r \in Runs, Finish(r) PROVE PendingOfPlace'
  BY <1>23 DEF Finish, UnlessAborted, Aborted
<1>24. ASSUME NEW r \in Runs, KeepInterruptedText(r) PROVE PendingOfPlace'
  BY <1>24 DEF KeepInterruptedText
<1>25. ASSUME NEW r \in Runs, DropCheckpoint(r) PROVE PendingOfPlace'
  BY <1>25 DEF DropCheckpoint
<1>26. ASSUME NEW r \in Runs, Conclude(r) PROVE PendingOfPlace'
  BY <1>26 DEF Conclude, EndStatus
<1>27. ASSUME NEW r \in Runs, ExpireApprovals(r) PROVE PendingOfPlace'
  BY <1>27 DEF ExpireApprovals, ExpirePending
<1>28. ASSUME NEW r \in Runs, Settle(r) PROVE PendingOfPlace'
  BY <1>28 DEF Settle, Forget
<1>29. ASSUME NEW r \in Runs, RunRecovered(r) PROVE PendingOfPlace'
  BY <1>29 DEF RunRecovered, Forget
<1>30. ASSUME NEW r \in Runs, NEW k \in Calls, FinishUncertainCall(r, k) PROVE
    PendingOfPlace'
  BY <1>30 DEF FinishUncertainCall
<1>31. ASSUME NEW r \in Runs, NEW k \in Calls, SyntheticResult(r, k) PROVE
    PendingOfPlace'
  BY <1>31 DEF SyntheticResult
<1>32. ASSUME NEW r \in Runs, NEW found \in BOOLEAN, SecretArrives(r, found) PROVE
    PendingOfPlace'
  BY <1>32 DEF SecretArrives, UnlessAborted
<1>33. ASSUME NEW r \in Runs, StreamFails(r) PROVE PendingOfPlace'
  BY <1>33 DEF StreamFails
<1>34. ASSUME NEW r \in Runs, TurnEnds(r) PROVE PendingOfPlace'
  BY <1>34 DEF TurnEnds
<1>35. ASSUME NEW r \in Runs, NEW outcome \in {"succeeded", "failed"}, ToolReturns(r,
    outcome) PROVE PendingOfPlace'
  BY <1>35 DEF ToolReturns
<1>36. ASSUME NEW r \in Runs, ToolCancelled(r) PROVE PendingOfPlace'
  BY <1>36 DEF ToolCancelled, UnlessAborted
<1>37. ASSUME NEW r \in Runs, TextDelta(r) PROVE PendingOfPlace'
  BY <1>37 DEF TextDelta
<1>38. ASSUME NEW r \in Runs, StartRun(r) PROVE PendingOfPlace'
  BY <1>38 DEF StartRun
<1>39. ASSUME NEW r \in Runs, ProvideRunInput(r) PROVE PendingOfPlace'
  BY <1>39 DEF ProvideRunInput
<1>40. ASSUME NEW r \in Runs, CancelRun(r) PROVE PendingOfPlace'
  BY <1>40 DEF CancelRun, AbortRuns
<1>41. ASSUME NEW r \in Runs, NEW k \in Calls, NEW decision \in {"approved",
    "denied"}, ResolveApproval(r, k, decision) PROVE PendingOfPlace'
  BY <1>41 DEF ResolveApproval
<1>42. ASSUME NEW r \in Runs, RecoverRun(r) PROVE PendingOfPlace'
  BY <1>42 DEF RecoverRun
<1>43. ASSUME Boot PROVE PendingOfPlace'
  BY <1>43 DEF Boot, OpenRuns
<1>44. ASSUME Ready PROVE PendingOfPlace'
  BY <1>44 DEF Ready, ExpirePending, Absent, RunStatus, TerminalRunStatus
<1>45. ASSUME Shutdown PROVE PendingOfPlace'
  BY <1>45 DEF Shutdown, AbortRuns
<1>46. ASSUME Exit PROVE PendingOfPlace'
  BY <1>46 DEF Exit, HostGone, Forget
<1>47. ASSUME Crash PROVE PendingOfPlace'
  BY <1>47 DEF Crash, HostGone, Forget
<1>48. CASE UNCHANGED vars
  BY <1>48 DEF vars
<1> HIDE DEF IInv, TypeOK, LedgerInv, GrantsAhead, PendingOfPlace, CallsOfPlace,
    StatusOfPlace, PlaceOfHost, WaiterOfPlace, BeforeApproval, Asking
<1>49. QED
  BY <1>1, <1>2, <1>3, <1>4, <1>5, <1>6, <1>7, <1>8, <1>9, <1>10, <1>11, <1>12, <1>13,
      <1>14, <1>15, <1>16, <1>17, <1>18, <1>19, <1>20, <1>21, <1>22, <1>23, <1>24, <1>25,
      <1>26, <1>27, <1>28, <1>29, <1>30, <1>31, <1>32, <1>33, <1>34, <1>35, <1>36, <1>37,
      <1>38, <1>39, <1>40, <1>41, <1>42, <1>43, <1>44, <1>45, <1>46, <1>47, <1>48 DEF
      Next, RunStep, Answer, UserRequest, HostStep
------------------------------------------------------------------------------
(* The steps of the ledger.                                                *)

\* What the ledger says of a run changes with these only.
LEMMA LedgerStands ==
  ASSUME \A r \in Runs : PhaseOf(status'[r]) = PhaseOf(status[r]),
         \A r \in Runs : Granted(r)' = Granted(r),
         executed' = executed
  PROVE  UNCHANGED Ledger!ledger
  BY DEF Ledger!ledger

\* A step that ends a run or asks it to stop.
LEMMA PhaseMoves ==
  ASSUME NEW r \in Runs,
         <<PhaseOf(status[r]), PhaseOf(status'[r])>> \in
            {<<"open", "stopping">>, <<"open", "completed">>, <<"open", "failed">>,
             <<"stopping", "cancelled">>, <<"open", "interrupted">>,
             <<"stopping", "interrupted">>},
         \A q \in Runs \ {r} : PhaseOf(status'[q]) = PhaseOf(status[q]),
         \A q \in Runs : Granted(q)' = Granted(q),
         executed' = executed
  PROVE  Ledger!Next
<1> DEFINE ph == [q \in Runs |-> PhaseOf(status[q])]
           gr == [q \in Runs |-> Granted(q)]
<1>1. ph' = [ph EXCEPT ![r] = PhaseOf(status'[r])] /\ gr' = gr
  OBVIOUS
<1>2. ph[r] = PhaseOf(status[r])
  OBVIOUS
<1>3. CASE PhaseOf(status'[r]) = "interrupted"
  <2>1. ph' = [q \in Runs |-> IF q \in {r} THEN "interrupted" ELSE ph[q]]
    BY <1>3
  <2>2. \A q \in {r} : ph[q] \in {"open", "stopping"}
    BY <1>2, <1>3
  <2>3. Ledger!Interrupt({r})
    BY <1>1, <2>1, <2>2 DEF Ledger!Interrupt, Ledger!Open
  <2>4. QED
    BY <2>3 DEF Ledger!Next
<1>4. CASE PhaseOf(status'[r]) = "stopping"
  <2>1. Ledger!RequestStop(r)
    BY <1>1, <1>2, <1>4 DEF Ledger!RequestStop
  <2>2. QED
    BY <2>1 DEF Ledger!Next
<1>5. CASE PhaseOf(status'[r]) \in {"completed", "failed", "cancelled"}
  <2>1. Ledger!Conclude(r)
    BY <1>1, <1>2, <1>5 DEF Ledger!Conclude
  <2>2. QED
    BY <2>1 DEF Ledger!Next
<1>6. QED
  BY <1>3, <1>4, <1>5

\* A step that grants a call of an open run.
LEMMA GrantMoves ==
  ASSUME NEW r \in Runs, NEW k \in Calls,
         PhaseOf(status[r]) \in {"open", "stopping"},
         \A q \in Runs : PhaseOf(status'[q]) = PhaseOf(status[q]),
         Granted(r)' = Granted(r) \cup {k},
         \A q \in Runs \ {r} : Granted(q)' = Granted(q),
         executed' = executed
  PROVE  Ledger!Next
<1> HIDE DEF Calls
<1> DEFINE ph == [q \in Runs |-> PhaseOf(status[q])]
           gr == [q \in Runs |-> Granted(q)]
<1>1. ph' = ph
  OBVIOUS
<1>2. gr' = [gr EXCEPT ![r] = @ \cup {k}]
  OBVIOUS
<1>3. Ledger!Grant(r, k)
  BY <1>1, <1>2 DEF Ledger!Grant, Ledger!Open
<1>4. QED
  BY <1>3 DEF Ledger!Next

\* While a run executes, its row is open, and says so unless it was aborted.
LEMMA PhaseOfPlace ==
  ASSUME IInv, NEW r \in Runs, pc[r] \notin Epilogue \cup {"none"}
  PROVE  /\ PhaseOf(status[r]) \in {"open", "stopping"}
         /\ status[r] \in OpenRunStatus
         /\ abort[r] = "no" => PhaseOf(status[r]) = "open"
  BY DEF IInv, StatusOfPlace, AbortOfPlace, PlaceOfHost, PhaseOf, OpenRunStatus,
         TerminalRunStatus, Absent

\* Every step of a run, a request or the host is one of the ledger, or nothing
\* that the user could see in it.
LEMMA RefinementStep == IInv /\ LedgerInv /\ [Next]_vars =>
    [Ledger!Next]_(Ledger!ledger)
<1> SUFFICES ASSUME IInv, LedgerInv, [Next]_vars PROVE Ledger!Next \/ UNCHANGED
    Ledger!ledger
  OBVIOUS
<1> DEFINE J == Ledger!Next \/ UNCHANGED Ledger!ledger
<1> USE DEF IInv, TypeOK, PhaseOf, TerminalRunStatus, OpenRunStatus, RunStatus, Absent
<1>1. ASSUME NEW r \in Runs, Prepare(r) PROVE J
  <2>1. PhaseOf(status[r]) = "open"
    BY <1>1, PhaseOfPlace DEF Prepare, LedgerInv, StartOfPlace, Epilogue
  <2>2. QED
    BY <1>1, <2>1, LedgerStands DEF Prepare, Granted
<1>2. ASSUME NEW r \in Runs, Begin(r) PROVE J
  <2>1. PhaseOf(status[r]) = "open"
    BY <1>2, PhaseOfPlace DEF Begin, LedgerInv, StartOfPlace, Epilogue
  <2>2. QED
    BY <1>2, <2>1, LedgerStands DEF Begin, Granted
<1>3. ASSUME NEW r \in Runs, RequestTurn(r) PROVE J
  BY <1>3, LedgerStands DEF RequestTurn, UnlessAborted, Granted
<1>4. ASSUME NEW r \in Runs, NEW knd \in CallKinds, CreateToolCall(r, knd) PROVE J
  <2> DEFINE new == last[r] + 1
  <2>1. new \in Calls
    BY <1>4, RunCoreAssumption DEF CreateToolCall
  <2>2. kind[r][new] = Absent
    <3>1. r \in active
      BY <1>4 DEF CreateToolCall, StatusOfPlace
    <3>2. new > last[r]
      OBVIOUS
    <3>3. QED
      BY <2>1, <3>1, <3>2 DEF LedgerInv, GrantsAhead
  <2>3. kind' = [kind EXCEPT ![r][new] = knd] /\ status' = status /\ approval' =
      approval
    BY <1>4 DEF CreateToolCall
  <2>4. executed' = executed
    BY <1>4 DEF CreateToolCall
  <2>5. \A q \in Runs \ {r} : Granted(q)' = Granted(q)
    BY <2>3 DEF Granted
  <2>6. CASE knd = "allow"
    <3>1. Granted(r)' = Granted(r) \cup {new}
      BY <2>1, <2>3, <2>6 DEF Granted
    <3>2. PhaseOf(status[r]) \in {"open", "stopping"}
      BY <1>4, PhaseOfPlace DEF CreateToolCall, Epilogue
    <3>3. QED
      BY <2>1, <2>3, <2>4, <2>5, <3>1, <3>2, GrantMoves
  <2>7. CASE knd # "allow"
    <3>1. Granted(r)' = Granted(r)
      BY <2>1, <2>2, <2>3, <2>7 DEF Granted
    <3>2. QED
      BY <2>3, <2>4, <2>5, <3>1, LedgerStands
  <2>8. QED
    BY <2>6, <2>7
<1>5. ASSUME NEW r \in Runs, AppendAssistantTurn(r) PROVE J
  BY <1>5, LedgerStands DEF AppendAssistantTurn, Granted
<1>6. ASSUME NEW r \in Runs, TurnStored(r) PROVE J
  BY <1>6, LedgerStands DEF TurnStored, AfterTurn, Granted
<1>7. ASSUME NEW r \in Runs, NextRound(r) PROVE J
  BY <1>7, LedgerStands DEF NextRound, Granted
<1>8. ASSUME NEW r \in Runs, AbandonCalls(r) PROVE J
  BY <1>8, LedgerStands DEF AbandonCalls, Granted
<1>9. ASSUME NEW r \in Runs, RejectCall(r) PROVE J
  BY <1>9, LedgerStands DEF RejectCall, AtCall, Kind, Granted
<1>10. ASSUME NEW r \in Runs, AskApproval(r) PROVE J
  BY <1>10, LedgerStands DEF AskApproval, AtCall, Kind, Granted
<1>11. ASSUME NEW r \in Runs, CreateApproval(r) PROVE J
  <2>1. cur[r] \in Calls
    BY <1>11, RunCoreAssumption DEF CreateApproval, CallsOfPlace, InCalls, Unaborted
  <2>2. approval[r][cur[r]] = Absent
    BY <1>11, <2>1 DEF CreateApproval, LedgerInv, GrantsAhead, StatusOfPlace,
        BeforeApproval
  <2>3. \A q \in Runs : Granted(q)' = Granted(q)
    BY <1>11, <2>1, <2>2 DEF CreateApproval, Granted
  <2>4. QED
    BY <1>11, <2>3, LedgerStands DEF CreateApproval
<1>12. ASSUME NEW r \in Runs, AwaitApproval(r) PROVE J
  <2>1. PhaseOf(status[r]) = "open"
    BY <1>12, PhaseOfPlace DEF AwaitApproval, AbortOfPlace, Unaborted, Epilogue
  <2>2. QED
    BY <1>12, <2>1, LedgerStands DEF AwaitApproval, Granted
<1>13. ASSUME NEW r \in Runs, ApprovalDecided(r) PROVE J
  BY <1>13, LedgerStands DEF ApprovalDecided, Resume, Granted
<1>14. ASSUME NEW r \in Runs, Denied(r) PROVE J
  BY <1>14, LedgerStands DEF Denied, Granted
<1>15. ASSUME NEW r \in Runs, BeginTool(r) PROVE J
  BY <1>15, LedgerStands DEF BeginTool, Permitted, AtCall, Kind, Granted
<1>16. ASSUME NEW r \in Runs, ExecuteTool(r) PROVE J
  <2>1. PhaseOf(status[r]) = "open"
    BY <1>16, PhaseOfPlace DEF ExecuteTool, AbortOfPlace, Unaborted, Epilogue
  <2>2. cur[r] \in Calls
    BY <1>16, RunCoreAssumption DEF ExecuteTool, CallsOfPlace, InCalls, Unaborted
  <2>3. cur[r] \in Granted(r)
    BY <1>16, <2>2 DEF ExecuteTool, GrantOfPlace, Kind, Granted
  <2>4. cur[r] \notin executed[r]
    BY <1>16, <2>2 DEF ExecuteTool, CallsOfPlace, BeforeEntry
  <2>5. \A q \in Runs : Granted(q)' = Granted(q)
    BY <1>16 DEF ExecuteTool, Granted
  <2>6. Ledger!Perform(r, cur[r])
    BY <1>16, <2>1, <2>3, <2>4, <2>5 DEF ExecuteTool, Ledger!Perform
  <2>7. QED
    BY <2>2, <2>6 DEF Ledger!Next
<1>17. ASSUME NEW r \in Runs, AskInput(r) PROVE J
  BY <1>17, LedgerStands DEF AskInput, AtCall, Kind, Granted
<1>18. ASSUME NEW r \in Runs, AwaitInput(r) PROVE J
  <2>1. PhaseOf(status[r]) = "open"
    BY <1>18, PhaseOfPlace DEF AwaitInput, AbortOfPlace, Unaborted, Epilogue
  <2>2. QED
    BY <1>18, <2>1, LedgerStands DEF AwaitInput, Granted
<1>19. ASSUME NEW r \in Runs, InputAnswered(r) PROVE J
  BY <1>19, LedgerStands DEF InputAnswered, Resume, Granted
<1>20. ASSUME NEW r \in Runs, InputDone(r) PROVE J
  BY <1>20, LedgerStands DEF InputDone, Granted
<1>21. ASSUME NEW r \in Runs, InputAborted(r) PROVE J
  BY <1>21, LedgerStands DEF InputAborted, Granted
<1>22. ASSUME NEW r \in Runs, ReportResult(r) PROVE J
  BY <1>22, LedgerStands DEF ReportResult, Granted
<1>23. ASSUME NEW r \in Runs, Finish(r) PROVE J
  <2>1. \A q \in Runs : Granted(q)' = Granted(q)
    BY <1>23 DEF Finish, Granted
  <2>2. CASE Aborted(r)
    BY <1>23, <2>1, <2>2, LedgerStands DEF Finish
  <2>3. CASE ~Aborted(r)
    <3>1. PhaseOf(status[r]) = "open"
      BY <1>23, <2>3, PhaseOfPlace DEF Finish, Aborted, Epilogue
    <3>2. QED
      BY <1>23, <2>1, <2>3, <3>1, PhaseMoves DEF Finish
  <2>4. QED
    BY <2>2, <2>3
<1>24. ASSUME NEW r \in Runs, KeepInterruptedText(r) PROVE J
  BY <1>24, LedgerStands DEF KeepInterruptedText, Granted
<1>25. ASSUME NEW r \in Runs, DropCheckpoint(r) PROVE J
  BY <1>25, LedgerStands DEF DropCheckpoint, Granted
<1>26. ASSUME NEW r \in Runs, Conclude(r) PROVE J
  <2>1. \A q \in Runs : Granted(q)' = Granted(q)
    BY <1>26 DEF Conclude, Granted
  <2>2. /\ PhaseOf(status[r]) \in {"open", "stopping"}
        /\ status[r] \in OpenRunStatus
        /\ abort[r] = "no" => PhaseOf(status[r]) = "open"
    BY <1>26, PhaseOfPlace DEF Conclude, Epilogue
  <2>3. status' = [status EXCEPT ![r] = EndStatus(r)] /\ executed' = executed
    BY <1>26 DEF Conclude
  <2>4. \/ EndStatus(r) = "interrupted"
        \/ EndStatus(r) = "cancelling" /\ PhaseOf(status[r]) = "open"
        \/ EndStatus(r) = "cancelled" /\ PhaseOf(status[r]) = "stopping"
        \/ EndStatus(r) = "failed" /\ PhaseOf(status[r]) = "open"
    <3>1. abort[r] \in {"no", "user", "shutdown"}
      OBVIOUS
    <3>2. CASE abort[r] = "shutdown"
      BY <3>2 DEF EndStatus
    <3>3. CASE abort[r] = "no"
      BY <2>2, <3>3 DEF EndStatus
    <3>4. CASE abort[r] = "user" /\ status[r] = "cancelling"
      BY <3>4 DEF EndStatus, CanTransitionRun, RunTransitions
    <3>5. CASE abort[r] = "user" /\ status[r] # "cancelling"
      <4>1. CanTransitionRun(status[r], "cancelling") /\ PhaseOf(status[r]) = "open"
        BY <2>2, <3>5 DEF CanTransitionRun, RunTransitions
      <4>2. QED
        BY <3>5, <4>1 DEF EndStatus
    <3>6. QED
      BY <3>1, <3>2, <3>3, <3>4, <3>5
  <2>5. <<PhaseOf(status[r]), PhaseOf(status'[r])>> \in
            {<<"open", "stopping">>, <<"open", "failed">>, <<"stopping", "cancelled">>,
             <<"open", "interrupted">>, <<"stopping", "interrupted">>}
    BY <2>2, <2>3, <2>4
  <2>6. \A q \in Runs \ {r} : status'[q] = status[q]
    BY <2>3
  <2>7. QED
    BY <2>1, <2>3, <2>5, <2>6, PhaseMoves
<1>27. ASSUME NEW r \in Runs, ExpireApprovals(r) PROVE J
  BY <1>27, LedgerStands DEF ExpireApprovals, ExpirePending, Granted
<1>28. ASSUME NEW r \in Runs, Settle(r) PROVE J
  BY <1>28, LedgerStands DEF Settle, Forget, Granted
<1>29. ASSUME NEW r \in Runs, RunRecovered(r) PROVE J
  BY <1>29, LedgerStands DEF RunRecovered, Forget, Granted
<1>30. ASSUME NEW r \in Runs, NEW k \in Calls, FinishUncertainCall(r, k) PROVE J
  BY <1>30, LedgerStands DEF FinishUncertainCall, Granted
<1>31. ASSUME NEW r \in Runs, NEW k \in Calls, SyntheticResult(r, k) PROVE J
  BY <1>31, LedgerStands DEF SyntheticResult, Granted
<1>32. ASSUME NEW r \in Runs, NEW found \in BOOLEAN, SecretArrives(r, found) PROVE J
  BY <1>32, LedgerStands DEF SecretArrives, UnlessAborted, Granted
<1>33. ASSUME NEW r \in Runs, StreamFails(r) PROVE J
  BY <1>33, LedgerStands DEF StreamFails, Granted
<1>34. ASSUME NEW r \in Runs, TurnEnds(r) PROVE J
  BY <1>34, LedgerStands DEF TurnEnds, Granted
<1>35. ASSUME NEW r \in Runs, NEW outcome \in {"succeeded", "failed"}, ToolReturns(r,
    outcome) PROVE J
  BY <1>35, LedgerStands DEF ToolReturns, Granted
<1>36. ASSUME NEW r \in Runs, ToolCancelled(r) PROVE J
  BY <1>36, LedgerStands DEF ToolCancelled, UnlessAborted, Granted
<1>37. ASSUME NEW r \in Runs, TextDelta(r) PROVE J
  BY <1>37, LedgerStands DEF TextDelta, Granted
<1>38. ASSUME NEW r \in Runs, StartRun(r) PROVE J
  <2>1. status[r] = Absent /\ status' = [status EXCEPT ![r] = "queued"]
    BY <1>38 DEF StartRun
  <2>2. \A q \in Runs : Granted(q)' = Granted(q)
    BY <1>38 DEF StartRun, Granted
  <2>3. \A s \in Runs : PhaseOf(status[s]) \in {"open", "stopping"} =>
      ConversationOf[s] # ConversationOf[r]
    BY <1>38 DEF StartRun, MayStart, OpenRuns
  <2>4. [q \in Runs |-> PhaseOf(status'[q])] =
            [[q \in Runs |-> PhaseOf(status[q])] EXCEPT ![r] = "open"]
    BY <2>1
  <2>5. Ledger!Submit(r)
    BY <1>38, <2>1, <2>2, <2>3, <2>4 DEF StartRun, Ledger!Submit, Ledger!Open
  <2>6. QED
    BY <2>5 DEF Ledger!Next
<1>39. ASSUME NEW r \in Runs, ProvideRunInput(r) PROVE J
  BY <1>39, LedgerStands DEF ProvideRunInput, Granted
<1>40. ASSUME NEW r \in Runs, CancelRun(r) PROVE J
  <2>1. \A q \in Runs : Granted(q)' = Granted(q)
    BY <1>40 DEF CancelRun, Granted
  <2>2. CASE CanTransitionRun(status[r], "cancelling")
    <3>1. status' = [status EXCEPT ![r] = "cancelling"]
      BY <1>40, <2>2 DEF CancelRun
    <3>2. PhaseOf(status[r]) = "open"
      BY <2>2 DEF CanTransitionRun, RunTransitions
    <3>3. QED
      BY <1>40, <2>1, <3>1, <3>2, PhaseMoves DEF CancelRun
  <2>3. CASE ~CanTransitionRun(status[r], "cancelling")
    BY <1>40, <2>1, <2>3, LedgerStands DEF CancelRun
  <2>4. QED
    BY <2>2, <2>3
<1>41. ASSUME NEW r \in Runs, NEW k \in Calls, NEW decision \in {"approved",
    "denied"}, ResolveApproval(r, k, decision) PROVE J
  <2>1. /\ status' = status /\ kind' = kind /\ executed' = executed
        /\ approval' = [approval EXCEPT ![r][k] = decision]
        /\ approval[r][k] = "pending"
    BY <1>41 DEF ResolveApproval
  <2>2. PhaseOf(status[r]) \in {"open", "stopping"}
    <3>1. pc[r] = "awaitApproval"
      BY <1>41, <2>1 DEF ResolveApproval, Serving, Busy, SyncPoints, LedgerInv,
          PendingOfPlace, Asking
    <3>2. QED
      BY <3>1, PhaseOfPlace DEF Epilogue
  <2>3. \A q \in Runs \ {r} : Granted(q)' = Granted(q)
    BY <2>1 DEF Granted
  <2>4. CASE decision = "approved"
    <3>1. Granted(r)' = Granted(r) \cup {k}
      BY <2>1, <2>4 DEF Granted
    <3>2. QED
      BY <2>1, <2>2, <2>3, <3>1, GrantMoves
  <2>5. CASE decision = "denied"
    <3>1. Granted(r)' = Granted(r)
      BY <2>1, <2>5 DEF Granted
    <3>2. QED
      BY <2>1, <2>3, <3>1, LedgerStands
  <2>6. QED
    BY <2>4, <2>5
<1>42. ASSUME NEW r \in Runs, RecoverRun(r) PROVE J
  BY <1>42, LedgerStands DEF RecoverRun, Granted
<1>43. ASSUME Boot PROVE J
  <2>1. \A q \in Runs : Granted(q)' = Granted(q)
    BY <1>43 DEF Boot, Granted
  <2>2. PICK S \in SUBSET Runs : S = OpenRuns
    BY DEF OpenRuns
  <2>3. \A q \in S : PhaseOf(status[q]) \in {"open", "stopping"}
    BY <2>2 DEF OpenRuns
  <2>4. [q \in Runs |-> PhaseOf(status'[q])] =
            [q \in Runs |-> IF q \in S THEN "interrupted" ELSE PhaseOf(status[q])]
    BY <1>43, <2>2 DEF Boot, OpenRuns
  <2>5. Ledger!Interrupt(S)
    BY <1>43, <2>1, <2>3, <2>4 DEF Boot, Ledger!Interrupt, Ledger!Open
  <2>6. QED
    BY <2>5 DEF Ledger!Next
<1>44. ASSUME Ready PROVE J
  BY <1>44, LedgerStands DEF Ready, ExpirePending, Granted
<1>45. ASSUME Shutdown PROVE J
  BY <1>45, LedgerStands DEF Shutdown, AbortRuns, Granted
<1>46. ASSUME Exit PROVE J
  BY <1>46, LedgerStands DEF Exit, HostGone, Forget, Granted
<1>47. ASSUME Crash PROVE J
  BY <1>47, LedgerStands DEF Crash, HostGone, Forget, Granted
<1>48. CASE UNCHANGED vars
  BY <1>48, LedgerStands DEF vars, Granted
<1> HIDE DEF IInv, TypeOK, PhaseOf, TerminalRunStatus, OpenRunStatus, RunStatus, Absent
<1>49. QED
  BY <1>1, <1>2, <1>3, <1>4, <1>5, <1>6, <1>7, <1>8, <1>9, <1>10, <1>11, <1>12, <1>13,
      <1>14, <1>15, <1>16, <1>17, <1>18, <1>19, <1>20, <1>21, <1>22, <1>23, <1>24, <1>25,
      <1>26, <1>27, <1>28, <1>29, <1>30, <1>31, <1>32, <1>33, <1>34, <1>35, <1>36, <1>37,
      <1>38, <1>39, <1>40, <1>41, <1>42, <1>43, <1>44, <1>45, <1>46, <1>47, <1>48 DEF
      Next, RunStep, Answer, UserRequest, HostStep
------------------------------------------------------------------------------
(* What follows.                                                           *)

LEMMA LedgerInvariant == Spec => [](IInv /\ LedgerInv)
<1>1. Init => LedgerInv
  BY DEF Init, LedgerInv, StartOfPlace, GrantsAhead, PendingOfPlace
<1>2. IInv /\ LedgerInv /\ [Next]_vars => LedgerInv'
  BY StartKept, GrantsAheadKept, PendingKept DEF LedgerInv
<1>3. QED
  BY <1>1, <1>2, Invariance, PTL DEF Spec

\* The rows of the database and the tools that were entered are at every
\* moment a ledger of RunLedger: one open run in a conversation, each effect
\* once, granted and before anybody asked to stop, and ends that stand; whatever
\* the order of requests and answers, and wherever the host dies.
THEOREM Refinement == Spec => ImplementsLedger
<1>1. Init => Ledger!Init
  <2> SUFFICES ASSUME Init PROVE Ledger!Init
    OBVIOUS
  <2>1. \A r \in Runs : PhaseOf(status[r]) = "none" /\ executed[r] = {}
    BY DEF Init, PhaseOf, Absent, TerminalRunStatus, RunStatus, OpenRunStatus
  <2>2. \A r \in Runs : Granted(r) = {}
    BY DEF Init, Granted, Absent
  <2>3. executed = [r \in Runs |-> {}]
    BY DEF Init
  <2>4. QED
    BY <2>1, <2>2, <2>3 DEF Ledger!Init
<1>2. QED
  BY <1>1, RefinementStep, LedgerInvariant, PTL DEF Spec, ImplementsLedger, Ledger!Spec

----------------------------------------------------------------------------

\* The row of a run goes with its place, through requests that come in at its
\* waits.
LEMMA RowKept == IInv /\ LedgerInv /\ RowsInv /\ [Next]_vars => RowOfPlace'
<1> SUFFICES ASSUME IInv, LedgerInv, RowsInv, [Next]_vars PROVE RowOfPlace'
  OBVIOUS
<1> USE DEF IInv, TypeOK, RowsInv, RowOfPlace, Working
<1>1. ASSUME NEW r \in Runs, Prepare(r) PROVE RowOfPlace'
  BY <1>1 DEF Prepare, LedgerInv, StartOfPlace, AbortOfPlace, Unaborted, PlaceOfHost
<1>2. ASSUME NEW r \in Runs, Begin(r) PROVE RowOfPlace'
  BY <1>2 DEF Begin, LedgerInv, StartOfPlace, AbortOfPlace, Unaborted, PlaceOfHost
<1>3. ASSUME NEW r \in Runs, RequestTurn(r) PROVE RowOfPlace'
  BY <1>3 DEF RequestTurn, UnlessAborted
<1>4. ASSUME NEW r \in Runs, NEW knd \in CallKinds, CreateToolCall(r, knd) PROVE
    RowOfPlace'
  BY <1>4 DEF CreateToolCall
<1>5. ASSUME NEW r \in Runs, AppendAssistantTurn(r) PROVE RowOfPlace'
  BY <1>5 DEF AppendAssistantTurn
<1>6. ASSUME NEW r \in Runs, TurnStored(r) PROVE RowOfPlace'
  BY <1>6 DEF TurnStored, AfterTurn
<1>7. ASSUME NEW r \in Runs, NextRound(r) PROVE RowOfPlace'
  BY <1>7 DEF NextRound
<1>8. ASSUME NEW r \in Runs, AbandonCalls(r) PROVE RowOfPlace'
  BY <1>8 DEF AbandonCalls
<1>9. ASSUME NEW r \in Runs, RejectCall(r) PROVE RowOfPlace'
  BY <1>9 DEF RejectCall, AtCall, Kind
<1>10. ASSUME NEW r \in Runs, AskApproval(r) PROVE RowOfPlace'
  BY <1>10 DEF AskApproval, AtCall, Kind, Aborted, AbortOfPlace, Unaborted, PlaceOfHost
<1>11. ASSUME NEW r \in Runs, CreateApproval(r) PROVE RowOfPlace'
  BY <1>11 DEF CreateApproval
<1>12. ASSUME NEW r \in Runs, AwaitApproval(r) PROVE RowOfPlace'
  BY <1>12 DEF AwaitApproval, AbortOfPlace, Unaborted, PlaceOfHost
<1>13. ASSUME NEW r \in Runs, ApprovalDecided(r) PROVE RowOfPlace'
  BY <1>13 DEF ApprovalDecided, Resume
<1>14. ASSUME NEW r \in Runs, Denied(r) PROVE RowOfPlace'
  BY <1>14 DEF Denied
<1>15. ASSUME NEW r \in Runs, BeginTool(r) PROVE RowOfPlace'
  BY <1>15 DEF BeginTool, Permitted, AtCall, Kind, Aborted, AbortOfPlace, Unaborted,
      PlaceOfHost
<1>16. ASSUME NEW r \in Runs, ExecuteTool(r) PROVE RowOfPlace'
  BY <1>16 DEF ExecuteTool
<1>17. ASSUME NEW r \in Runs, AskInput(r) PROVE RowOfPlace'
  BY <1>17 DEF AskInput, AtCall, Kind, Aborted, AbortOfPlace, Unaborted, PlaceOfHost
<1>18. ASSUME NEW r \in Runs, AwaitInput(r) PROVE RowOfPlace'
  BY <1>18 DEF AwaitInput, AbortOfPlace, Unaborted, PlaceOfHost
<1>19. ASSUME NEW r \in Runs, InputAnswered(r) PROVE RowOfPlace'
  BY <1>19 DEF InputAnswered, Resume
<1>20. ASSUME NEW r \in Runs, InputDone(r) PROVE RowOfPlace'
  BY <1>20 DEF InputDone
<1>21. ASSUME NEW r \in Runs, InputAborted(r) PROVE RowOfPlace'
  BY <1>21 DEF InputAborted
<1>22. ASSUME NEW r \in Runs, ReportResult(r) PROVE RowOfPlace'
  BY <1>22 DEF ReportResult
<1>23. ASSUME NEW r \in Runs, Finish(r) PROVE RowOfPlace'
  BY <1>23 DEF Finish, UnlessAborted, Aborted
<1>24. ASSUME NEW r \in Runs, KeepInterruptedText(r) PROVE RowOfPlace'
  BY <1>24 DEF KeepInterruptedText
<1>25. ASSUME NEW r \in Runs, DropCheckpoint(r) PROVE RowOfPlace'
  BY <1>25 DEF DropCheckpoint
<1>26. ASSUME NEW r \in Runs, Conclude(r) PROVE RowOfPlace'
  BY <1>26 DEF Conclude, EndStatus
<1>27. ASSUME NEW r \in Runs, ExpireApprovals(r) PROVE RowOfPlace'
  BY <1>27 DEF ExpireApprovals, ExpirePending
<1>28. ASSUME NEW r \in Runs, Settle(r) PROVE RowOfPlace'
  BY <1>28 DEF Settle, Forget
<1>29. ASSUME NEW r \in Runs, RunRecovered(r) PROVE RowOfPlace'
  BY <1>29 DEF RunRecovered, Forget
<1>30. ASSUME NEW r \in Runs, NEW k \in Calls, FinishUncertainCall(r, k) PROVE
    RowOfPlace'
  BY <1>30 DEF FinishUncertainCall
<1>31. ASSUME NEW r \in Runs, NEW k \in Calls, SyntheticResult(r, k) PROVE RowOfPlace'
  BY <1>31 DEF SyntheticResult
<1>32. ASSUME NEW r \in Runs, NEW found \in BOOLEAN, SecretArrives(r, found) PROVE
    RowOfPlace'
  BY <1>32 DEF SecretArrives, UnlessAborted, Aborted, AbortOfPlace, Unaborted,
      PlaceOfHost
<1>33. ASSUME NEW r \in Runs, StreamFails(r) PROVE RowOfPlace'
  BY <1>33 DEF StreamFails
<1>34. ASSUME NEW r \in Runs, TurnEnds(r) PROVE RowOfPlace'
  BY <1>34 DEF TurnEnds
<1>35. ASSUME NEW r \in Runs, NEW outcome \in {"succeeded", "failed"}, ToolReturns(r,
    outcome) PROVE RowOfPlace'
  BY <1>35 DEF ToolReturns
<1>36. ASSUME NEW r \in Runs, ToolCancelled(r) PROVE RowOfPlace'
  BY <1>36 DEF ToolCancelled, UnlessAborted
<1>37. ASSUME NEW r \in Runs, TextDelta(r) PROVE RowOfPlace'
  BY <1>37 DEF TextDelta
<1>38. ASSUME NEW r \in Runs, StartRun(r) PROVE RowOfPlace'
  BY <1>38 DEF StartRun, CallsOfPlace
<1>39. ASSUME NEW r \in Runs, ProvideRunInput(r) PROVE RowOfPlace'
  BY <1>39 DEF ProvideRunInput, WaiterOfPlace
<1>40. ASSUME NEW r \in Runs, CancelRun(r) PROVE RowOfPlace'
  BY <1>40 DEF CancelRun, AbortRuns, Serving, Busy, SyncPoints, CanTransitionRun,
      RunTransitions, WaiterOfPlace, Aborted
<1>41. ASSUME NEW r \in Runs, NEW k \in Calls, NEW decision \in {"approved",
    "denied"}, ResolveApproval(r, k, decision) PROVE RowOfPlace'
  BY <1>41 DEF ResolveApproval, Serving, Busy, SyncPoints, WaiterOfPlace
<1>42. ASSUME NEW r \in Runs, RecoverRun(r) PROVE RowOfPlace'
  BY <1>42 DEF RecoverRun
<1>43. ASSUME Boot PROVE RowOfPlace'
  BY <1>43 DEF Boot, OpenRuns, PlaceOfHost
<1>44. ASSUME Ready PROVE RowOfPlace'
  BY <1>44 DEF Ready, ExpirePending
<1>45. ASSUME Shutdown PROVE RowOfPlace'
  BY <1>45 DEF Shutdown, AbortRuns, Busy, SyncPoints, WaiterOfPlace, Aborted
<1>46. ASSUME Exit PROVE RowOfPlace'
  BY <1>46 DEF Exit, HostGone, Forget
<1>47. ASSUME Crash PROVE RowOfPlace'
  BY <1>47 DEF Crash, HostGone, Forget
<1>48. CASE UNCHANGED vars
  BY <1>48 DEF vars
<1> HIDE DEF IInv, TypeOK, RowsInv, RowOfPlace, Working
<1>49. QED
  BY <1>1, <1>2, <1>3, <1>4, <1>5, <1>6, <1>7, <1>8, <1>9, <1>10, <1>11, <1>12, <1>13,
      <1>14, <1>15, <1>16, <1>17, <1>18, <1>19, <1>20, <1>21, <1>22, <1>23, <1>24, <1>25,
      <1>26, <1>27, <1>28, <1>29, <1>30, <1>31, <1>32, <1>33, <1>34, <1>35, <1>36, <1>37,
      <1>38, <1>39, <1>40, <1>41, <1>42, <1>43, <1>44, <1>45, <1>46, <1>47, <1>48 DEF
      Next, RunStep, Answer, UserRequest, HostStep
\* The runtime works off the calls of a turn in order, and each has its status
\* before the next thing is done with it.
LEMMA CallKept == IInv /\ LedgerInv /\ RowsInv /\ [Next]_vars => CallOfPlace'
<1> SUFFICES ASSUME IInv, LedgerInv, RowsInv, [Next]_vars PROVE CallOfPlace'
  OBVIOUS
<1> USE RunCoreAssumption DEF IInv, TypeOK, RowsInv, CallOfPlace, StatusOfPlace,
    CallsOfPlace, BeforeApproval, InCalls, Unaborted
<1>1. ASSUME NEW r \in Runs, Prepare(r) PROVE CallOfPlace'
  BY <1>1 DEF Prepare, Absent
<1>2. ASSUME NEW r \in Runs, Begin(r) PROVE CallOfPlace'
  BY <1>2 DEF Begin, Absent
<1>3. ASSUME NEW r \in Runs, RequestTurn(r) PROVE CallOfPlace'
  BY <1>3 DEF RequestTurn, UnlessAborted
<1>4. ASSUME NEW r \in Runs, NEW knd \in CallKinds, CreateToolCall(r, knd) PROVE
    CallOfPlace'
  BY <1>4 DEF CreateToolCall
<1>5. ASSUME NEW r \in Runs, AppendAssistantTurn(r) PROVE CallOfPlace'
  BY <1>5 DEF AppendAssistantTurn
<1>6. ASSUME NEW r \in Runs, TurnStored(r) PROVE CallOfPlace'
  BY <1>6 DEF TurnStored, AfterTurn
<1>7. ASSUME NEW r \in Runs, NextRound(r) PROVE CallOfPlace'
  BY <1>7 DEF NextRound
<1>8. ASSUME NEW r \in Runs, AbandonCalls(r) PROVE CallOfPlace'
  BY <1>8 DEF AbandonCalls
<1>9. ASSUME NEW r \in Runs, RejectCall(r) PROVE CallOfPlace'
  BY <1>9 DEF RejectCall, AtCall, Kind
<1>10. ASSUME NEW r \in Runs, AskApproval(r) PROVE CallOfPlace'
  BY <1>10 DEF AskApproval, AtCall, Kind
<1>11. ASSUME NEW r \in Runs, CreateApproval(r) PROVE CallOfPlace'
  BY <1>11 DEF CreateApproval
<1>12. ASSUME NEW r \in Runs, AwaitApproval(r) PROVE CallOfPlace'
  BY <1>12 DEF AwaitApproval, Absent
<1>13. ASSUME NEW r \in Runs, ApprovalDecided(r) PROVE CallOfPlace'
  BY <1>13 DEF ApprovalDecided, Resume, Absent
<1>14. ASSUME NEW r \in Runs, Denied(r) PROVE CallOfPlace'
  BY <1>14 DEF Denied
<1>15. ASSUME NEW r \in Runs, BeginTool(r) PROVE CallOfPlace'
  BY <1>15 DEF BeginTool, Permitted, AtCall, Kind
<1>16. ASSUME NEW r \in Runs, ExecuteTool(r) PROVE CallOfPlace'
  BY <1>16 DEF ExecuteTool
<1>17. ASSUME NEW r \in Runs, AskInput(r) PROVE CallOfPlace'
  BY <1>17 DEF AskInput, AtCall, Kind
<1>18. ASSUME NEW r \in Runs, AwaitInput(r) PROVE CallOfPlace'
  BY <1>18 DEF AwaitInput, Absent
<1>19. ASSUME NEW r \in Runs, InputAnswered(r) PROVE CallOfPlace'
  BY <1>19 DEF InputAnswered, Resume, Absent
<1>20. ASSUME NEW r \in Runs, InputDone(r) PROVE CallOfPlace'
  BY <1>20 DEF InputDone
<1>21. ASSUME NEW r \in Runs, InputAborted(r) PROVE CallOfPlace'
  BY <1>21 DEF InputAborted
<1>22. ASSUME NEW r \in Runs, ReportResult(r) PROVE CallOfPlace'
  BY <1>22 DEF ReportResult
<1>23. ASSUME NEW r \in Runs, Finish(r) PROVE CallOfPlace'
  BY <1>23, SMTT(30) DEF Finish, UnlessAborted, Aborted, Absent
<1>24. ASSUME NEW r \in Runs, KeepInterruptedText(r) PROVE CallOfPlace'
  BY <1>24 DEF KeepInterruptedText
<1>25. ASSUME NEW r \in Runs, DropCheckpoint(r) PROVE CallOfPlace'
  BY <1>25 DEF DropCheckpoint
<1>26. ASSUME NEW r \in Runs, Conclude(r) PROVE CallOfPlace'
  BY <1>26 DEF Conclude, EndStatus, Absent
<1>27. ASSUME NEW r \in Runs, ExpireApprovals(r) PROVE CallOfPlace'
  BY <1>27 DEF ExpireApprovals, ExpirePending
<1>28. ASSUME NEW r \in Runs, Settle(r) PROVE CallOfPlace'
  BY <1>28 DEF Settle, Forget
<1>29. ASSUME NEW r \in Runs, RunRecovered(r) PROVE CallOfPlace'
  BY <1>29 DEF RunRecovered, Forget
<1>30. ASSUME NEW r \in Runs, NEW k \in Calls, FinishUncertainCall(r, k) PROVE
    CallOfPlace'
  BY <1>30, SMTT(30) DEF FinishUncertainCall, Unfinished, UnfinishedCallStatus, PlaceOfHost,
      Absent
<1>31. ASSUME NEW r \in Runs, NEW k \in Calls, SyntheticResult(r, k) PROVE CallOfPlace'
  BY <1>31 DEF SyntheticResult
<1>32. ASSUME NEW r \in Runs, NEW found \in BOOLEAN, SecretArrives(r, found) PROVE
    CallOfPlace'
  BY <1>32 DEF SecretArrives, UnlessAborted
<1>33. ASSUME NEW r \in Runs, StreamFails(r) PROVE CallOfPlace'
  BY <1>33 DEF StreamFails
<1>34. ASSUME NEW r \in Runs, TurnEnds(r) PROVE CallOfPlace'
  BY <1>34 DEF TurnEnds
<1>35. ASSUME NEW r \in Runs, NEW outcome \in {"succeeded", "failed"}, ToolReturns(r,
    outcome) PROVE CallOfPlace'
  BY <1>35 DEF ToolReturns
<1>36. ASSUME NEW r \in Runs, ToolCancelled(r) PROVE CallOfPlace'
  BY <1>36 DEF ToolCancelled, UnlessAborted
<1>37. ASSUME NEW r \in Runs, TextDelta(r) PROVE CallOfPlace'
  BY <1>37 DEF TextDelta
<1>38. ASSUME NEW r \in Runs, StartRun(r) PROVE CallOfPlace'
  BY <1>38 DEF StartRun, Serving, Absent
<1>39. ASSUME NEW r \in Runs, ProvideRunInput(r) PROVE CallOfPlace'
  BY <1>39 DEF ProvideRunInput, WaiterOfPlace
<1>40. ASSUME NEW r \in Runs, CancelRun(r) PROVE CallOfPlace'
  BY <1>40 DEF CancelRun, AbortRuns, WaiterOfPlace, Serving, Absent
<1>41. ASSUME NEW r \in Runs, NEW k \in Calls, NEW decision \in {"approved",
    "denied"}, ResolveApproval(r, k, decision) PROVE CallOfPlace'
  <2>1. CASE waiter[r] = "approval" /\ cur[r] = k
    <3>1. pc[r] = "awaitApproval" /\ pc' = [pc EXCEPT ![r] = "decided"]
      BY <1>41, <2>1 DEF ResolveApproval, WaiterOfPlace
    <3>2. \A j \in Calls : j # k => approval'[r][j] = approval[r][j]
      BY <1>41 DEF ResolveApproval
    <3>3. \A q \in Runs : q # r => approval'[q] = approval[q]
      BY <1>41 DEF ResolveApproval
    <3>4. UNCHANGED <<status, callStatus, active, cur, last>>
      BY <1>41 DEF ResolveApproval
    <3>5. QED
      BY <2>1, <3>1, <3>2, <3>3, <3>4
  <2>2. CASE ~(waiter[r] = "approval" /\ cur[r] = k)
    <3>1. pc[r] # "approvalStatus"
      BY <1>41 DEF ResolveApproval, Serving, Busy, SyncPoints
    <3>2. pc[r] = "awaitApproval" => cur[r] # k
      BY <2>2 DEF WaiterOfPlace
    <3>3. /\ \A j \in Calls : j # k => approval'[r][j] = approval[r][j]
          /\ \A q \in Runs : q # r => approval'[q] = approval[q]
      BY <1>41 DEF ResolveApproval
    <3>4. UNCHANGED <<status, callStatus, pc, active, cur, last>>
      BY <1>41, <2>2 DEF ResolveApproval
    <3>5. ASSUME NEW q \in Runs, NEW j \in Calls, j = cur[q],
                 pc[q] \in {"approvalStatus", "awaitApproval"}
          PROVE  approval'[q][j] = approval[q][j]
      <4>1. CASE q = r
        <5>1. j # k
          BY <3>1, <3>2, <3>5, <4>1
        <5>2. QED
          BY <3>3, <4>1, <5>1
      <4>2. CASE q # r
        BY <3>3, <4>2
      <4>3. QED
        BY <4>1, <4>2
    <3>6. ASSUME NEW q \in Runs, NEW j \in Calls, j = cur[q],
                 pc[q] \in {"approvalStatus", "awaitApproval"}
          PROVE  approval'[q][j] = "pending"
      <4>1. approval'[q][j] = approval[q][j]
        BY <3>5, <3>6
      <4>2. approval[q][j] = "pending"
        BY <3>6
      <4>3. QED
        BY <4>1, <4>2
    <3>7. CallOfPlace
      OBVIOUS
    <3> HIDE DEF IInv, TypeOK, RowsInv, StatusOfPlace, CallsOfPlace
    <3>8. QED
      BY <3>4, <3>6, <3>7
  <2>3. QED
    BY <2>1, <2>2
<1>42. ASSUME NEW r \in Runs, RecoverRun(r) PROVE CallOfPlace'
  BY <1>42 DEF RecoverRun, PlaceOfHost
<1>43. ASSUME Boot PROVE CallOfPlace'
  BY <1>43 DEF Boot, OpenRuns, Absent
<1>44. ASSUME Ready PROVE CallOfPlace'
  BY <1>44 DEF Ready, ExpirePending, PlaceOfHost, Absent
<1>45. ASSUME Shutdown PROVE CallOfPlace'
  BY <1>45 DEF Shutdown, AbortRuns, WaiterOfPlace
<1>46. ASSUME Exit PROVE CallOfPlace'
  BY <1>46 DEF Exit, HostGone, Forget
<1>47. ASSUME Crash PROVE CallOfPlace'
  BY <1>47 DEF Crash, HostGone, Forget
<1>48. CASE UNCHANGED vars
  BY <1>48 DEF vars
<1> HIDE DEF IInv, TypeOK, RowsInv, CallOfPlace, StatusOfPlace, CallsOfPlace,
    BeforeApproval, InCalls, Unaborted
<1>49. QED
  BY <1>1, <1>2, <1>3, <1>4, <1>5, <1>6, <1>7, <1>8, <1>9, <1>10, <1>11, <1>12, <1>13,
      <1>14, <1>15, <1>16, <1>17, <1>18, <1>19, <1>20, <1>21, <1>22, <1>23, <1>24, <1>25,
      <1>26, <1>27, <1>28, <1>29, <1>30, <1>31, <1>32, <1>33, <1>34, <1>35, <1>36, <1>37,
      <1>38, <1>39, <1>40, <1>41, <1>42, <1>43, <1>44, <1>45, <1>46, <1>47, <1>48 DEF
      Next, RunStep, Answer, UserRequest, HostStep
\* Text becomes a message before its checkpoint is cleared.
LEMMA TextKept == IInv /\ RowsInv /\ [Next]_vars => TextOfPlace'
<1> SUFFICES ASSUME IInv, RowsInv, [Next]_vars PROVE TextOfPlace'
  OBVIOUS
<1> USE DEF IInv, TypeOK, RowsInv, TextOfPlace
<1>1. ASSUME NEW r \in Runs, Prepare(r) PROVE TextOfPlace'
  BY <1>1 DEF Prepare
<1>2. ASSUME NEW r \in Runs, Begin(r) PROVE TextOfPlace'
  BY <1>2 DEF Begin
<1>3. ASSUME NEW r \in Runs, RequestTurn(r) PROVE TextOfPlace'
  BY <1>3 DEF RequestTurn, UnlessAborted
<1>4. ASSUME NEW r \in Runs, NEW knd \in CallKinds, CreateToolCall(r, knd) PROVE
    TextOfPlace'
  BY <1>4 DEF CreateToolCall
<1>5. ASSUME NEW r \in Runs, AppendAssistantTurn(r) PROVE TextOfPlace'
  BY <1>5 DEF AppendAssistantTurn
<1>6. ASSUME NEW r \in Runs, TurnStored(r) PROVE TextOfPlace'
  BY <1>6 DEF TurnStored, AfterTurn
<1>7. ASSUME NEW r \in Runs, NextRound(r) PROVE TextOfPlace'
  BY <1>7 DEF NextRound
<1>8. ASSUME NEW r \in Runs, AbandonCalls(r) PROVE TextOfPlace'
  BY <1>8 DEF AbandonCalls
<1>9. ASSUME NEW r \in Runs, RejectCall(r) PROVE TextOfPlace'
  BY <1>9 DEF RejectCall, AtCall, Kind
<1>10. ASSUME NEW r \in Runs, AskApproval(r) PROVE TextOfPlace'
  BY <1>10 DEF AskApproval, AtCall, Kind
<1>11. ASSUME NEW r \in Runs, CreateApproval(r) PROVE TextOfPlace'
  BY <1>11 DEF CreateApproval
<1>12. ASSUME NEW r \in Runs, AwaitApproval(r) PROVE TextOfPlace'
  BY <1>12 DEF AwaitApproval
<1>13. ASSUME NEW r \in Runs, ApprovalDecided(r) PROVE TextOfPlace'
  BY <1>13 DEF ApprovalDecided, Resume
<1>14. ASSUME NEW r \in Runs, Denied(r) PROVE TextOfPlace'
  BY <1>14 DEF Denied
<1>15. ASSUME NEW r \in Runs, BeginTool(r) PROVE TextOfPlace'
  BY <1>15 DEF BeginTool, Permitted, AtCall, Kind
<1>16. ASSUME NEW r \in Runs, ExecuteTool(r) PROVE TextOfPlace'
  BY <1>16 DEF ExecuteTool
<1>17. ASSUME NEW r \in Runs, AskInput(r) PROVE TextOfPlace'
  BY <1>17 DEF AskInput, AtCall, Kind
<1>18. ASSUME NEW r \in Runs, AwaitInput(r) PROVE TextOfPlace'
  BY <1>18 DEF AwaitInput
<1>19. ASSUME NEW r \in Runs, InputAnswered(r) PROVE TextOfPlace'
  BY <1>19 DEF InputAnswered, Resume
<1>20. ASSUME NEW r \in Runs, InputDone(r) PROVE TextOfPlace'
  BY <1>20 DEF InputDone
<1>21. ASSUME NEW r \in Runs, InputAborted(r) PROVE TextOfPlace'
  BY <1>21 DEF InputAborted
<1>22. ASSUME NEW r \in Runs, ReportResult(r) PROVE TextOfPlace'
  BY <1>22 DEF ReportResult
<1>23. ASSUME NEW r \in Runs, Finish(r) PROVE TextOfPlace'
  BY <1>23 DEF Finish, UnlessAborted, Aborted
<1>24. ASSUME NEW r \in Runs, KeepInterruptedText(r) PROVE TextOfPlace'
  BY <1>24 DEF KeepInterruptedText
<1>25. ASSUME NEW r \in Runs, DropCheckpoint(r) PROVE TextOfPlace'
  BY <1>25 DEF DropCheckpoint
<1>26. ASSUME NEW r \in Runs, Conclude(r) PROVE TextOfPlace'
  BY <1>26 DEF Conclude, EndStatus
<1>27. ASSUME NEW r \in Runs, ExpireApprovals(r) PROVE TextOfPlace'
  BY <1>27 DEF ExpireApprovals, ExpirePending
<1>28. ASSUME NEW r \in Runs, Settle(r) PROVE TextOfPlace'
  BY <1>28 DEF Settle, Forget
<1>29. ASSUME NEW r \in Runs, RunRecovered(r) PROVE TextOfPlace'
  BY <1>29 DEF RunRecovered, Forget
<1>30. ASSUME NEW r \in Runs, NEW k \in Calls, FinishUncertainCall(r, k) PROVE
    TextOfPlace'
  BY <1>30 DEF FinishUncertainCall
<1>31. ASSUME NEW r \in Runs, NEW k \in Calls, SyntheticResult(r, k) PROVE TextOfPlace'
  BY <1>31 DEF SyntheticResult
<1>32. ASSUME NEW r \in Runs, NEW found \in BOOLEAN, SecretArrives(r, found) PROVE
    TextOfPlace'
  BY <1>32 DEF SecretArrives, UnlessAborted
<1>33. ASSUME NEW r \in Runs, StreamFails(r) PROVE TextOfPlace'
  BY <1>33 DEF StreamFails
<1>34. ASSUME NEW r \in Runs, TurnEnds(r) PROVE TextOfPlace'
  BY <1>34 DEF TurnEnds
<1>35. ASSUME NEW r \in Runs, NEW outcome \in {"succeeded", "failed"}, ToolReturns(r,
    outcome) PROVE TextOfPlace'
  BY <1>35 DEF ToolReturns
<1>36. ASSUME NEW r \in Runs, ToolCancelled(r) PROVE TextOfPlace'
  BY <1>36 DEF ToolCancelled, UnlessAborted
<1>37. ASSUME NEW r \in Runs, TextDelta(r) PROVE TextOfPlace'
  BY <1>37 DEF TextDelta
<1>38. ASSUME NEW r \in Runs, StartRun(r) PROVE TextOfPlace'
  BY <1>38 DEF StartRun
<1>39. ASSUME NEW r \in Runs, ProvideRunInput(r) PROVE TextOfPlace'
  BY <1>39 DEF ProvideRunInput
<1>40. ASSUME NEW r \in Runs, CancelRun(r) PROVE TextOfPlace'
  BY <1>40 DEF CancelRun, AbortRuns
<1>41. ASSUME NEW r \in Runs, NEW k \in Calls, NEW decision \in {"approved",
    "denied"}, ResolveApproval(r, k, decision) PROVE TextOfPlace'
  BY <1>41 DEF ResolveApproval
<1>42. ASSUME NEW r \in Runs, RecoverRun(r) PROVE TextOfPlace'
  BY <1>42 DEF RecoverRun
<1>43. ASSUME Boot PROVE TextOfPlace'
  BY <1>43 DEF Boot, OpenRuns
<1>44. ASSUME Ready PROVE TextOfPlace'
  BY <1>44 DEF Ready, ExpirePending
<1>45. ASSUME Shutdown PROVE TextOfPlace'
  BY <1>45 DEF Shutdown, AbortRuns
<1>46. ASSUME Exit PROVE TextOfPlace'
  BY <1>46 DEF Exit, HostGone, Forget
<1>47. ASSUME Crash PROVE TextOfPlace'
  BY <1>47 DEF Crash, HostGone, Forget
<1>48. CASE UNCHANGED vars
  BY <1>48 DEF vars
<1> HIDE DEF IInv, TypeOK, RowsInv, TextOfPlace
<1>49. QED
  BY <1>1, <1>2, <1>3, <1>4, <1>5, <1>6, <1>7, <1>8, <1>9, <1>10, <1>11, <1>12, <1>13,
      <1>14, <1>15, <1>16, <1>17, <1>18, <1>19, <1>20, <1>21, <1>22, <1>23, <1>24, <1>25,
      <1>26, <1>27, <1>28, <1>29, <1>30, <1>31, <1>32, <1>33, <1>34, <1>35, <1>36, <1>37,
      <1>38, <1>39, <1>40, <1>41, <1>42, <1>43, <1>44, <1>45, <1>46, <1>47, <1>48 DEF
      Next, RunStep, Answer, UserRequest, HostStep
LEMMA RowsInvariant == Spec => [](IInv /\ LedgerInv /\ RowsInv)
<1>1. Init => RowsInv
  BY DEF Init, RowsInv, RowOfPlace, CallOfPlace, TextOfPlace, Working, InCalls,
      Unaborted
<1>2. IInv /\ LedgerInv /\ RowsInv /\ [Next]_vars => RowsInv'
  BY RowKept, CallKept, TextKept DEF RowsInv
<1>3. QED
  BY <1>1, <1>2, LedgerInvariant, PTL DEF Spec

------------------------------------------------------------------------------
(* What follows.                                                           *)

\* What TransitionsAreLegal says of a step.
LegalMove(r) ==
    /\ status[r] # Absent /\ status'[r] # status[r] => CanTransitionRun(status[r],
        status'[r])
    /\ status[r] = "cancelling" => status'[r] # "completed"
    /\ \A k \in Calls :
         callStatus[r][k] # Absent /\ callStatus'[r][k] # callStatus[r][k]
             => CanTransitionToolCall(callStatus[r][k], callStatus'[r][k])

\* The transition tables are kept by every step, so that assertRunTransition
\* and its sister for calls never throw.
LEMMA LegalStep == IInv /\ LedgerInv /\ RowsInv /\ [Next]_vars => \A r \in Runs :
    LegalMove(r)
<1> SUFFICES ASSUME IInv, LedgerInv, RowsInv, [Next]_vars, NEW x \in Runs PROVE
    LegalMove(x)
  OBVIOUS
<1> USE DEF LegalMove, IInv, TypeOK, RowsInv, CanTransitionRun, RunTransitions,
    CanTransitionToolCall, ToolCallTransitions, Absent
<1>1. ASSUME NEW r \in Runs, Prepare(r) PROVE LegalMove(x)
  BY <1>1 DEF Prepare, RowOfPlace, Working
<1>2. ASSUME NEW r \in Runs, Begin(r) PROVE LegalMove(x)
  BY <1>2 DEF Begin, RowOfPlace, Working
<1>3. ASSUME NEW r \in Runs, RequestTurn(r) PROVE LegalMove(x)
  BY <1>3 DEF RequestTurn, UnlessAborted
<1>4. ASSUME NEW r \in Runs, NEW knd \in CallKinds, CreateToolCall(r, knd) PROVE
    LegalMove(x)
  <2>1. last[r] + 1 \in Calls /\ last[r] + 1 > last[r]
    BY <1>4, RunCoreAssumption DEF CreateToolCall
  <2>2. r \in active
    BY <1>4 DEF CreateToolCall, StatusOfPlace
  <2>3. callStatus[r][last[r] + 1] = "absent"
    BY <2>1, <2>2 DEF CallOfPlace
  <2>4. /\ status' = status
        /\ callStatus' = [callStatus EXCEPT ![r][last[r] + 1] = "proposed"]
    BY <1>4 DEF CreateToolCall
  <2>5. QED
    BY <2>1, <2>3, <2>4
<1>5. ASSUME NEW r \in Runs, AppendAssistantTurn(r) PROVE LegalMove(x)
  BY <1>5 DEF AppendAssistantTurn
<1>6. ASSUME NEW r \in Runs, TurnStored(r) PROVE LegalMove(x)
  BY <1>6 DEF TurnStored, AfterTurn
<1>7. ASSUME NEW r \in Runs, NextRound(r) PROVE LegalMove(x)
  BY <1>7 DEF NextRound
<1>8. ASSUME NEW r \in Runs, AbandonCalls(r) PROVE LegalMove(x)
  BY <1>8 DEF AbandonCalls
<1>9. ASSUME NEW r \in Runs, RejectCall(r) PROVE LegalMove(x)
  BY <1>9 DEF RejectCall, AtCall, Kind, CallOfPlace, CallsOfPlace, InCalls, Unaborted,
      BeforeApproval, StatusOfPlace
<1>10. ASSUME NEW r \in Runs, AskApproval(r) PROVE LegalMove(x)
  BY <1>10 DEF AskApproval, AtCall, Kind, CallOfPlace, CallsOfPlace, InCalls,
      Unaborted, BeforeApproval, StatusOfPlace
<1>11. ASSUME NEW r \in Runs, CreateApproval(r) PROVE LegalMove(x)
  BY <1>11 DEF CreateApproval
<1>12. ASSUME NEW r \in Runs, AwaitApproval(r) PROVE LegalMove(x)
  BY <1>12 DEF AwaitApproval, RowOfPlace, Working
<1>13. ASSUME NEW r \in Runs, ApprovalDecided(r) PROVE LegalMove(x)
  BY <1>13 DEF ApprovalDecided, Resume, RowOfPlace, Working
<1>14. ASSUME NEW r \in Runs, Denied(r) PROVE LegalMove(x)
  BY <1>14 DEF Denied, CallOfPlace, CallsOfPlace, InCalls, Unaborted, BeforeApproval,
      StatusOfPlace
<1>15. ASSUME NEW r \in Runs, BeginTool(r) PROVE LegalMove(x)
  BY <1>15 DEF BeginTool, Permitted, AtCall, Kind, CallOfPlace, CallsOfPlace, InCalls,
      Unaborted, BeforeApproval, StatusOfPlace
<1>16. ASSUME NEW r \in Runs, ExecuteTool(r) PROVE LegalMove(x)
  BY <1>16 DEF ExecuteTool
<1>17. ASSUME NEW r \in Runs, AskInput(r) PROVE LegalMove(x)
  BY <1>17 DEF AskInput, AtCall, Kind, CallOfPlace, CallsOfPlace, InCalls, Unaborted,
      BeforeApproval, StatusOfPlace
<1>18. ASSUME NEW r \in Runs, AwaitInput(r) PROVE LegalMove(x)
  BY <1>18 DEF AwaitInput, RowOfPlace, Working
<1>19. ASSUME NEW r \in Runs, InputAnswered(r) PROVE LegalMove(x)
  BY <1>19 DEF InputAnswered, Resume, RowOfPlace, Working
<1>20. ASSUME NEW r \in Runs, InputDone(r) PROVE LegalMove(x)
  BY <1>20 DEF InputDone, CallOfPlace, CallsOfPlace, InCalls, Unaborted,
      BeforeApproval, StatusOfPlace
<1>21. ASSUME NEW r \in Runs, InputAborted(r) PROVE LegalMove(x)
  BY <1>21 DEF InputAborted, CallOfPlace, CallsOfPlace, InCalls, Unaborted,
      BeforeApproval, StatusOfPlace
<1>22. ASSUME NEW r \in Runs, ReportResult(r) PROVE LegalMove(x)
  BY <1>22 DEF ReportResult
<1>23. ASSUME NEW r \in Runs, Finish(r) PROVE LegalMove(x)
  BY <1>23 DEF Finish, UnlessAborted, Aborted, RowOfPlace, Working, AbortOfPlace,
      PlaceOfHost
<1>24. ASSUME NEW r \in Runs, KeepInterruptedText(r) PROVE LegalMove(x)
  BY <1>24 DEF KeepInterruptedText
<1>25. ASSUME NEW r \in Runs, DropCheckpoint(r) PROVE LegalMove(x)
  BY <1>25 DEF DropCheckpoint
<1>26. ASSUME NEW r \in Runs, Conclude(r) PROVE LegalMove(x)
  BY <1>26 DEF Conclude, EndStatus, StatusOfPlace, Epilogue, OpenRunStatus,
      AbortOfPlace, PlaceOfHost, Aborted
<1>27. ASSUME NEW r \in Runs, ExpireApprovals(r) PROVE LegalMove(x)
  BY <1>27 DEF ExpireApprovals, ExpirePending
<1>28. ASSUME NEW r \in Runs, Settle(r) PROVE LegalMove(x)
  BY <1>28 DEF Settle, Forget
<1>29. ASSUME NEW r \in Runs, RunRecovered(r) PROVE LegalMove(x)
  BY <1>29 DEF RunRecovered, Forget
<1>30. ASSUME NEW r \in Runs, NEW k \in Calls, FinishUncertainCall(r, k) PROVE
    LegalMove(x)
  BY <1>30 DEF FinishUncertainCall, Unfinished, UnfinishedCallStatus, UncertainOutcome
<1>31. ASSUME NEW r \in Runs, NEW k \in Calls, SyntheticResult(r, k) PROVE LegalMove(x)
  BY <1>31 DEF SyntheticResult
<1>32. ASSUME NEW r \in Runs, NEW found \in BOOLEAN, SecretArrives(r, found) PROVE
    LegalMove(x)
  BY <1>32 DEF SecretArrives, UnlessAborted
<1>33. ASSUME NEW r \in Runs, StreamFails(r) PROVE LegalMove(x)
  BY <1>33 DEF StreamFails
<1>34. ASSUME NEW r \in Runs, TurnEnds(r) PROVE LegalMove(x)
  BY <1>34 DEF TurnEnds
<1>35. ASSUME NEW r \in Runs, NEW outcome \in {"succeeded", "failed"}, ToolReturns(r,
    outcome) PROVE LegalMove(x)
  BY <1>35 DEF ToolReturns, CallOfPlace, CallsOfPlace, InCalls, Unaborted,
      BeforeApproval, StatusOfPlace
<1>36. ASSUME NEW r \in Runs, ToolCancelled(r) PROVE LegalMove(x)
  BY <1>36 DEF ToolCancelled, UnlessAborted, CallOfPlace, CallsOfPlace, InCalls,
      Unaborted, BeforeApproval, StatusOfPlace
<1>37. ASSUME NEW r \in Runs, TextDelta(r) PROVE LegalMove(x)
  BY <1>37 DEF TextDelta
<1>38. ASSUME NEW r \in Runs, StartRun(r) PROVE LegalMove(x)
  BY <1>38 DEF StartRun
<1>39. ASSUME NEW r \in Runs, ProvideRunInput(r) PROVE LegalMove(x)
  BY <1>39 DEF ProvideRunInput
<1>40. ASSUME NEW r \in Runs, CancelRun(r) PROVE LegalMove(x)
  BY <1>40 DEF CancelRun, AbortRuns
<1>41. ASSUME NEW r \in Runs, NEW k \in Calls, NEW decision \in {"approved",
    "denied"}, ResolveApproval(r, k, decision) PROVE LegalMove(x)
  BY <1>41 DEF ResolveApproval
<1>42. ASSUME NEW r \in Runs, RecoverRun(r) PROVE LegalMove(x)
  BY <1>42 DEF RecoverRun
<1>43. ASSUME Boot PROVE LegalMove(x)
  BY <1>43 DEF Boot, OpenRuns, OpenRunStatus, RunStatus
<1>44. ASSUME Ready PROVE LegalMove(x)
  BY <1>44 DEF Ready, ExpirePending
<1>45. ASSUME Shutdown PROVE LegalMove(x)
  BY <1>45 DEF Shutdown, AbortRuns
<1>46. ASSUME Exit PROVE LegalMove(x)
  BY <1>46 DEF Exit, HostGone, Forget
<1>47. ASSUME Crash PROVE LegalMove(x)
  BY <1>47 DEF Crash, HostGone, Forget
<1>48. CASE UNCHANGED vars
  BY <1>48 DEF vars
<1> HIDE DEF LegalMove, IInv, TypeOK, RowsInv, CanTransitionRun, RunTransitions,
    CanTransitionToolCall, ToolCallTransitions, Absent
<1>49. QED
  BY <1>1, <1>2, <1>3, <1>4, <1>5, <1>6, <1>7, <1>8, <1>9, <1>10, <1>11, <1>12, <1>13,
      <1>14, <1>15, <1>16, <1>17, <1>18, <1>19, <1>20, <1>21, <1>22, <1>23, <1>24, <1>25,
      <1>26, <1>27, <1>28, <1>29, <1>30, <1>31, <1>32, <1>33, <1>34, <1>35, <1>36, <1>37,
      <1>38, <1>39, <1>40, <1>41, <1>42, <1>43, <1>44, <1>45, <1>46, <1>47, <1>48 DEF
      Next, RunStep, Answer, UserRequest, HostStep
\* No row of a run or a call makes a transition that its table does not have,
\* through recovery and the end of a run as well, and no cancelled run turns out
\* completed.
THEOREM LegalTransitions == Spec => TransitionsAreLegal
  BY LegalStep, RowsInvariant, PTL DEF Spec, TransitionsAreLegal, LegalMove

\* A prompt that the database shows is one that a waiter of the host is there
\* for, and the other way round.
THEOREM PromptsAwaited == Spec => []PromptsAreAwaited
<1>1. IInv /\ LedgerInv /\ RowsInv => PromptsAreAwaited
  <2> SUFFICES ASSUME IInv, LedgerInv, RowsInv, Serving, NEW r \in Runs
      PROVE  /\ status[r] = "waiting-input" <=> waiter[r] = "input"
             /\ \A k \in Calls :
                  approval[r][k] = "pending" <=>
                      /\ waiter[r] = "approval"
                      /\ cur[r] = k
                      /\ status[r] = "waiting-approval"
                      /\ callStatus[r][k] = "awaiting-approval"
    BY DEF PromptsAreAwaited
  <2>1. pc[r] \in AwaitPoints
    BY DEF IInv, TypeOK, Serving, Busy
  <2>2. waiter[r] = "approval" <=> pc[r] = "awaitApproval"
    BY DEF IInv, WaiterOfPlace
  <2>3. waiter[r] = "input" <=> pc[r] = "awaitInput"
    BY DEF IInv, WaiterOfPlace
  <2>4. status[r] = "waiting-input" <=> pc[r] = "awaitInput"
    BY <2>1 DEF AwaitPoints, Serving, IInv, StatusOfPlace, OpenRunStatus, RowsInv,
        RowOfPlace, Working
  <2>5. ASSUME NEW k \in Calls, approval[r][k] = "pending"
        PROVE  pc[r] = "awaitApproval" /\ cur[r] = k
    BY <2>1, <2>5 DEF AwaitPoints, Serving, LedgerInv, PendingOfPlace, Asking
  <2>6. pc[r] = "awaitApproval" => status[r] = "waiting-approval"
    BY DEF RowsInv, RowOfPlace
  <2>7. ASSUME NEW k \in Calls, pc[r] = "awaitApproval", cur[r] = k
        PROVE  callStatus[r][k] = "awaiting-approval" /\ approval[r][k] = "pending"
    BY <2>7 DEF RowsInv, CallOfPlace
  <2>8. QED
    BY <2>2, <2>3, <2>4, <2>5, <2>6, <2>7
<1>2. QED
  BY <1>1, RowsInvariant, PTL

\* Text that was streamed and checkpointed is never lost: clearRunPartial comes
\* behind the message, at the end of a turn and in the catch.
THEOREM CheckpointKept == Spec => CheckpointIsKept
<1>1. ASSUME IInv, RowsInv, [Next]_vars, NEW r \in Runs, partial[r], ~partial'[r]
      PROVE  kept[r]
  <2> HIDE DEF Goto, SetStatus, SetCall, Calls
  <2>1. CASE \E q \in Runs : TurnStored(q) \/ DropCheckpoint(q)
    BY <1>1, <2>1 DEF TurnStored, DropCheckpoint, IInv, TypeOK, RowsInv, TextOfPlace
  <2>2. CASE ~\E q \in Runs : TurnStored(q) \/ DropCheckpoint(q)
    <3>1. ASSUME NEW q \in Runs, TextDelta(q) PROVE FALSE
      BY <1>1, <3>1 DEF TextDelta, IInv, TypeOK
    <3>2. ASSUME NEW q \in Runs, RunStep(q) PROVE partial' = partial
      BY <2>2, <3>2 DEF RunStep, Prepare, Begin, RequestTurn, CreateToolCall,
          AppendAssistantTurn, NextRound, AbandonCalls, RejectCall, AskApproval,
          CreateApproval, AwaitApproval, ApprovalDecided, Denied, BeginTool, ExecuteTool,
          AskInput, AwaitInput, InputAnswered, InputDone, InputAborted, ReportResult,
          Finish, KeepInterruptedText, Conclude, ExpireApprovals, Settle, RunRecovered,
          FinishUncertainCall, SyntheticResult
    <3>3. ASSUME NEW q \in Runs, Answer(q) \/ UserRequest(q) \/ RecoverRun(q) PROVE
        partial' = partial
      BY <3>3 DEF Answer, UserRequest, SecretArrives, StreamFails, TurnEnds,
          ToolReturns, ToolCancelled, StartRun, ProvideRunInput, CancelRun,
          ResolveApproval, RecoverRun
    <3>4. ASSUME HostStep PROVE partial' = partial
      BY <3>4 DEF HostStep, Boot, Ready, Shutdown, Exit, Crash, HostGone
    <3>5. UNCHANGED vars => partial' = partial
      BY DEF vars
    <3>6. QED
      BY <1>1, <3>1, <3>2, <3>3, <3>4, <3>5 DEF Next
  <2>3. QED
    BY <2>1, <2>2
<1>2. ASSUME IInv, RowsInv, [Next]_vars
      PROVE  [\A r \in Runs : partial[r] /\ ~partial'[r] => kept[r]]_partial
  BY <1>1, <1>2
<1>3. QED
  BY <1>2, RowsInvariant, PTL DEF Spec, CheckpointIsKept

------------------------------------------------------------------------------
\* How the calls of a run end.

\* A host that is ready has nothing to recover.
LEMMA RecoveringKept == IInv /\ LedgerInv /\ RowsInv /\ EndInv /\ [Next]_vars =>
    RecoveringOfHost'
<1> SUFFICES ASSUME IInv, LedgerInv, RowsInv, EndInv, [Next]_vars PROVE
    RecoveringOfHost'
  OBVIOUS
<1> USE DEF IInv, TypeOK, PlaceOfHost, EndInv, RecoveringOfHost
<1>1. ASSUME NEW r \in Runs, Prepare(r) PROVE RecoveringOfHost'
  BY <1>1 DEF Prepare
<1>2. ASSUME NEW r \in Runs, Begin(r) PROVE RecoveringOfHost'
  BY <1>2 DEF Begin
<1>3. ASSUME NEW r \in Runs, RequestTurn(r) PROVE RecoveringOfHost'
  BY <1>3 DEF RequestTurn, UnlessAborted
<1>4. ASSUME NEW r \in Runs, NEW knd \in CallKinds, CreateToolCall(r, knd) PROVE
    RecoveringOfHost'
  BY <1>4 DEF CreateToolCall
<1>5. ASSUME NEW r \in Runs, AppendAssistantTurn(r) PROVE RecoveringOfHost'
  BY <1>5 DEF AppendAssistantTurn
<1>6. ASSUME NEW r \in Runs, TurnStored(r) PROVE RecoveringOfHost'
  BY <1>6 DEF TurnStored, AfterTurn
<1>7. ASSUME NEW r \in Runs, NextRound(r) PROVE RecoveringOfHost'
  BY <1>7 DEF NextRound
<1>8. ASSUME NEW r \in Runs, AbandonCalls(r) PROVE RecoveringOfHost'
  BY <1>8 DEF AbandonCalls
<1>9. ASSUME NEW r \in Runs, RejectCall(r) PROVE RecoveringOfHost'
  BY <1>9 DEF RejectCall, AtCall, Kind
<1>10. ASSUME NEW r \in Runs, AskApproval(r) PROVE RecoveringOfHost'
  BY <1>10 DEF AskApproval, AtCall, Kind
<1>11. ASSUME NEW r \in Runs, CreateApproval(r) PROVE RecoveringOfHost'
  BY <1>11 DEF CreateApproval
<1>12. ASSUME NEW r \in Runs, AwaitApproval(r) PROVE RecoveringOfHost'
  BY <1>12 DEF AwaitApproval
<1>13. ASSUME NEW r \in Runs, ApprovalDecided(r) PROVE RecoveringOfHost'
  BY <1>13 DEF ApprovalDecided, Resume
<1>14. ASSUME NEW r \in Runs, Denied(r) PROVE RecoveringOfHost'
  BY <1>14 DEF Denied
<1>15. ASSUME NEW r \in Runs, BeginTool(r) PROVE RecoveringOfHost'
  BY <1>15 DEF BeginTool, Permitted, AtCall, Kind
<1>16. ASSUME NEW r \in Runs, ExecuteTool(r) PROVE RecoveringOfHost'
  BY <1>16 DEF ExecuteTool
<1>17. ASSUME NEW r \in Runs, AskInput(r) PROVE RecoveringOfHost'
  BY <1>17 DEF AskInput, AtCall, Kind
<1>18. ASSUME NEW r \in Runs, AwaitInput(r) PROVE RecoveringOfHost'
  BY <1>18 DEF AwaitInput
<1>19. ASSUME NEW r \in Runs, InputAnswered(r) PROVE RecoveringOfHost'
  BY <1>19 DEF InputAnswered, Resume
<1>20. ASSUME NEW r \in Runs, InputDone(r) PROVE RecoveringOfHost'
  BY <1>20 DEF InputDone
<1>21. ASSUME NEW r \in Runs, InputAborted(r) PROVE RecoveringOfHost'
  BY <1>21 DEF InputAborted
<1>22. ASSUME NEW r \in Runs, ReportResult(r) PROVE RecoveringOfHost'
  BY <1>22 DEF ReportResult
<1>23. ASSUME NEW r \in Runs, Finish(r) PROVE RecoveringOfHost'
  BY <1>23 DEF Finish, UnlessAborted, Aborted
<1>24. ASSUME NEW r \in Runs, KeepInterruptedText(r) PROVE RecoveringOfHost'
  BY <1>24 DEF KeepInterruptedText
<1>25. ASSUME NEW r \in Runs, DropCheckpoint(r) PROVE RecoveringOfHost'
  BY <1>25 DEF DropCheckpoint
<1>26. ASSUME NEW r \in Runs, Conclude(r) PROVE RecoveringOfHost'
  BY <1>26 DEF Conclude, EndStatus
<1>27. ASSUME NEW r \in Runs, ExpireApprovals(r) PROVE RecoveringOfHost'
  BY <1>27 DEF ExpireApprovals, ExpirePending
<1>28. ASSUME NEW r \in Runs, Settle(r) PROVE RecoveringOfHost'
  BY <1>28 DEF Settle, Forget
<1>29. ASSUME NEW r \in Runs, RunRecovered(r) PROVE RecoveringOfHost'
  BY <1>29 DEF RunRecovered, Forget
<1>30. ASSUME NEW r \in Runs, NEW k \in Calls, FinishUncertainCall(r, k) PROVE
    RecoveringOfHost'
  BY <1>30 DEF FinishUncertainCall
<1>31. ASSUME NEW r \in Runs, NEW k \in Calls, SyntheticResult(r, k) PROVE
    RecoveringOfHost'
  BY <1>31 DEF SyntheticResult
<1>32. ASSUME NEW r \in Runs, NEW found \in BOOLEAN, SecretArrives(r, found) PROVE
    RecoveringOfHost'
  BY <1>32 DEF SecretArrives, UnlessAborted
<1>33. ASSUME NEW r \in Runs, StreamFails(r) PROVE RecoveringOfHost'
  BY <1>33 DEF StreamFails
<1>34. ASSUME NEW r \in Runs, TurnEnds(r) PROVE RecoveringOfHost'
  BY <1>34 DEF TurnEnds
<1>35. ASSUME NEW r \in Runs, NEW outcome \in {"succeeded", "failed"}, ToolReturns(r,
    outcome) PROVE RecoveringOfHost'
  BY <1>35 DEF ToolReturns
<1>36. ASSUME NEW r \in Runs, ToolCancelled(r) PROVE RecoveringOfHost'
  BY <1>36 DEF ToolCancelled, UnlessAborted
<1>37. ASSUME NEW r \in Runs, TextDelta(r) PROVE RecoveringOfHost'
  BY <1>37 DEF TextDelta
<1>38. ASSUME NEW r \in Runs, StartRun(r) PROVE RecoveringOfHost'
  BY <1>38 DEF StartRun
<1>39. ASSUME NEW r \in Runs, ProvideRunInput(r) PROVE RecoveringOfHost'
  BY <1>39 DEF ProvideRunInput
<1>40. ASSUME NEW r \in Runs, CancelRun(r) PROVE RecoveringOfHost'
  BY <1>40 DEF CancelRun, AbortRuns
<1>41. ASSUME NEW r \in Runs, NEW k \in Calls, NEW decision \in {"approved",
    "denied"}, ResolveApproval(r, k, decision) PROVE RecoveringOfHost'
  BY <1>41 DEF ResolveApproval
<1>42. ASSUME NEW r \in Runs, RecoverRun(r) PROVE RecoveringOfHost'
  BY <1>42 DEF RecoverRun
<1>43. ASSUME Boot PROVE RecoveringOfHost'
  BY <1>43 DEF Boot, OpenRuns
<1>44. ASSUME Ready PROVE RecoveringOfHost'
  BY <1>44 DEF Ready, ExpirePending
<1>45. ASSUME Shutdown PROVE RecoveringOfHost'
  BY <1>45 DEF Shutdown, AbortRuns
<1>46. ASSUME Exit PROVE RecoveringOfHost'
  BY <1>46 DEF Exit, HostGone, Forget
<1>47. ASSUME Crash PROVE RecoveringOfHost'
  BY <1>47 DEF Crash, HostGone, Forget
<1>48. CASE UNCHANGED vars
  BY <1>48 DEF vars
<1> HIDE DEF IInv, TypeOK, PlaceOfHost, EndInv, RecoveringOfHost
<1>49. QED
  BY <1>1, <1>2, <1>3, <1>4, <1>5, <1>6, <1>7, <1>8, <1>9, <1>10, <1>11, <1>12, <1>13,
      <1>14, <1>15, <1>16, <1>17, <1>18, <1>19, <1>20, <1>21, <1>22, <1>23, <1>24, <1>25,
      <1>26, <1>27, <1>28, <1>29, <1>30, <1>31, <1>32, <1>33, <1>34, <1>35, <1>36, <1>37,
      <1>38, <1>39, <1>40, <1>41, <1>42, <1>43, <1>44, <1>45, <1>46, <1>47, <1>48 DEF
      Next, RunStep, Answer, UserRequest, HostStep
\* A call that runs is the one its run is at.
LEMMA RunningKept == IInv /\ LedgerInv /\ RowsInv /\ EndInv /\ [Next]_vars =>
    RunningOfPlace'
<1> SUFFICES ASSUME IInv, LedgerInv, RowsInv, EndInv, [Next]_vars PROVE RunningOfPlace'
  OBVIOUS
<1> USE RunCoreAssumption DEF IInv, TypeOK, EndInv, RunningOfPlace, Running,
    StatusOfPlace, WaiterOfPlace
<1>1. ASSUME NEW r \in Runs, Prepare(r) PROVE RunningOfPlace'
  BY <1>1 DEF Prepare
<1>2. ASSUME NEW r \in Runs, Begin(r) PROVE RunningOfPlace'
  BY <1>2 DEF Begin
<1>3. ASSUME NEW r \in Runs, RequestTurn(r) PROVE RunningOfPlace'
  BY <1>3 DEF RequestTurn, UnlessAborted
<1>4. ASSUME NEW r \in Runs, NEW knd \in CallKinds, CreateToolCall(r, knd) PROVE
    RunningOfPlace'
  BY <1>4 DEF CreateToolCall
<1>5. ASSUME NEW r \in Runs, AppendAssistantTurn(r) PROVE RunningOfPlace'
  BY <1>5 DEF AppendAssistantTurn
<1>6. ASSUME NEW r \in Runs, TurnStored(r) PROVE RunningOfPlace'
  BY <1>6 DEF TurnStored, AfterTurn
<1>7. ASSUME NEW r \in Runs, NextRound(r) PROVE RunningOfPlace'
  BY <1>7 DEF NextRound
<1>8. ASSUME NEW r \in Runs, AbandonCalls(r) PROVE RunningOfPlace'
  BY <1>8 DEF AbandonCalls
<1>9. ASSUME NEW r \in Runs, RejectCall(r) PROVE RunningOfPlace'
  BY <1>9 DEF RejectCall, AtCall, Kind
<1>10. ASSUME NEW r \in Runs, AskApproval(r) PROVE RunningOfPlace'
  BY <1>10 DEF AskApproval, AtCall, Kind
<1>11. ASSUME NEW r \in Runs, CreateApproval(r) PROVE RunningOfPlace'
  BY <1>11 DEF CreateApproval
<1>12. ASSUME NEW r \in Runs, AwaitApproval(r) PROVE RunningOfPlace'
  BY <1>12 DEF AwaitApproval
<1>13. ASSUME NEW r \in Runs, ApprovalDecided(r) PROVE RunningOfPlace'
  BY <1>13 DEF ApprovalDecided, Resume
<1>14. ASSUME NEW r \in Runs, Denied(r) PROVE RunningOfPlace'
  BY <1>14 DEF Denied
<1>15. ASSUME NEW r \in Runs, BeginTool(r) PROVE RunningOfPlace'
  BY <1>15 DEF BeginTool, Permitted, AtCall, Kind
<1>16. ASSUME NEW r \in Runs, ExecuteTool(r) PROVE RunningOfPlace'
  BY <1>16 DEF ExecuteTool
<1>17. ASSUME NEW r \in Runs, AskInput(r) PROVE RunningOfPlace'
  BY <1>17 DEF AskInput, AtCall, Kind
<1>18. ASSUME NEW r \in Runs, AwaitInput(r) PROVE RunningOfPlace'
  BY <1>18 DEF AwaitInput
<1>19. ASSUME NEW r \in Runs, InputAnswered(r) PROVE RunningOfPlace'
  BY <1>19 DEF InputAnswered, Resume
<1>20. ASSUME NEW r \in Runs, InputDone(r) PROVE RunningOfPlace'
  BY <1>20 DEF InputDone
<1>21. ASSUME NEW r \in Runs, InputAborted(r) PROVE RunningOfPlace'
  BY <1>21 DEF InputAborted
<1>22. ASSUME NEW r \in Runs, ReportResult(r) PROVE RunningOfPlace'
  BY <1>22 DEF ReportResult
<1>23. ASSUME NEW r \in Runs, Finish(r) PROVE RunningOfPlace'
  BY <1>23 DEF Finish, UnlessAborted, Aborted
<1>24. ASSUME NEW r \in Runs, KeepInterruptedText(r) PROVE RunningOfPlace'
  BY <1>24 DEF KeepInterruptedText
<1>25. ASSUME NEW r \in Runs, DropCheckpoint(r) PROVE RunningOfPlace'
  BY <1>25 DEF DropCheckpoint
<1>26. ASSUME NEW r \in Runs, Conclude(r) PROVE RunningOfPlace'
  BY <1>26 DEF Conclude, EndStatus
<1>27. ASSUME NEW r \in Runs, ExpireApprovals(r) PROVE RunningOfPlace'
  BY <1>27 DEF ExpireApprovals, ExpirePending
<1>28. ASSUME NEW r \in Runs, Settle(r) PROVE RunningOfPlace'
  BY <1>28 DEF Settle, Forget
<1>29. ASSUME NEW r \in Runs, RunRecovered(r) PROVE RunningOfPlace'
  BY <1>29 DEF RunRecovered, Forget
<1>30. ASSUME NEW r \in Runs, NEW k \in Calls, FinishUncertainCall(r, k) PROVE
    RunningOfPlace'
  BY <1>30 DEF FinishUncertainCall, UncertainOutcome, Unfinished, UnfinishedCallStatus
<1>31. ASSUME NEW r \in Runs, NEW k \in Calls, SyntheticResult(r, k) PROVE
    RunningOfPlace'
  BY <1>31 DEF SyntheticResult
<1>32. ASSUME NEW r \in Runs, NEW found \in BOOLEAN, SecretArrives(r, found) PROVE
    RunningOfPlace'
  BY <1>32 DEF SecretArrives, UnlessAborted
<1>33. ASSUME NEW r \in Runs, StreamFails(r) PROVE RunningOfPlace'
  BY <1>33 DEF StreamFails
<1>34. ASSUME NEW r \in Runs, TurnEnds(r) PROVE RunningOfPlace'
  BY <1>34 DEF TurnEnds
<1>35. ASSUME NEW r \in Runs, NEW outcome \in {"succeeded", "failed"}, ToolReturns(r,
    outcome) PROVE RunningOfPlace'
  BY <1>35 DEF ToolReturns
<1>36. ASSUME NEW r \in Runs, ToolCancelled(r) PROVE RunningOfPlace'
  BY <1>36 DEF ToolCancelled, UnlessAborted
<1>37. ASSUME NEW r \in Runs, TextDelta(r) PROVE RunningOfPlace'
  BY <1>37 DEF TextDelta
<1>38. ASSUME NEW r \in Runs, StartRun(r) PROVE RunningOfPlace'
  BY <1>38 DEF StartRun, RowsInv, CallOfPlace, Absent
<1>39. ASSUME NEW r \in Runs, ProvideRunInput(r) PROVE RunningOfPlace'
  BY <1>39 DEF ProvideRunInput
<1>40. ASSUME NEW r \in Runs, CancelRun(r) PROVE RunningOfPlace'
  BY <1>40 DEF CancelRun, AbortRuns
<1>41. ASSUME NEW r \in Runs, NEW k \in Calls, NEW decision \in {"approved",
    "denied"}, ResolveApproval(r, k, decision) PROVE RunningOfPlace'
  <2>1. UNCHANGED <<active, callStatus, cur>>
    BY <1>41 DEF ResolveApproval
  <2>2. CASE waiter[r] = "approval" /\ cur[r] = k
    <3>1. pc[r] = "awaitApproval" /\ pc' = [pc EXCEPT ![r] = "decided"]
      BY <1>41, <2>2 DEF ResolveApproval
    <3>2. QED
      BY <2>1, <3>1
  <2>3. CASE ~(waiter[r] = "approval" /\ cur[r] = k)
    BY <1>41, <2>1, <2>3 DEF ResolveApproval
  <2>4. QED
    BY <2>2, <2>3
<1>42. ASSUME NEW r \in Runs, RecoverRun(r) PROVE RunningOfPlace'
  BY <1>42 DEF RecoverRun, PlaceOfHost
<1>43. ASSUME Boot PROVE RunningOfPlace'
  BY <1>43 DEF Boot, OpenRuns
<1>44. ASSUME Ready PROVE RunningOfPlace'
  BY <1>44 DEF Ready, ExpirePending
<1>45. ASSUME Shutdown PROVE RunningOfPlace'
  BY <1>45 DEF Shutdown, AbortRuns
<1>46. ASSUME Exit PROVE RunningOfPlace'
  BY <1>46 DEF Exit, HostGone, Forget
<1>47. ASSUME Crash PROVE RunningOfPlace'
  BY <1>47 DEF Crash, HostGone, Forget
<1>48. CASE UNCHANGED vars
  BY <1>48 DEF vars
<1> HIDE DEF IInv, TypeOK, EndInv, RunningOfPlace, Running, StatusOfPlace, WaiterOfPlace
<1>49. QED
  BY <1>1, <1>2, <1>3, <1>4, <1>5, <1>6, <1>7, <1>8, <1>9, <1>10, <1>11, <1>12, <1>13,
      <1>14, <1>15, <1>16, <1>17, <1>18, <1>19, <1>20, <1>21, <1>22, <1>23, <1>24, <1>25,
      <1>26, <1>27, <1>28, <1>29, <1>30, <1>31, <1>32, <1>33, <1>34, <1>35, <1>36, <1>37,
      <1>38, <1>39, <1>40, <1>41, <1>42, <1>43, <1>44, <1>45, <1>46, <1>47, <1>48 DEF
      Next, RunStep, Answer, UserRequest, HostStep
\* Results follow what they report.
LEMMA ResultKept == IInv /\ LedgerInv /\ RowsInv /\ EndInv /\ [Next]_vars =>
    ResultOfCall'
<1> SUFFICES ASSUME IInv, LedgerInv, RowsInv, EndInv, [Next]_vars PROVE ResultOfCall'
  OBVIOUS
<1> USE RunCoreAssumption DEF IInv, TypeOK, RowsInv, EndInv, ResultOfCall,
    CallOfPlace, CallsOfPlace, StatusOfPlace, WaiterOfPlace, UnfinishedCallStatus, Absent,
    InCalls, Unaborted, BeforeApproval
<1>1. ASSUME NEW r \in Runs, Prepare(r) PROVE ResultOfCall'
  BY <1>1 DEF Prepare
<1>2. ASSUME NEW r \in Runs, Begin(r) PROVE ResultOfCall'
  BY <1>2 DEF Begin
<1>3. ASSUME NEW r \in Runs, RequestTurn(r) PROVE ResultOfCall'
  BY <1>3 DEF RequestTurn, UnlessAborted
<1>4. ASSUME NEW r \in Runs, NEW knd \in CallKinds, CreateToolCall(r, knd) PROVE
    ResultOfCall'
  BY <1>4 DEF CreateToolCall
<1>5. ASSUME NEW r \in Runs, AppendAssistantTurn(r) PROVE ResultOfCall'
  BY <1>5 DEF AppendAssistantTurn
<1>6. ASSUME NEW r \in Runs, TurnStored(r) PROVE ResultOfCall'
  BY <1>6 DEF TurnStored, AfterTurn
<1>7. ASSUME NEW r \in Runs, NextRound(r) PROVE ResultOfCall'
  BY <1>7 DEF NextRound
<1>8. ASSUME NEW r \in Runs, AbandonCalls(r) PROVE ResultOfCall'
  BY <1>8 DEF AbandonCalls
<1>9. ASSUME NEW r \in Runs, RejectCall(r) PROVE ResultOfCall'
  BY <1>9 DEF RejectCall, AtCall, Kind
<1>10. ASSUME NEW r \in Runs, AskApproval(r) PROVE ResultOfCall'
  BY <1>10 DEF AskApproval, AtCall, Kind
<1>11. ASSUME NEW r \in Runs, CreateApproval(r) PROVE ResultOfCall'
  BY <1>11 DEF CreateApproval
<1>12. ASSUME NEW r \in Runs, AwaitApproval(r) PROVE ResultOfCall'
  BY <1>12 DEF AwaitApproval
<1>13. ASSUME NEW r \in Runs, ApprovalDecided(r) PROVE ResultOfCall'
  BY <1>13 DEF ApprovalDecided, Resume
<1>14. ASSUME NEW r \in Runs, Denied(r) PROVE ResultOfCall'
  BY <1>14 DEF Denied
<1>15. ASSUME NEW r \in Runs, BeginTool(r) PROVE ResultOfCall'
  BY <1>15 DEF BeginTool, Permitted, AtCall, Kind
<1>16. ASSUME NEW r \in Runs, ExecuteTool(r) PROVE ResultOfCall'
  BY <1>16 DEF ExecuteTool
<1>17. ASSUME NEW r \in Runs, AskInput(r) PROVE ResultOfCall'
  BY <1>17 DEF AskInput, AtCall, Kind
<1>18. ASSUME NEW r \in Runs, AwaitInput(r) PROVE ResultOfCall'
  BY <1>18 DEF AwaitInput
<1>19. ASSUME NEW r \in Runs, InputAnswered(r) PROVE ResultOfCall'
  BY <1>19 DEF InputAnswered, Resume
<1>20. ASSUME NEW r \in Runs, InputDone(r) PROVE ResultOfCall'
  BY <1>20 DEF InputDone
<1>21. ASSUME NEW r \in Runs, InputAborted(r) PROVE ResultOfCall'
  BY <1>21 DEF InputAborted
<1>22. ASSUME NEW r \in Runs, ReportResult(r) PROVE ResultOfCall'
  BY <1>22, SMTT(30) DEF ReportResult
<1>23. ASSUME NEW r \in Runs, Finish(r) PROVE ResultOfCall'
  BY <1>23 DEF Finish, UnlessAborted, Aborted
<1>24. ASSUME NEW r \in Runs, KeepInterruptedText(r) PROVE ResultOfCall'
  BY <1>24 DEF KeepInterruptedText
<1>25. ASSUME NEW r \in Runs, DropCheckpoint(r) PROVE ResultOfCall'
  BY <1>25 DEF DropCheckpoint
<1>26. ASSUME NEW r \in Runs, Conclude(r) PROVE ResultOfCall'
  BY <1>26 DEF Conclude, EndStatus
<1>27. ASSUME NEW r \in Runs, ExpireApprovals(r) PROVE ResultOfCall'
  BY <1>27 DEF ExpireApprovals, ExpirePending
<1>28. ASSUME NEW r \in Runs, Settle(r) PROVE ResultOfCall'
  BY <1>28 DEF Settle, Forget
<1>29. ASSUME NEW r \in Runs, RunRecovered(r) PROVE ResultOfCall'
  BY <1>29 DEF RunRecovered, Forget
<1>30. ASSUME NEW r \in Runs, NEW k \in Calls, FinishUncertainCall(r, k) PROVE
    ResultOfCall'
  BY <1>30 DEF FinishUncertainCall, UncertainOutcome, Unfinished
<1>31. ASSUME NEW r \in Runs, NEW k \in Calls, SyntheticResult(r, k) PROVE ResultOfCall'
  BY <1>31 DEF SyntheticResult, Unfinished, OwedResults
<1>32. ASSUME NEW r \in Runs, NEW found \in BOOLEAN, SecretArrives(r, found) PROVE
    ResultOfCall'
  BY <1>32 DEF SecretArrives, UnlessAborted
<1>33. ASSUME NEW r \in Runs, StreamFails(r) PROVE ResultOfCall'
  BY <1>33 DEF StreamFails
<1>34. ASSUME NEW r \in Runs, TurnEnds(r) PROVE ResultOfCall'
  BY <1>34 DEF TurnEnds
<1>35. ASSUME NEW r \in Runs, NEW outcome \in {"succeeded", "failed"}, ToolReturns(r,
    outcome) PROVE ResultOfCall'
  BY <1>35 DEF ToolReturns
<1>36. ASSUME NEW r \in Runs, ToolCancelled(r) PROVE ResultOfCall'
  BY <1>36 DEF ToolCancelled, UnlessAborted
<1>37. ASSUME NEW r \in Runs, TextDelta(r) PROVE ResultOfCall'
  BY <1>37 DEF TextDelta
<1>38. ASSUME NEW r \in Runs, StartRun(r) PROVE ResultOfCall'
  BY <1>38 DEF StartRun
<1>39. ASSUME NEW r \in Runs, ProvideRunInput(r) PROVE ResultOfCall'
  BY <1>39 DEF ProvideRunInput
<1>40. ASSUME NEW r \in Runs, CancelRun(r) PROVE ResultOfCall'
  BY <1>40 DEF CancelRun, AbortRuns
<1>41. ASSUME NEW r \in Runs, NEW k \in Calls, NEW decision \in {"approved",
    "denied"}, ResolveApproval(r, k, decision) PROVE ResultOfCall'
  BY <1>41, SMTT(30) DEF ResolveApproval
<1>42. ASSUME NEW r \in Runs, RecoverRun(r) PROVE ResultOfCall'
  BY <1>42 DEF RecoverRun, PlaceOfHost
<1>43. ASSUME Boot PROVE ResultOfCall'
  BY <1>43 DEF Boot, OpenRuns
<1>44. ASSUME Ready PROVE ResultOfCall'
  BY <1>44 DEF Ready, ExpirePending
<1>45. ASSUME Shutdown PROVE ResultOfCall'
  BY <1>45 DEF Shutdown, AbortRuns
<1>46. ASSUME Exit PROVE ResultOfCall'
  BY <1>46 DEF Exit, HostGone, Forget
<1>47. ASSUME Crash PROVE ResultOfCall'
  BY <1>47 DEF Crash, HostGone, Forget
<1>48. CASE UNCHANGED vars
  BY <1>48 DEF vars
<1> HIDE DEF IInv, TypeOK, RowsInv, EndInv, ResultOfCall, CallOfPlace, CallsOfPlace,
    StatusOfPlace, WaiterOfPlace, UnfinishedCallStatus, Absent, InCalls, Unaborted,
    BeforeApproval
<1>49. QED
  BY <1>1, <1>2, <1>3, <1>4, <1>5, <1>6, <1>7, <1>8, <1>9, <1>10, <1>11, <1>12, <1>13,
      <1>14, <1>15, <1>16, <1>17, <1>18, <1>19, <1>20, <1>21, <1>22, <1>23, <1>24, <1>25,
      <1>26, <1>27, <1>28, <1>29, <1>30, <1>31, <1>32, <1>33, <1>34, <1>35, <1>36, <1>37,
      <1>38, <1>39, <1>40, <1>41, <1>42, <1>43, <1>44, <1>45, <1>46, <1>47, <1>48 DEF
      Next, RunStep, Answer, UserRequest, HostStep
\* What was entered is shown as entered.
LEMMA RecordKept == IInv /\ LedgerInv /\ RowsInv /\ EndInv /\ [Next]_vars =>
    ExecutionIsRecorded'
<1> SUFFICES ASSUME IInv, LedgerInv, RowsInv, EndInv, [Next]_vars PROVE
    ExecutionIsRecorded'
  OBVIOUS
<1> USE RunCoreAssumption DEF IInv, TypeOK, RowsInv, EndInv, ExecutionIsRecorded,
    CallOfPlace, CallsOfPlace, BeforeEntry, InCalls, Unaborted
<1>1. ASSUME NEW r \in Runs, Prepare(r) PROVE ExecutionIsRecorded'
  BY <1>1 DEF Prepare
<1>2. ASSUME NEW r \in Runs, Begin(r) PROVE ExecutionIsRecorded'
  BY <1>2 DEF Begin
<1>3. ASSUME NEW r \in Runs, RequestTurn(r) PROVE ExecutionIsRecorded'
  BY <1>3 DEF RequestTurn, UnlessAborted
<1>4. ASSUME NEW r \in Runs, NEW knd \in CallKinds, CreateToolCall(r, knd) PROVE
    ExecutionIsRecorded'
  BY <1>4 DEF CreateToolCall
<1>5. ASSUME NEW r \in Runs, AppendAssistantTurn(r) PROVE ExecutionIsRecorded'
  BY <1>5 DEF AppendAssistantTurn
<1>6. ASSUME NEW r \in Runs, TurnStored(r) PROVE ExecutionIsRecorded'
  BY <1>6 DEF TurnStored, AfterTurn
<1>7. ASSUME NEW r \in Runs, NextRound(r) PROVE ExecutionIsRecorded'
  BY <1>7 DEF NextRound
<1>8. ASSUME NEW r \in Runs, AbandonCalls(r) PROVE ExecutionIsRecorded'
  BY <1>8 DEF AbandonCalls
<1>9. ASSUME NEW r \in Runs, RejectCall(r) PROVE ExecutionIsRecorded'
  BY <1>9 DEF RejectCall, AtCall, Kind
<1>10. ASSUME NEW r \in Runs, AskApproval(r) PROVE ExecutionIsRecorded'
  BY <1>10 DEF AskApproval, AtCall, Kind
<1>11. ASSUME NEW r \in Runs, CreateApproval(r) PROVE ExecutionIsRecorded'
  BY <1>11 DEF CreateApproval
<1>12. ASSUME NEW r \in Runs, AwaitApproval(r) PROVE ExecutionIsRecorded'
  BY <1>12 DEF AwaitApproval
<1>13. ASSUME NEW r \in Runs, ApprovalDecided(r) PROVE ExecutionIsRecorded'
  BY <1>13 DEF ApprovalDecided, Resume
<1>14. ASSUME NEW r \in Runs, Denied(r) PROVE ExecutionIsRecorded'
  BY <1>14 DEF Denied
<1>15. ASSUME NEW r \in Runs, BeginTool(r) PROVE ExecutionIsRecorded'
  BY <1>15 DEF BeginTool, Permitted, AtCall, Kind
<1>16. ASSUME NEW r \in Runs, ExecuteTool(r) PROVE ExecutionIsRecorded'
  <2>1. cur[r] \in Calls
    BY <1>16 DEF ExecuteTool
  <2>2. callStatus[r][cur[r]] = "running"
    BY <1>16, <2>1 DEF ExecuteTool
  <2>3. callStatus' = callStatus /\ executed' = [executed EXCEPT ![r] = executed[r]
      \cup {cur[r]}]
    BY <1>16 DEF ExecuteTool
  <2>4. QED
    BY <2>2, <2>3
<1>17. ASSUME NEW r \in Runs, AskInput(r) PROVE ExecutionIsRecorded'
  BY <1>17 DEF AskInput, AtCall, Kind
<1>18. ASSUME NEW r \in Runs, AwaitInput(r) PROVE ExecutionIsRecorded'
  BY <1>18 DEF AwaitInput
<1>19. ASSUME NEW r \in Runs, InputAnswered(r) PROVE ExecutionIsRecorded'
  BY <1>19 DEF InputAnswered, Resume
<1>20. ASSUME NEW r \in Runs, InputDone(r) PROVE ExecutionIsRecorded'
  BY <1>20 DEF InputDone
<1>21. ASSUME NEW r \in Runs, InputAborted(r) PROVE ExecutionIsRecorded'
  BY <1>21 DEF InputAborted
<1>22. ASSUME NEW r \in Runs, ReportResult(r) PROVE ExecutionIsRecorded'
  BY <1>22 DEF ReportResult
<1>23. ASSUME NEW r \in Runs, Finish(r) PROVE ExecutionIsRecorded'
  BY <1>23 DEF Finish, UnlessAborted, Aborted
<1>24. ASSUME NEW r \in Runs, KeepInterruptedText(r) PROVE ExecutionIsRecorded'
  BY <1>24 DEF KeepInterruptedText
<1>25. ASSUME NEW r \in Runs, DropCheckpoint(r) PROVE ExecutionIsRecorded'
  BY <1>25 DEF DropCheckpoint
<1>26. ASSUME NEW r \in Runs, Conclude(r) PROVE ExecutionIsRecorded'
  BY <1>26 DEF Conclude, EndStatus
<1>27. ASSUME NEW r \in Runs, ExpireApprovals(r) PROVE ExecutionIsRecorded'
  BY <1>27 DEF ExpireApprovals, ExpirePending
<1>28. ASSUME NEW r \in Runs, Settle(r) PROVE ExecutionIsRecorded'
  BY <1>28 DEF Settle, Forget
<1>29. ASSUME NEW r \in Runs, RunRecovered(r) PROVE ExecutionIsRecorded'
  BY <1>29 DEF RunRecovered, Forget
<1>30. ASSUME NEW r \in Runs, NEW k \in Calls, FinishUncertainCall(r, k) PROVE
    ExecutionIsRecorded'
  BY <1>30 DEF FinishUncertainCall, UncertainOutcome, Unfinished, UnfinishedCallStatus
<1>31. ASSUME NEW r \in Runs, NEW k \in Calls, SyntheticResult(r, k) PROVE
    ExecutionIsRecorded'
  BY <1>31 DEF SyntheticResult
<1>32. ASSUME NEW r \in Runs, NEW found \in BOOLEAN, SecretArrives(r, found) PROVE
    ExecutionIsRecorded'
  BY <1>32 DEF SecretArrives, UnlessAborted
<1>33. ASSUME NEW r \in Runs, StreamFails(r) PROVE ExecutionIsRecorded'
  BY <1>33 DEF StreamFails
<1>34. ASSUME NEW r \in Runs, TurnEnds(r) PROVE ExecutionIsRecorded'
  BY <1>34 DEF TurnEnds
<1>35. ASSUME NEW r \in Runs, NEW outcome \in {"succeeded", "failed"}, ToolReturns(r,
    outcome) PROVE ExecutionIsRecorded'
  BY <1>35 DEF ToolReturns
<1>36. ASSUME NEW r \in Runs, ToolCancelled(r) PROVE ExecutionIsRecorded'
  BY <1>36 DEF ToolCancelled, UnlessAborted
<1>37. ASSUME NEW r \in Runs, TextDelta(r) PROVE ExecutionIsRecorded'
  BY <1>37 DEF TextDelta
<1>38. ASSUME NEW r \in Runs, StartRun(r) PROVE ExecutionIsRecorded'
  BY <1>38 DEF StartRun
<1>39. ASSUME NEW r \in Runs, ProvideRunInput(r) PROVE ExecutionIsRecorded'
  BY <1>39 DEF ProvideRunInput
<1>40. ASSUME NEW r \in Runs, CancelRun(r) PROVE ExecutionIsRecorded'
  BY <1>40 DEF CancelRun, AbortRuns
<1>41. ASSUME NEW r \in Runs, NEW k \in Calls, NEW decision \in {"approved",
    "denied"}, ResolveApproval(r, k, decision) PROVE ExecutionIsRecorded'
  BY <1>41 DEF ResolveApproval
<1>42. ASSUME NEW r \in Runs, RecoverRun(r) PROVE ExecutionIsRecorded'
  BY <1>42 DEF RecoverRun
<1>43. ASSUME Boot PROVE ExecutionIsRecorded'
  BY <1>43 DEF Boot, OpenRuns
<1>44. ASSUME Ready PROVE ExecutionIsRecorded'
  BY <1>44 DEF Ready, ExpirePending
<1>45. ASSUME Shutdown PROVE ExecutionIsRecorded'
  BY <1>45 DEF Shutdown, AbortRuns
<1>46. ASSUME Exit PROVE ExecutionIsRecorded'
  BY <1>46 DEF Exit, HostGone, Forget
<1>47. ASSUME Crash PROVE ExecutionIsRecorded'
  BY <1>47 DEF Crash, HostGone, Forget
<1>48. CASE UNCHANGED vars
  BY <1>48 DEF vars
<1> HIDE DEF IInv, TypeOK, RowsInv, EndInv, ExecutionIsRecorded, CallOfPlace,
    CallsOfPlace, BeforeEntry, InCalls, Unaborted
<1>49. QED
  BY <1>1, <1>2, <1>3, <1>4, <1>5, <1>6, <1>7, <1>8, <1>9, <1>10, <1>11, <1>12, <1>13,
      <1>14, <1>15, <1>16, <1>17, <1>18, <1>19, <1>20, <1>21, <1>22, <1>23, <1>24, <1>25,
      <1>26, <1>27, <1>28, <1>29, <1>30, <1>31, <1>32, <1>33, <1>34, <1>35, <1>36, <1>37,
      <1>38, <1>39, <1>40, <1>41, <1>42, <1>43, <1>44, <1>45, <1>46, <1>47, <1>48 DEF
      Next, RunStep, Answer, UserRequest, HostStep
LEMMA EndInvariant == Spec => [](IInv /\ LedgerInv /\ RowsInv /\ EndInv)
<1>1. Init => EndInv
  BY DEF Init, EndInv, RecoveringOfHost, RunningOfPlace, ResultOfCall,
      ExecutionIsRecorded, UnfinishedCallStatus, Absent
<1>2. IInv /\ LedgerInv /\ RowsInv /\ EndInv /\ [Next]_vars => EndInv'
  BY RecoveringKept, RunningKept, ResultKept, RecordKept DEF EndInv
<1>3. QED
  BY <1>1, <1>2, RowsInvariant, PTL DEF Spec

------------------------------------------------------------------------------
(* Hosts that die between handlers only.                                   *)
\* A run settles with its calls closed.
LEMMA ClosedKept ==
  ASSUME CrashPoints \subseteq {"await"}, IInv, LedgerInv, RowsInv, EndInv,
      SettledInv, [Next]_vars
  PROVE  ClosedRuns'
<1> USE DEF IInv, TypeOK, RowsInv, EndInv, SettledInv, ClosedRuns, StatusOfPlace,
    PlaceOfHost, RecoveringOfHost, Unfinished, UnfinishedCallStatus
<1>1. ASSUME NEW r \in Runs, Prepare(r) PROVE ClosedRuns'
  BY <1>1 DEF Prepare
<1>2. ASSUME NEW r \in Runs, Begin(r) PROVE ClosedRuns'
  BY <1>2 DEF Begin
<1>3. ASSUME NEW r \in Runs, RequestTurn(r) PROVE ClosedRuns'
  BY <1>3 DEF RequestTurn, UnlessAborted
<1>4. ASSUME NEW r \in Runs, NEW knd \in CallKinds, CreateToolCall(r, knd) PROVE
    ClosedRuns'
  BY <1>4 DEF CreateToolCall
<1>5. ASSUME NEW r \in Runs, AppendAssistantTurn(r) PROVE ClosedRuns'
  BY <1>5 DEF AppendAssistantTurn
<1>6. ASSUME NEW r \in Runs, TurnStored(r) PROVE ClosedRuns'
  BY <1>6 DEF TurnStored, AfterTurn
<1>7. ASSUME NEW r \in Runs, NextRound(r) PROVE ClosedRuns'
  BY <1>7 DEF NextRound
<1>8. ASSUME NEW r \in Runs, AbandonCalls(r) PROVE ClosedRuns'
  BY <1>8 DEF AbandonCalls
<1>9. ASSUME NEW r \in Runs, RejectCall(r) PROVE ClosedRuns'
  BY <1>9 DEF RejectCall, AtCall, Kind
<1>10. ASSUME NEW r \in Runs, AskApproval(r) PROVE ClosedRuns'
  BY <1>10 DEF AskApproval, AtCall, Kind
<1>11. ASSUME NEW r \in Runs, CreateApproval(r) PROVE ClosedRuns'
  BY <1>11 DEF CreateApproval
<1>12. ASSUME NEW r \in Runs, AwaitApproval(r) PROVE ClosedRuns'
  BY <1>12 DEF AwaitApproval
<1>13. ASSUME NEW r \in Runs, ApprovalDecided(r) PROVE ClosedRuns'
  BY <1>13 DEF ApprovalDecided, Resume
<1>14. ASSUME NEW r \in Runs, Denied(r) PROVE ClosedRuns'
  BY <1>14 DEF Denied
<1>15. ASSUME NEW r \in Runs, BeginTool(r) PROVE ClosedRuns'
  BY <1>15 DEF BeginTool, Permitted, AtCall, Kind
<1>16. ASSUME NEW r \in Runs, ExecuteTool(r) PROVE ClosedRuns'
  BY <1>16 DEF ExecuteTool
<1>17. ASSUME NEW r \in Runs, AskInput(r) PROVE ClosedRuns'
  BY <1>17 DEF AskInput, AtCall, Kind
<1>18. ASSUME NEW r \in Runs, AwaitInput(r) PROVE ClosedRuns'
  BY <1>18 DEF AwaitInput
<1>19. ASSUME NEW r \in Runs, InputAnswered(r) PROVE ClosedRuns'
  BY <1>19 DEF InputAnswered, Resume
<1>20. ASSUME NEW r \in Runs, InputDone(r) PROVE ClosedRuns'
  BY <1>20 DEF InputDone
<1>21. ASSUME NEW r \in Runs, InputAborted(r) PROVE ClosedRuns'
  BY <1>21 DEF InputAborted
<1>22. ASSUME NEW r \in Runs, ReportResult(r) PROVE ClosedRuns'
  BY <1>22 DEF ReportResult
<1>23. ASSUME NEW r \in Runs, Finish(r) PROVE ClosedRuns'
  BY <1>23 DEF Finish, UnlessAborted, Aborted
<1>24. ASSUME NEW r \in Runs, KeepInterruptedText(r) PROVE ClosedRuns'
  BY <1>24 DEF KeepInterruptedText
<1>25. ASSUME NEW r \in Runs, DropCheckpoint(r) PROVE ClosedRuns'
  BY <1>25 DEF DropCheckpoint
<1>26. ASSUME NEW r \in Runs, Conclude(r) PROVE ClosedRuns'
  BY <1>26 DEF Conclude, EndStatus
<1>27. ASSUME NEW r \in Runs, ExpireApprovals(r) PROVE ClosedRuns'
  BY <1>27 DEF ExpireApprovals, ExpirePending
<1>28. ASSUME NEW r \in Runs, Settle(r) PROVE ClosedRuns'
  BY <1>28 DEF Settle, Forget, CallsClosed
<1>29. ASSUME NEW r \in Runs, RunRecovered(r) PROVE ClosedRuns'
  BY <1>29 DEF RunRecovered, Forget, CallsClosed
<1>30. ASSUME NEW r \in Runs, NEW k \in Calls, FinishUncertainCall(r, k) PROVE
    ClosedRuns'
  BY <1>30 DEF FinishUncertainCall
<1>31. ASSUME NEW r \in Runs, NEW k \in Calls, SyntheticResult(r, k) PROVE ClosedRuns'
  BY <1>31 DEF SyntheticResult
<1>32. ASSUME NEW r \in Runs, NEW found \in BOOLEAN, SecretArrives(r, found) PROVE
    ClosedRuns'
  BY <1>32 DEF SecretArrives, UnlessAborted
<1>33. ASSUME NEW r \in Runs, StreamFails(r) PROVE ClosedRuns'
  BY <1>33 DEF StreamFails
<1>34. ASSUME NEW r \in Runs, TurnEnds(r) PROVE ClosedRuns'
  BY <1>34 DEF TurnEnds
<1>35. ASSUME NEW r \in Runs, NEW outcome \in {"succeeded", "failed"}, ToolReturns(r,
    outcome) PROVE ClosedRuns'
  BY <1>35 DEF ToolReturns
<1>36. ASSUME NEW r \in Runs, ToolCancelled(r) PROVE ClosedRuns'
  BY <1>36 DEF ToolCancelled, UnlessAborted
<1>37. ASSUME NEW r \in Runs, TextDelta(r) PROVE ClosedRuns'
  BY <1>37 DEF TextDelta
<1>38. ASSUME NEW r \in Runs, StartRun(r) PROVE ClosedRuns'
  BY <1>38 DEF StartRun, TerminalRunStatus
<1>39. ASSUME NEW r \in Runs, ProvideRunInput(r) PROVE ClosedRuns'
  BY <1>39 DEF ProvideRunInput
<1>40. ASSUME NEW r \in Runs, CancelRun(r) PROVE ClosedRuns'
  BY <1>40 DEF CancelRun, AbortRuns
<1>41. ASSUME NEW r \in Runs, NEW k \in Calls, NEW decision \in {"approved",
    "denied"}, ResolveApproval(r, k, decision) PROVE ClosedRuns'
  BY <1>41 DEF ResolveApproval
<1>42. ASSUME NEW r \in Runs, RecoverRun(r) PROVE ClosedRuns'
  BY <1>42 DEF RecoverRun
<1>43. ASSUME Boot PROVE ClosedRuns'
  BY <1>43 DEF Boot, OpenRuns, OpenRunStatus, TerminalRunStatus
<1>44. ASSUME Ready PROVE ClosedRuns'
  BY <1>44 DEF Ready, ExpirePending
<1>45. ASSUME Shutdown PROVE ClosedRuns'
  BY <1>45 DEF Shutdown, AbortRuns
<1>46. ASSUME Exit PROVE ClosedRuns'
  <2>1. host = "closing" /\ ~Busy
    BY <1>46 DEF Exit
  <2>2. recovering = {}
    BY <2>1
  <2>3. \A r \in Runs : status[r] \in TerminalRunStatus => pc[r] = "none"
    <3>1. \A r \in Runs : pc[r] \in AwaitPoints
      BY <2>1 DEF Busy
    <3>2. QED
      BY <3>1 DEF AwaitPoints, Epilogue, OpenRunStatus, TerminalRunStatus
  <2>4. UNCHANGED <<status, callStatus>>
    BY <1>46 DEF Exit, HostGone
  <2>5. QED
    BY <2>2, <2>3, <2>4
<1>47. ASSUME Crash PROVE ClosedRuns'
  <2>1. host # "recovering" /\ ~Busy
    BY <1>47 DEF Crash, CrashPoint
  <2>2. recovering = {}
    BY <2>1
  <2>3. \A r \in Runs : status[r] \in TerminalRunStatus => pc[r] = "none"
    <3>1. \A r \in Runs : pc[r] \in AwaitPoints
      BY <2>1 DEF Busy
    <3>2. QED
      BY <3>1 DEF AwaitPoints, Epilogue, OpenRunStatus, TerminalRunStatus
  <2>4. UNCHANGED <<status, callStatus>>
    BY <1>47 DEF Crash, HostGone
  <2>5. QED
    BY <2>2, <2>3, <2>4
<1>48. CASE UNCHANGED vars
  BY <1>48 DEF vars
<1> HIDE DEF IInv, TypeOK, RowsInv, EndInv, SettledInv, ClosedRuns, StatusOfPlace,
    PlaceOfHost, RecoveringOfHost, Unfinished, UnfinishedCallStatus
<1>49. QED
  BY <1>1, <1>2, <1>3, <1>4, <1>5, <1>6, <1>7, <1>8, <1>9, <1>10, <1>11, <1>12, <1>13,
      <1>14, <1>15, <1>16, <1>17, <1>18, <1>19, <1>20, <1>21, <1>22, <1>23, <1>24, <1>25,
      <1>26, <1>27, <1>28, <1>29, <1>30, <1>31, <1>32, <1>33, <1>34, <1>35, <1>36, <1>37,
      <1>38, <1>39, <1>40, <1>41, <1>42, <1>43, <1>44, <1>45, <1>46, <1>47, <1>48 DEF
      Next, RunStep, Answer, UserRequest, HostStep
\* What a call did is told before its run settles or is recovered.
LEMMA ReportedKept ==
  ASSUME CrashPoints \subseteq {"await"}, IInv, LedgerInv, RowsInv, EndInv,
      SettledInv, [Next]_vars
  PROVE  ReportedCalls'
<1> USE RunCoreAssumption DEF IInv, TypeOK, RowsInv, EndInv, SettledInv,
    ReportedCalls, ResultOfCall, CallsOfPlace, CallOfPlace, StatusOfPlace, PlaceOfHost,
    WaiterOfPlace, InCalls, Unaborted, Absent, UnfinishedCallStatus
<1>1. ASSUME NEW r \in Runs, Prepare(r) PROVE ReportedCalls'
  BY <1>1 DEF Prepare
<1>2. ASSUME NEW r \in Runs, Begin(r) PROVE ReportedCalls'
  BY <1>2 DEF Begin
<1>3. ASSUME NEW r \in Runs, RequestTurn(r) PROVE ReportedCalls'
  BY <1>3 DEF RequestTurn, UnlessAborted
<1>4. ASSUME NEW r \in Runs, NEW knd \in CallKinds, CreateToolCall(r, knd) PROVE
    ReportedCalls'
  BY <1>4 DEF CreateToolCall
<1>5. ASSUME NEW r \in Runs, AppendAssistantTurn(r) PROVE ReportedCalls'
  BY <1>5 DEF AppendAssistantTurn
<1>6. ASSUME NEW r \in Runs, TurnStored(r) PROVE ReportedCalls'
  BY <1>6 DEF TurnStored, AfterTurn
<1>7. ASSUME NEW r \in Runs, NextRound(r) PROVE ReportedCalls'
  BY <1>7 DEF NextRound
<1>8. ASSUME NEW r \in Runs, AbandonCalls(r) PROVE ReportedCalls'
  BY <1>8 DEF AbandonCalls
<1>9. ASSUME NEW r \in Runs, RejectCall(r) PROVE ReportedCalls'
  BY <1>9 DEF RejectCall, AtCall, Kind
<1>10. ASSUME NEW r \in Runs, AskApproval(r) PROVE ReportedCalls'
  BY <1>10, SMTT(30) DEF AskApproval, AtCall, Kind
<1>11. ASSUME NEW r \in Runs, CreateApproval(r) PROVE ReportedCalls'
  BY <1>11 DEF CreateApproval
<1>12. ASSUME NEW r \in Runs, AwaitApproval(r) PROVE ReportedCalls'
  BY <1>12 DEF AwaitApproval
<1>13. ASSUME NEW r \in Runs, ApprovalDecided(r) PROVE ReportedCalls'
  BY <1>13 DEF ApprovalDecided, Resume
<1>14. ASSUME NEW r \in Runs, Denied(r) PROVE ReportedCalls'
  BY <1>14 DEF Denied
<1>15. ASSUME NEW r \in Runs, BeginTool(r) PROVE ReportedCalls'
  BY <1>15 DEF BeginTool, Permitted, AtCall, Kind
<1>16. ASSUME NEW r \in Runs, ExecuteTool(r) PROVE ReportedCalls'
  BY <1>16 DEF ExecuteTool
<1>17. ASSUME NEW r \in Runs, AskInput(r) PROVE ReportedCalls'
  BY <1>17 DEF AskInput, AtCall, Kind
<1>18. ASSUME NEW r \in Runs, AwaitInput(r) PROVE ReportedCalls'
  BY <1>18 DEF AwaitInput
<1>19. ASSUME NEW r \in Runs, InputAnswered(r) PROVE ReportedCalls'
  BY <1>19 DEF InputAnswered, Resume
<1>20. ASSUME NEW r \in Runs, InputDone(r) PROVE ReportedCalls'
  BY <1>20 DEF InputDone
<1>21. ASSUME NEW r \in Runs, InputAborted(r) PROVE ReportedCalls'
  BY <1>21 DEF InputAborted
<1>22. ASSUME NEW r \in Runs, ReportResult(r) PROVE ReportedCalls'
  <2>1. cur[r] \in Calls
    BY <1>22 DEF ReportResult
  <2>2. /\ callStatus' = callStatus /\ finished' = finished
        /\ result' = [result EXCEPT ![r][cur[r]] = "actual"]
        /\ pc[r] = "report" /\ pc' = [pc EXCEPT ![r] = "call"]
        /\ \A q \in Runs \ {r} : cur'[q] = cur[q]
    BY <1>22 DEF ReportResult
  <2>3. result'[r][cur[r]] = "actual"
    BY <2>1, <2>2
  <2>4. callStatus[r][cur[r]] # "effect_unknown"
    BY <2>1, <2>2
  <2>5. \A k \in Calls \ {cur[r]} : result'[r][k] = result[r][k]
    BY <2>2
  <2>6. \A q \in Runs \ {r} : result'[q] = result[q] /\ pc'[q] = pc[q]
    BY <2>2
  <2>7. QED
    BY <2>2, <2>3, <2>4, <2>5, <2>6
<1>23. ASSUME NEW r \in Runs, Finish(r) PROVE ReportedCalls'
  BY <1>23 DEF Finish, UnlessAborted, Aborted
<1>24. ASSUME NEW r \in Runs, KeepInterruptedText(r) PROVE ReportedCalls'
  BY <1>24 DEF KeepInterruptedText
<1>25. ASSUME NEW r \in Runs, DropCheckpoint(r) PROVE ReportedCalls'
  BY <1>25 DEF DropCheckpoint
<1>26. ASSUME NEW r \in Runs, Conclude(r) PROVE ReportedCalls'
  BY <1>26 DEF Conclude, EndStatus
<1>27. ASSUME NEW r \in Runs, ExpireApprovals(r) PROVE ReportedCalls'
  BY <1>27 DEF ExpireApprovals, ExpirePending
<1>28. ASSUME NEW r \in Runs, Settle(r) PROVE ReportedCalls'
  BY <1>28 DEF Settle, Forget, CallsClosed, OwedResults
<1>29. ASSUME NEW r \in Runs, RunRecovered(r) PROVE ReportedCalls'
  BY <1>29 DEF RunRecovered, Forget, CallsClosed, OwedResults
<1>30. ASSUME NEW r \in Runs, NEW k \in Calls, FinishUncertainCall(r, k) PROVE
    ReportedCalls'
  <2>1. callStatus' = [callStatus EXCEPT ![r][k] = UncertainOutcome(callStatus[r][k])]
    BY <1>30 DEF FinishUncertainCall
  <2>2. UNCHANGED <<result, pc, cur>> /\ finished' = [finished EXCEPT ![r] =
      finished[r] \cup {k}]
    BY <1>30 DEF FinishUncertainCall
  <2>3. pc[r] \in {"finalize", "recover"} /\ callStatus[r][k] \in UnfinishedCallStatus
    BY <1>30 DEF FinishUncertainCall, Unfinished
  <2>4. callStatus[r][k] = "running" => pc[r] = "recover"
    BY <2>3 DEF RunningOfPlace, Running
  <2>5. result[r][k] = Absent
    BY <2>3
  <2>6. callStatus'[r][k] = UncertainOutcome(callStatus[r][k])
    BY <2>1
  <2>7. CASE callStatus[r][k] = "running"
    <3>1. callStatus'[r][k] = "effect_unknown" /\ pc[r] = "recover" /\ k \in
        finished'[r]
      BY <2>2, <2>4, <2>6, <2>7 DEF UncertainOutcome
    <3>2. QED
      BY <2>1, <2>2, <2>5, <3>1
  <2>8. CASE callStatus[r][k] # "running"
    <3>1. callStatus'[r][k] = "cancelled"
      BY <2>6, <2>8 DEF UncertainOutcome
    <3>2. QED
      BY <2>1, <2>2, <3>1, SMTT(30)
  <2>9. QED
    BY <2>7, <2>8
<1>31. ASSUME NEW r \in Runs, NEW k \in Calls, SyntheticResult(r, k) PROVE
    ReportedCalls'
  BY <1>31 DEF SyntheticResult, Unfinished, OwedResults
<1>32. ASSUME NEW r \in Runs, NEW found \in BOOLEAN, SecretArrives(r, found) PROVE
    ReportedCalls'
  BY <1>32 DEF SecretArrives, UnlessAborted
<1>33. ASSUME NEW r \in Runs, StreamFails(r) PROVE ReportedCalls'
  BY <1>33 DEF StreamFails
<1>34. ASSUME NEW r \in Runs, TurnEnds(r) PROVE ReportedCalls'
  BY <1>34 DEF TurnEnds
<1>35. ASSUME NEW r \in Runs, NEW outcome \in {"succeeded", "failed"}, ToolReturns(r,
    outcome) PROVE ReportedCalls'
  BY <1>35 DEF ToolReturns
<1>36. ASSUME NEW r \in Runs, ToolCancelled(r) PROVE ReportedCalls'
  BY <1>36 DEF ToolCancelled, UnlessAborted
<1>37. ASSUME NEW r \in Runs, TextDelta(r) PROVE ReportedCalls'
  BY <1>37 DEF TextDelta
<1>38. ASSUME NEW r \in Runs, StartRun(r) PROVE ReportedCalls'
  BY <1>38 DEF StartRun
<1>39. ASSUME NEW r \in Runs, ProvideRunInput(r) PROVE ReportedCalls'
  BY <1>39 DEF ProvideRunInput
<1>40. ASSUME NEW r \in Runs, CancelRun(r) PROVE ReportedCalls'
  BY <1>40 DEF CancelRun, AbortRuns
<1>41. ASSUME NEW r \in Runs, NEW k \in Calls, NEW decision \in {"approved",
    "denied"}, ResolveApproval(r, k, decision) PROVE ReportedCalls'
  BY <1>41 DEF ResolveApproval
<1>42. ASSUME NEW r \in Runs, RecoverRun(r) PROVE ReportedCalls'
  BY <1>42 DEF RecoverRun
<1>43. ASSUME Boot PROVE ReportedCalls'
  BY <1>43 DEF Boot, OpenRuns
<1>44. ASSUME Ready PROVE ReportedCalls'
  BY <1>44 DEF Ready, ExpirePending
<1>45. ASSUME Shutdown PROVE ReportedCalls'
  BY <1>45 DEF Shutdown, AbortRuns
<1>46. ASSUME Exit PROVE ReportedCalls'
  BY <1>46 DEF Exit, HostGone, Forget, Busy, SyncPoints
<1>47. ASSUME Crash PROVE ReportedCalls'
  BY <1>47 DEF Crash, HostGone, Forget, CrashPoint, Busy, SyncPoints
<1>48. CASE UNCHANGED vars
  BY <1>48 DEF vars
<1> HIDE DEF IInv, TypeOK, RowsInv, EndInv, SettledInv, ReportedCalls, ResultOfCall,
    CallsOfPlace, CallOfPlace, StatusOfPlace, PlaceOfHost, WaiterOfPlace, InCalls,
    Unaborted, Absent, UnfinishedCallStatus
<1>49. QED
  BY <1>1, <1>2, <1>3, <1>4, <1>5, <1>6, <1>7, <1>8, <1>9, <1>10, <1>11, <1>12, <1>13,
      <1>14, <1>15, <1>16, <1>17, <1>18, <1>19, <1>20, <1>21, <1>22, <1>23, <1>24, <1>25,
      <1>26, <1>27, <1>28, <1>29, <1>30, <1>31, <1>32, <1>33, <1>34, <1>35, <1>36, <1>37,
      <1>38, <1>39, <1>40, <1>41, <1>42, <1>43, <1>44, <1>45, <1>46, <1>47, <1>48 DEF
      Next, RunStep, Answer, UserRequest, HostStep
LEMMA SettledInvariant ==
  ASSUME CrashPoints \subseteq {"await"}
  PROVE  Spec => [](IInv /\ LedgerInv /\ RowsInv /\ EndInv /\ SettledInv)
<1>1. Init => SettledInv
  BY DEF Init, SettledInv, ClosedRuns, ReportedCalls, Unfinished,
      UnfinishedCallStatus, Absent
<1>2. IInv /\ LedgerInv /\ RowsInv /\ EndInv /\ SettledInv /\ [Next]_vars => SettledInv'
  BY ClosedKept, ReportedKept DEF SettledInv
<1>3. QED
  BY <1>1, <1>2, EndInvariant, PTL DEF Spec

------------------------------------------------------------------------------
(* What follows.                                                           *)

\* A call whose tool was entered is never shown as if it had not been, whatever
\* dies when.
THEOREM ExecutionsRecorded == Spec => []ExecutionIsRecorded
<1>1. EndInv => ExecutionIsRecorded
  BY DEF EndInv
<1>2. QED
  BY <1>1, EndInvariant, PTL

\* If hosts die between handlers only, the open runs of a serving host are those
\* it executes, and no other run has an open call.
THEOREM RowsAreClosed == CrashPoints \subseteq {"await"} => (Spec =>
    []OpenRunsAreExecuted)
<1> SUFFICES ASSUME CrashPoints \subseteq {"await"} PROVE Spec => []OpenRunsAreExecuted
  OBVIOUS
<1>1. IInv /\ LedgerInv /\ RowsInv /\ EndInv /\ SettledInv => OpenRunsAreExecuted
  <2> SUFFICES ASSUME IInv, RowsInv, EndInv, SettledInv, Serving
               PROVE  OpenRuns = active /\ \A r \in Runs \ active : Unfinished(r) = {}
    BY DEF OpenRunsAreExecuted
  <2>1. \A r \in Runs : pc[r] \in AwaitPoints
    BY DEF Serving, Busy, IInv, TypeOK
  <2>2. \A r \in Runs : r \in active <=> pc[r] # "none"
    BY <2>1 DEF IInv, StatusOfPlace, AwaitPoints
  <2>3. \A r \in Runs : r \in active <=> status[r] \in OpenRunStatus
    BY <2>1, <2>2 DEF IInv, StatusOfPlace, AwaitPoints, Epilogue, Serving
  <2>4. OpenRuns = active
    BY <2>3 DEF OpenRuns, IInv, TypeOK
  <2>5. ASSUME NEW r \in Runs \ active PROVE Unfinished(r) = {}
    <3>1. pc[r] = "none" /\ status[r] \in TerminalRunStatus \cup {Absent}
      BY <2>2, <2>3 DEF IInv, TypeOK, RunStatus, OpenRunStatus, TerminalRunStatus
    <3>2. CASE status[r] = Absent
      BY <3>2 DEF RowsInv, CallOfPlace, Unfinished, UnfinishedCallStatus, Absent
    <3>3. CASE status[r] \in TerminalRunStatus
      BY <3>1, <3>3 DEF SettledInv, ClosedRuns, EndInv, RecoveringOfHost, Serving
    <3>4. QED
      BY <3>1, <3>2, <3>3
  <2>6. QED
    BY <2>4, <2>5
<1>2. QED
  BY <1>1, SettledInvariant, PTL

\* If hosts die between handlers only, every settled call has the result that
\* tells its effect; that no entry is hidden holds without that.
THEOREM EffectsReported == CrashPoints \subseteq {"await"} => (Spec =>
    []EffectsAreReported)
<1> SUFFICES ASSUME CrashPoints \subseteq {"await"} PROVE Spec => []EffectsAreReported
  OBVIOUS
<1>1. IInv /\ LedgerInv /\ RowsInv /\ EndInv /\ SettledInv => EffectsAreReported
  <2> SUFFICES ASSUME IInv, EndInv, SettledInv
               PROVE  EffectsAreReported
    OBVIOUS
  <2>1. ASSUME Serving, NEW r \in Runs \ active PROVE pc[r] \notin {"report", "recover"}
    BY <2>1 DEF Serving, Busy, SyncPoints
  <2>2. QED
    BY <2>1 DEF EffectsAreReported, EndInv, ExecutionIsRecorded, SettledInv,
        ReportedCalls
<1>2. QED
  BY <1>1, SettledInvariant, PTL
==============================================================================
