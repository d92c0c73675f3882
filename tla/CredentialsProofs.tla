--------------------------- MODULE CredentialsProofs ---------------------------
(***************************************************************************)
(* CredInv is kept by every step of Credentials, for any number of         *)
(* profiles and operations.  The steps are first brought into a form in    *)
(* which messages are sets (Move); only what is about their order          *)
(* (OneEach, InOrder) goes back to the sequences.                          *)
(***************************************************************************)
EXTENDS CredentialsInv, SequenceTheorems, TLAPS

USE DEF rows, ops, main

Answers == {"ok", "null", "failed"}

\* What TypeOK says of the messages.
Shapes ==
    /\ \A x \in Waiting :
        /\ x.from \in Operations /\ x.reference \in Operations /\ x.wait \in Waits
        /\ x.type = "put" <=> x.wait = "putting"
        /\ x.type = "get" <=> x.wait = "reading"
        /\ x.type = "delete" <=> x.wait \in Removing \cup {"undoing"}
    /\ \A a \in Answered :
        /\ a.from \in Operations /\ a.wait \in Waits /\ a.answer \in Answers
        /\ a = [from |-> a.from, wait |-> a.wait, answer |-> a.answer]

------------------------------------------------------------------------------
(* The steps.                                                              *)

Quiet == UNCHANGED <<queue, jobs>> /\ Queued' = Queued /\ Worked' = Worked
Sends(x) ==
    /\ queue' = Append(queue, x) /\ Queued' = Queued \cup {x}
    /\ UNCHANGED jobs /\ Worked' = Worked

Begins(o, p, where) ==
    /\ step[o] = "new"
    /\ step' = [step EXCEPT ![o] = where]
    /\ provider' = [provider EXCEPT ![o] = p]
    /\ existing' = [existing EXCEPT ![o] = row[p]]
    /\ spoiled \subseteq spoiled' /\ spoiled' \subseteq spoiled \cup {p}
    /\ where # "reading" =>
        \A q \in Operations \ {o} : provider[q] = p /\ Changing(q) => p \in spoiled'
    /\ UNCHANGED <<vault, answers, abandoned>> /\ Answered' = Answered

SaveMove(o, p) ==
    /\ Begins(o, p, "putting")
    /\ Sends(Request("putting", o, o))
    /\ UNCHANGED <<row, inUse, result>>

\* What leaves the keys of the rows as they are.
EditMove(o, p) ==
    /\ Begins(o, p, "over")
    /\ \/ UNCHANGED row
       \/ /\ row[p] \notin Operations
          /\ \/ row' = [row EXCEPT ![p] = NoKey]
             \/ row' = [row EXCEPT ![p] = Absent] /\ p \notin inUse
    /\ result' = [result EXCEPT ![o] = "ok"]
    /\ Quiet /\ UNCHANGED inUse

ClearMove(o, p) ==
    /\ HasKey(p)
    /\ Begins(o, p, "clearing")
    /\ Sends(Request("clearing", row[p], o))
    /\ row' = [row EXCEPT ![p] = NoKey]
    /\ UNCHANGED <<inUse, result>>

DeleteMove(o, p) ==
    /\ HasKey(p) /\ p \notin inUse
    /\ Begins(o, p, "deleting")
    /\ Sends(Request("deleting", row[p], o))
    /\ row' = [row EXCEPT ![p] = Absent]
    /\ UNCHANGED <<inUse, result>>

ReadMove(o, p) ==
    /\ HasKey(p)
    /\ Begins(o, p, "reading")
    /\ Sends(Request("reading", row[p], o))
    /\ UNCHANGED <<row, inUse, result>>

AgentMove(p) ==
    /\ row[p] # Absent
    /\ inUse' = inUse \cup {p}
    /\ Quiet /\ Answered' = Answered
    /\ UNCHANGED <<row, step, provider, existing, result, vault, answers, spoiled, abandoned>>

StaleMove ==
    /\ answers # <<>> /\ answers' = Tail(answers)
    /\ Answered' \subseteq Answered
    /\ \A a \in Answered : a.wait = step[a.from] => a \in Answered'
    /\ Quiet
    /\ UNCHANGED <<row, inUse, step, provider, existing, result, vault, spoiled, abandoned>>

\* o gets the answer it waits for, or waits no more.
Heard(o, answer) ==
    /\ step[o] \in Waits
    /\ \/ LET a == [from |-> o, wait |-> step[o], answer |-> answer] IN
          /\ a \in Answered
          /\ answers # <<>> /\ answers' = Tail(answers)
          /\ Answered' = Answered \ {a}
          /\ \A b \in Answered' : ~Same(b, a)
          /\ UNCHANGED spoiled
       \/ /\ answer = "failed"
          /\ UNCHANGED answers /\ Answered' = Answered
          /\ spoiled' = spoiled \cup {provider[o]}
    /\ abandoned \subseteq abandoned' /\ abandoned' \subseteq abandoned \cup {o}
    /\ step[o] = "undoing" /\ answer = "failed" => o \in abandoned'
    /\ UNCHANGED <<inUse, provider, existing, vault>>

Settles(o, how) ==
    /\ step' = [step EXCEPT ![o] = "over"]
    /\ result' = [result EXCEPT ![o] = how]

EndMove(o, answer) ==
    /\ Heard(o, answer)
    /\ \/ step[o] = "reading" /\ Settles(o, IF answer = "ok" THEN "key" ELSE answer)
       \/ step[o] = "undoing" /\ Settles(o, "failed")
       \/ step[o] = "putting" /\ answer # "ok" /\ Settles(o, "failed")
       \/ step[o] \in Removing /\ answer = "ok" /\ Settles(o, "ok")
       \/ step[o] \in Removing /\ answer # "ok" /\ o \in abandoned' /\ Settles(o, "failed")
    /\ Quiet /\ UNCHANGED row

FirstKeyMove(o, answer) ==
    /\ Heard(o, answer)
    /\ step[o] = "putting" /\ answer = "ok" /\ existing[o] \notin Operations
    /\ row' = [row EXCEPT ![provider[o]] = o]
    /\ Settles(o, "ok") /\ Quiet

NextKeyMove(o, answer) ==
    /\ Heard(o, answer)
    /\ step[o] = "putting" /\ answer = "ok" /\ existing[o] \in Operations
    /\ row' = [row EXCEPT ![provider[o]] = o]
    /\ step' = [step EXCEPT ![o] = "dropping"]
    /\ Sends(Request("dropping", existing[o], o)) /\ UNCHANGED result

UndoMove(o, answer) ==
    /\ Heard(o, answer)
    /\ step[o] = "putting" /\ answer = "ok"
    /\ step' = [step EXCEPT ![o] = "undoing"]
    /\ Sends(Request("undoing", o, o)) /\ UNCHANGED <<row, result>>

RollbackMove(o, answer) ==
    /\ Heard(o, answer)
    /\ step[o] = "dropping" /\ answer # "ok"
    /\ row' = [row EXCEPT ![provider[o]] = existing[o]]
    /\ step' = [step EXCEPT ![o] = "undoing"]
    /\ Sends(Request("undoing", o, o)) /\ UNCHANGED result

RestoreMove(o, answer) ==
    /\ Heard(o, answer)
    /\ step[o] \in {"clearing", "deleting"} /\ answer # "ok"
    /\ row' = [row EXCEPT ![provider[o]] = existing[o]]
    /\ Settles(o, "failed") /\ Quiet

CrashMove ==
    /\ step' = [o \in Operations |-> IF Active(o) THEN "over" ELSE step[o]]
    /\ abandoned' = abandoned \cup {o \in Operations : Active(o)}
    /\ \E n \in 0 .. Len(queue) : queue' = SubSeq(queue, 1, n)
    /\ Queued' \subseteq Queued
    /\ jobs' \in {jobs, {}} /\ Worked' \subseteq Worked
    /\ answers' = <<>> /\ Answered' = {}
    /\ UNCHANGED <<row, inUse, provider, existing, result, vault, spoiled>>

TakeMove(x) ==
    /\ queue # <<>> /\ x = Head(queue) /\ queue' = Tail(queue)
    /\ x \in Queued /\ Queued = Queued' \cup {x}
    /\ \A y \in Queued' : ~Same(y, x)
    /\ \A y \in Queued' :
        x.type = "delete" /\ y.type = "get" /\ provider[x.reference] \notin spoiled =>
            y.reference # x.reference
    /\ Worked = {} /\ Worked' = {x}
    /\ jobs' = {[request |-> x, file |-> vault]}
    /\ Answered' = Answered
    /\ UNCHANGED <<row, inUse, step, provider, existing, result, vault, answers, spoiled, abandoned>>

Responds(x, answer) ==
    /\ Worked = {x} /\ Worked' = {} /\ jobs' = {}
    /\ UNCHANGED queue /\ Queued' = Queued
    /\ LET a == [from |-> x.from, wait |-> x.wait, answer |-> answer] IN
       answers' = Append(answers, a) /\ Answered' = Answered \cup {a}
    /\ UNCHANGED <<row, inUse, step, provider, existing, result, spoiled, abandoned>>

PutMove(x) == x.type = "put" /\ vault' = vault \cup {x.reference} /\ Responds(x, "ok")
RemoveMove(x) == x.type = "delete" /\ vault' = vault \ {x.reference} /\ Responds(x, "ok")
GetMove(x) ==
    /\ x.type = "get" /\ UNCHANGED vault
    /\ Responds(x, IF x.reference \in vault THEN "ok" ELSE "null")
RefuseMove(x) == UNCHANGED vault /\ Responds(x, "failed")

Move ==
    \/ \E o \in Operations, p \in Providers :
         \/ SaveMove(o, p) \/ EditMove(o, p) \/ ClearMove(o, p)
         \/ DeleteMove(o, p) \/ ReadMove(o, p)
    \/ \E p \in Providers : AgentMove(p)
    \/ StaleMove
    \/ \E o \in Operations, answer \in Answers :
         \/ EndMove(o, answer) \/ FirstKeyMove(o, answer) \/ NextKeyMove(o, answer)
         \/ UndoMove(o, answer) \/ RollbackMove(o, answer) \/ RestoreMove(o, answer)
    \/ CrashMove
    \/ \E x \in Waiting :
         TakeMove(x) \/ PutMove(x) \/ RemoveMove(x) \/ GetMove(x) \/ RefuseMove(x)

------------------------------------------------------------------------------
(* What a Move keeps.                                                      *)
\* Variables keep their shapes.
LEMMA StateTypesKept == CredInv /\ Shapes /\ Move => StateTypes'
<1> SUFFICES ASSUME CredInv, Shapes, Move PROVE StateTypes'
  OBVIOUS
<1> USE CredentialsAssumption DEF CredInv, TypeOK, StateTypes, Shapes, Waiting, Waits,
    Removing, Answers, RowsAndSteps, Origin
<1>1. ASSUME NEW o \in Operations, NEW p \in Providers, SaveMove(o, p) PROVE StateTypes'
  BY <1>1 DEF SaveMove, Begins, Sends, Quiet, Request, Changing
<1>2. ASSUME NEW o \in Operations, NEW p \in Providers, EditMove(o, p) PROVE StateTypes'
  BY <1>2 DEF EditMove, Begins, Sends, Quiet, Request, Changing
<1>3. ASSUME NEW o \in Operations, NEW p \in Providers, ClearMove(o, p) PROVE
    StateTypes'
  BY <1>3 DEF ClearMove, Begins, Sends, Quiet, Request, Changing, HasKey
<1>4. ASSUME NEW o \in Operations, NEW p \in Providers, DeleteMove(o, p) PROVE
    StateTypes'
  BY <1>4 DEF DeleteMove, Begins, Sends, Quiet, Request, Changing, HasKey
<1>5. ASSUME NEW o \in Operations, NEW p \in Providers, ReadMove(o, p) PROVE StateTypes'
  BY <1>5 DEF ReadMove, Begins, Sends, Quiet, Request, Changing, HasKey
<1>6. ASSUME NEW p \in Providers, AgentMove(p) PROVE StateTypes'
  BY <1>6 DEF AgentMove, Quiet
<1>7. ASSUME StaleMove PROVE StateTypes'
  BY <1>7 DEF StaleMove, Quiet
<1>8. ASSUME NEW o \in Operations, NEW answer \in Answers, EndMove(o, answer) PROVE
    StateTypes'
  BY <1>8 DEF EndMove, Heard, Sends, Quiet, Request, Settles
<1>9. ASSUME NEW o \in Operations, NEW answer \in Answers, FirstKeyMove(o, answer)
    PROVE StateTypes'
  BY <1>9 DEF FirstKeyMove, Heard, Sends, Quiet, Request, Settles
<1>10. ASSUME NEW o \in Operations, NEW answer \in Answers, NextKeyMove(o, answer)
    PROVE StateTypes'
  BY <1>10 DEF NextKeyMove, Heard, Sends, Quiet, Request, Settles
<1>11. ASSUME NEW o \in Operations, NEW answer \in Answers, UndoMove(o, answer) PROVE
    StateTypes'
  BY <1>11 DEF UndoMove, Heard, Sends, Quiet, Request, Settles
<1>12. ASSUME NEW o \in Operations, NEW answer \in Answers, RollbackMove(o, answer)
    PROVE StateTypes'
  BY <1>12 DEF RollbackMove, Heard, Sends, Quiet, Request, Settles
<1>13. ASSUME NEW o \in Operations, NEW answer \in Answers, RestoreMove(o, answer)
    PROVE StateTypes'
  BY <1>13 DEF RestoreMove, Heard, Sends, Quiet, Request, Settles
<1>14. ASSUME CrashMove PROVE StateTypes'
  BY <1>14 DEF CrashMove, Active
<1>15. ASSUME NEW x \in Waiting, TakeMove(x) PROVE StateTypes'
  BY <1>15 DEF TakeMove
<1>16. ASSUME NEW x \in Waiting, PutMove(x) PROVE StateTypes'
  BY <1>16 DEF PutMove, Responds
<1>17. ASSUME NEW x \in Waiting, RemoveMove(x) PROVE StateTypes'
  BY <1>17 DEF RemoveMove, Responds
<1>18. ASSUME NEW x \in Waiting, GetMove(x) PROVE StateTypes'
  BY <1>18 DEF GetMove, Responds
<1>19. ASSUME NEW x \in Waiting, RefuseMove(x) PROVE StateTypes'
  BY <1>19 DEF RefuseMove, Responds
<1> HIDE DEF CredInv, TypeOK, StateTypes, Shapes, Waiting, Waits, Removing, Answers,
    RowsAndSteps, Origin
<1>20. QED
  BY <1>1, <1>2, <1>3, <1>4, <1>5, <1>6, <1>7, <1>8, <1>9, <1>10, <1>11, <1>12, <1>13,
      <1>14, <1>15, <1>16, <1>17, <1>18, <1>19 DEF Move
\* Keys come from operations on their profile.
LEMMA RowsAndStepsKept == CredInv /\ Shapes /\ Move => RowsAndSteps'
<1> SUFFICES ASSUME CredInv, Shapes, Move PROVE RowsAndSteps'
  OBVIOUS
<1> USE CredentialsAssumption DEF CredInv, TypeOK, StateTypes, Shapes, Waiting, Waits,
    Removing, Answers, RowsAndSteps, Origin, MessagesOfStep, Sent
<1>1. ASSUME NEW o \in Operations, NEW p \in Providers, SaveMove(o, p) PROVE
    RowsAndSteps'
  BY <1>1 DEF SaveMove, Begins, Sends, Quiet, Request, Changing, Active
<1>2. ASSUME NEW o \in Operations, NEW p \in Providers, EditMove(o, p) PROVE
    RowsAndSteps'
  BY <1>2 DEF EditMove, Begins, Sends, Quiet, Request, Changing, Active
<1>3. ASSUME NEW o \in Operations, NEW p \in Providers, ClearMove(o, p) PROVE
    RowsAndSteps'
  BY <1>3 DEF ClearMove, Begins, Sends, Quiet, Request, Changing, HasKey, Active
<1>4. ASSUME NEW o \in Operations, NEW p \in Providers, DeleteMove(o, p) PROVE
    RowsAndSteps'
  BY <1>4 DEF DeleteMove, Begins, Sends, Quiet, Request, Changing, HasKey, Active
<1>5. ASSUME NEW o \in Operations, NEW p \in Providers, ReadMove(o, p) PROVE
    RowsAndSteps'
  BY <1>5 DEF ReadMove, Begins, Sends, Quiet, Request, Changing, HasKey, Active
<1>6. ASSUME NEW p \in Providers, AgentMove(p) PROVE RowsAndSteps'
  BY <1>6 DEF AgentMove, Quiet, Active
<1>7. ASSUME StaleMove PROVE RowsAndSteps'
  BY <1>7 DEF StaleMove, Quiet, Active
<1>8. ASSUME NEW o \in Operations, NEW answer \in Answers, EndMove(o, answer) PROVE
    RowsAndSteps'
  BY <1>8 DEF EndMove, Heard, Sends, Quiet, Request, Settles, Active
<1>9. ASSUME NEW o \in Operations, NEW answer \in Answers, FirstKeyMove(o, answer)
    PROVE RowsAndSteps'
  BY <1>9 DEF FirstKeyMove, Heard, Sends, Quiet, Request, Settles, Active
<1>10. ASSUME NEW o \in Operations, NEW answer \in Answers, NextKeyMove(o, answer)
    PROVE RowsAndSteps'
  BY <1>10 DEF NextKeyMove, Heard, Sends, Quiet, Request, Settles, Active
<1>11. ASSUME NEW o \in Operations, NEW answer \in Answers, UndoMove(o, answer) PROVE
    RowsAndSteps'
  BY <1>11 DEF UndoMove, Heard, Sends, Quiet, Request, Settles, Active
<1>12. ASSUME NEW o \in Operations, NEW answer \in Answers, RollbackMove(o, answer)
    PROVE RowsAndSteps'
  BY <1>12 DEF RollbackMove, Heard, Sends, Quiet, Request, Settles, Active
<1>13. ASSUME NEW o \in Operations, NEW answer \in Answers, RestoreMove(o, answer)
    PROVE RowsAndSteps'
  BY <1>13 DEF RestoreMove, Heard, Sends, Quiet, Request, Settles, Active
<1>14. ASSUME CrashMove PROVE RowsAndSteps'
  BY <1>14 DEF CrashMove, Active
<1>15. ASSUME NEW x \in Waiting, TakeMove(x) PROVE RowsAndSteps'
  BY <1>15 DEF TakeMove, Active
<1>16. ASSUME NEW x \in Waiting, PutMove(x) PROVE RowsAndSteps'
  BY <1>16 DEF PutMove, Responds, Active
<1>17. ASSUME NEW x \in Waiting, RemoveMove(x) PROVE RowsAndSteps'
  BY <1>17 DEF RemoveMove, Responds, Active
<1>18. ASSUME NEW x \in Waiting, GetMove(x) PROVE RowsAndSteps'
  BY <1>18 DEF GetMove, Responds, Active
<1>19. ASSUME NEW x \in Waiting, RefuseMove(x) PROVE RowsAndSteps'
  BY <1>19 DEF RefuseMove, Responds, Active
<1> HIDE DEF CredInv, TypeOK, StateTypes, Shapes, Waiting, Waits, Removing, Answers,
    RowsAndSteps, Origin, MessagesOfStep, Sent
<1>20. QED
  BY <1>1, <1>2, <1>3, <1>4, <1>5, <1>6, <1>7, <1>8, <1>9, <1>10, <1>11, <1>12, <1>13,
      <1>14, <1>15, <1>16, <1>17, <1>18, <1>19 DEF Move
\* The vault has one job, with the file as it is.
LEMMA OneJobKept == CredInv /\ Shapes /\ Move => OneJob'
<1> SUFFICES ASSUME CredInv, Shapes, Move PROVE OneJob'
  OBVIOUS
<1> USE CredentialsAssumption DEF CredInv, TypeOK, StateTypes, Shapes, Waiting, Waits,
    Removing, Answers, OneJob
<1>1. ASSUME NEW o \in Operations, NEW p \in Providers, SaveMove(o, p) PROVE OneJob'
  BY <1>1 DEF SaveMove, Begins, Sends, Quiet, Request, Changing
<1>2. ASSUME NEW o \in Operations, NEW p \in Providers, EditMove(o, p) PROVE OneJob'
  BY <1>2 DEF EditMove, Begins, Sends, Quiet, Request, Changing
<1>3. ASSUME NEW o \in Operations, NEW p \in Providers, ClearMove(o, p) PROVE OneJob'
  BY <1>3 DEF ClearMove, Begins, Sends, Quiet, Request, Changing, HasKey
<1>4. ASSUME NEW o \in Operations, NEW p \in Providers, DeleteMove(o, p) PROVE OneJob'
  BY <1>4 DEF DeleteMove, Begins, Sends, Quiet, Request, Changing, HasKey
<1>5. ASSUME NEW o \in Operations, NEW p \in Providers, ReadMove(o, p) PROVE OneJob'
  BY <1>5 DEF ReadMove, Begins, Sends, Quiet, Request, Changing, HasKey
<1>6. ASSUME NEW p \in Providers, AgentMove(p) PROVE OneJob'
  BY <1>6 DEF AgentMove, Quiet
<1>7. ASSUME StaleMove PROVE OneJob'
  BY <1>7 DEF StaleMove, Quiet
<1>8. ASSUME NEW o \in Operations, NEW answer \in Answers, EndMove(o, answer) PROVE
    OneJob'
  BY <1>8 DEF EndMove, Heard, Sends, Quiet, Request, Settles
<1>9. ASSUME NEW o \in Operations, NEW answer \in Answers, FirstKeyMove(o, answer)
    PROVE OneJob'
  BY <1>9 DEF FirstKeyMove, Heard, Sends, Quiet, Request, Settles
<1>10. ASSUME NEW o \in Operations, NEW answer \in Answers, NextKeyMove(o, answer)
    PROVE OneJob'
  BY <1>10 DEF NextKeyMove, Heard, Sends, Quiet, Request, Settles
<1>11. ASSUME NEW o \in Operations, NEW answer \in Answers, UndoMove(o, answer) PROVE
    OneJob'
  BY <1>11 DEF UndoMove, Heard, Sends, Quiet, Request, Settles
<1>12. ASSUME NEW o \in Operations, NEW answer \in Answers, RollbackMove(o, answer)
    PROVE OneJob'
  BY <1>12 DEF RollbackMove, Heard, Sends, Quiet, Request, Settles
<1>13. ASSUME NEW o \in Operations, NEW answer \in Answers, RestoreMove(o, answer)
    PROVE OneJob'
  BY <1>13 DEF RestoreMove, Heard, Sends, Quiet, Request, Settles
<1>14. ASSUME CrashMove PROVE OneJob'
  BY <1>14 DEF CrashMove, Active
<1>15. ASSUME NEW x \in Waiting, TakeMove(x) PROVE OneJob'
  BY <1>15 DEF TakeMove
<1>16. ASSUME NEW x \in Waiting, PutMove(x) PROVE OneJob'
  BY <1>16 DEF PutMove, Responds
<1>17. ASSUME NEW x \in Waiting, RemoveMove(x) PROVE OneJob'
  BY <1>17 DEF RemoveMove, Responds
<1>18. ASSUME NEW x \in Waiting, GetMove(x) PROVE OneJob'
  BY <1>18 DEF GetMove, Responds
<1>19. ASSUME NEW x \in Waiting, RefuseMove(x) PROVE OneJob'
  BY <1>19 DEF RefuseMove, Responds
<1> HIDE DEF CredInv, TypeOK, StateTypes, Shapes, Waiting, Waits, Removing, Answers,
    OneJob
<1>20. QED
  BY <1>1, <1>2, <1>3, <1>4, <1>5, <1>6, <1>7, <1>8, <1>9, <1>10, <1>11, <1>12, <1>13,
      <1>14, <1>15, <1>16, <1>17, <1>18, <1>19 DEF Move
\* Messages belong to their operations.
LEMMA MessagesOfStepKept == CredInv /\ Shapes /\ Move => MessagesOfStep'
<1> SUFFICES ASSUME CredInv, Shapes, Move PROVE MessagesOfStep'
  OBVIOUS
<1> USE CredentialsAssumption DEF CredInv, TypeOK, StateTypes, Shapes, Waiting, Waits,
    Removing, Answers, MessagesOfStep, Same, Sent, RowsAndSteps, Origin
<1>1. ASSUME NEW o \in Operations, NEW p \in Providers, SaveMove(o, p) PROVE
    MessagesOfStep'
  BY <1>1 DEF SaveMove, Begins, Sends, Quiet, Request, Changing, Active
<1>2. ASSUME NEW o \in Operations, NEW p \in Providers, EditMove(o, p) PROVE
    MessagesOfStep'
  BY <1>2 DEF EditMove, Begins, Sends, Quiet, Request, Changing, Active
<1>3. ASSUME NEW o \in Operations, NEW p \in Providers, ClearMove(o, p) PROVE
    MessagesOfStep'
  BY <1>3, SMTT(30) DEF ClearMove, Begins, Sends, Quiet, Request, Changing, HasKey,
      Active
<1>4. ASSUME NEW o \in Operations, NEW p \in Providers, DeleteMove(o, p) PROVE
    MessagesOfStep'
  BY <1>4, SMTT(30) DEF DeleteMove, Begins, Sends, Quiet, Request, Changing, HasKey,
      Active
<1>5. ASSUME NEW o \in Operations, NEW p \in Providers, ReadMove(o, p) PROVE
    MessagesOfStep'
  BY <1>5 DEF ReadMove, Begins, Sends, Quiet, Request, Changing, HasKey, Active
<1>6. ASSUME NEW p \in Providers, AgentMove(p) PROVE MessagesOfStep'
  BY <1>6 DEF AgentMove, Quiet, Active
<1>7. ASSUME StaleMove PROVE MessagesOfStep'
  BY <1>7 DEF StaleMove, Quiet, Active
<1>8. ASSUME NEW o \in Operations, NEW answer \in Answers, EndMove(o, answer) PROVE
    MessagesOfStep'
  BY <1>8 DEF EndMove, Heard, Sends, Quiet, Request, Settles, Active
<1>9. ASSUME NEW o \in Operations, NEW answer \in Answers, FirstKeyMove(o, answer)
    PROVE MessagesOfStep'
  BY <1>9 DEF FirstKeyMove, Heard, Sends, Quiet, Request, Settles, Active
<1>10. ASSUME NEW o \in Operations, NEW answer \in Answers, NextKeyMove(o, answer)
    PROVE MessagesOfStep'
  <2> DEFINE y == Request("dropping", existing[o], o)
  <2>1. /\ Queued' = Queued \cup {y} /\ UNCHANGED existing
        /\ Worked' = Worked /\ Answered' \subseteq Answered
        /\ step' = [step EXCEPT ![o] = "dropping"]
        /\ step[o] = "putting"
    BY <1>10 DEF NextKeyMove, Heard, Sends
  <2>2. /\ y.from = o /\ y.wait = "dropping"
        /\ y.reference = existing[o]
    BY DEF Request
  <2> HIDE DEF y
  <2>3. \A x \in Queued \cup Worked \cup Answered : ~Same(x, y)
    BY <2>1, <2>2
  <2>4. \A x \in Queued', z \in Worked' : ~Same(x, z)
    BY <2>1, <2>3
  <2>5. \A x \in Queued' \cup Worked', z \in Answered' : ~Same(x, z)
    BY <2>1, <2>3
  <2>6. \A x \in Queued' \cup Worked' \cup Answered' : Sent(x)'
    <3>1. PICK a \in Answered : /\ a.from = o /\ a.wait = "putting"
                               /\ \A z \in Answered' : ~Same(z, a)
      BY <1>10 DEF NextKeyMove, Heard
    <3>2. \A x \in Queued \cup Worked \cup Answered' : ~(x.from = o /\ x.wait = "putting")
      BY <3>1
    <3>3. ASSUME NEW x \in Queued \cup Worked \cup Answered' PROVE Sent(x)'
      <4>1. x.from \in Operations /\ Sent(x)
        BY <2>1, <3>3
      <4>2. x.from # o
        BY <2>1, <3>2, <3>3, <4>1
      <4>3. step'[x.from] = step[x.from]
        BY <2>1, <4>1, <4>2
      <4>4. QED
        BY <4>1, <4>3
    <3>4. y.wait = step'[y.from]
      BY <2>1, <2>2
    <3>5. QED
      BY <2>1, <3>3, <3>4
  <2>7. \A x \in Queued' \cup Worked' :
            x.reference = IF x.wait \in {"putting", "undoing"} THEN x.from ELSE existing'[x.from]
    BY <2>1, <2>2
  <2>8. QED
    BY <2>4, <2>5, <2>6, <2>7
<1>11. ASSUME NEW o \in Operations, NEW answer \in Answers, UndoMove(o, answer) PROVE
    MessagesOfStep'
  <2> DEFINE y == Request("undoing", o, o)
  <2>1. /\ Queued' = Queued \cup {y} /\ UNCHANGED existing
        /\ Worked' = Worked /\ Answered' \subseteq Answered
        /\ step' = [step EXCEPT ![o] = "undoing"]
        /\ step[o] = "putting"
    BY <1>11 DEF UndoMove, Heard, Sends
  <2>2. /\ y.from = o /\ y.wait = "undoing"
        /\ y.reference = o
    BY DEF Request
  <2> HIDE DEF y
  <2>3. \A x \in Queued \cup Worked \cup Answered : ~Same(x, y)
    BY <2>1, <2>2
  <2>4. \A x \in Queued', z \in Worked' : ~Same(x, z)
    BY <2>1, <2>3
  <2>5. \A x \in Queued' \cup Worked', z \in Answered' : ~Same(x, z)
    BY <2>1, <2>3
  <2>6. \A x \in Queued' \cup Worked' \cup Answered' : Sent(x)'
    <3>1. PICK a \in Answered : /\ a.from = o /\ a.wait = "putting"
                               /\ \A z \in Answered' : ~Same(z, a)
      BY <1>11 DEF UndoMove, Heard
    <3>2. \A x \in Queued \cup Worked \cup Answered' : ~(x.from = o /\ x.wait = "putting")
      BY <3>1
    <3>3. ASSUME NEW x \in Queued \cup Worked \cup Answered' PROVE Sent(x)'
      <4>1. x.from \in Operations /\ Sent(x)
        BY <2>1, <3>3
      <4>2. x.from # o
        BY <2>1, <3>2, <3>3, <4>1
      <4>3. step'[x.from] = step[x.from]
        BY <2>1, <4>1, <4>2
      <4>4. QED
        BY <4>1, <4>3
    <3>4. y.wait = step'[y.from]
      BY <2>1, <2>2
    <3>5. QED
      BY <2>1, <3>3, <3>4
  <2>7. \A x \in Queued' \cup Worked' :
            x.reference = IF x.wait \in {"putting", "undoing"} THEN x.from ELSE existing'[x.from]
    BY <2>1, <2>2
  <2>8. QED
    BY <2>4, <2>5, <2>6, <2>7
<1>12. ASSUME NEW o \in Operations, NEW answer \in Answers, RollbackMove(o, answer)
    PROVE MessagesOfStep'
  <2>1. /\ Queued' = Queued \cup {Request("undoing", o, o)} /\ UNCHANGED existing
        /\ Worked' = Worked /\ Answered' \subseteq Answered
        /\ step' = [step EXCEPT ![o] = "undoing"]
        /\ step[o] = "dropping"
    BY <1>12 DEF RollbackMove, Heard, Sends
  <2>2. QED
    BY <2>1, SMTT(30) DEF Request
<1>13. ASSUME NEW o \in Operations, NEW answer \in Answers, RestoreMove(o, answer)
    PROVE MessagesOfStep'
  BY <1>13 DEF RestoreMove, Heard, Sends, Quiet, Request, Settles, Active
<1>14. ASSUME CrashMove PROVE MessagesOfStep'
  BY <1>14 DEF CrashMove, Active
<1>15. ASSUME NEW x \in Waiting, TakeMove(x) PROVE MessagesOfStep'
  BY <1>15 DEF TakeMove, Active
<1>16. ASSUME NEW x \in Waiting, PutMove(x) PROVE MessagesOfStep'
  BY <1>16 DEF PutMove, Responds, Active
<1>17. ASSUME NEW x \in Waiting, RemoveMove(x) PROVE MessagesOfStep'
  BY <1>17 DEF RemoveMove, Responds, Active
<1>18. ASSUME NEW x \in Waiting, GetMove(x) PROVE MessagesOfStep'
  BY <1>18 DEF GetMove, Responds, Active
<1>19. ASSUME NEW x \in Waiting, RefuseMove(x) PROVE MessagesOfStep'
  BY <1>19 DEF RefuseMove, Responds, Active
<1> HIDE DEF CredInv, TypeOK, StateTypes, Shapes, Waiting, Waits, Removing, Answers,
    MessagesOfStep, Same, Sent, RowsAndSteps, Origin
<1>20. QED
  BY <1>1, <1>2, <1>3, <1>4, <1>5, <1>6, <1>7, <1>8, <1>9, <1>10, <1>11, <1>12, <1>13,
      <1>14, <1>15, <1>16, <1>17, <1>18, <1>19 DEF Move
\* Keys that are put are new.
LEMMA PutsOfStepKept == CredInv /\ Shapes /\ Move => PutsOfStep'
<1> SUFFICES ASSUME CredInv, Shapes, Move PROVE PutsOfStep'
  OBVIOUS
<1> USE CredentialsAssumption DEF CredInv, TypeOK, StateTypes, Shapes, Waiting, Waits,
    Removing, Answers, PutsOfStep, MessagesOfStep, Same, Sent, RowsAndSteps, Origin
<1>1. ASSUME NEW o \in Operations, NEW p \in Providers, SaveMove(o, p) PROVE PutsOfStep'
  BY <1>1 DEF SaveMove, Begins, Sends, Quiet, Request, Changing, Active
<1>2. ASSUME NEW o \in Operations, NEW p \in Providers, EditMove(o, p) PROVE PutsOfStep'
  BY <1>2 DEF EditMove, Begins, Sends, Quiet, Request, Changing, Active
<1>3. ASSUME NEW o \in Operations, NEW p \in Providers, ClearMove(o, p) PROVE
    PutsOfStep'
  BY <1>3 DEF ClearMove, Begins, Sends, Quiet, Request, Changing, HasKey, Active
<1>4. ASSUME NEW o \in Operations, NEW p \in Providers, DeleteMove(o, p) PROVE
    PutsOfStep'
  BY <1>4 DEF DeleteMove, Begins, Sends, Quiet, Request, Changing, HasKey, Active
<1>5. ASSUME NEW o \in Operations, NEW p \in Providers, ReadMove(o, p) PROVE PutsOfStep'
  BY <1>5 DEF ReadMove, Begins, Sends, Quiet, Request, Changing, HasKey, Active
<1>6. ASSUME NEW p \in Providers, AgentMove(p) PROVE PutsOfStep'
  BY <1>6 DEF AgentMove, Quiet, Active
<1>7. ASSUME StaleMove PROVE PutsOfStep'
  BY <1>7 DEF StaleMove, Quiet, Active
<1>8. ASSUME NEW o \in Operations, NEW answer \in Answers, EndMove(o, answer) PROVE
    PutsOfStep'
  BY <1>8 DEF EndMove, Heard, Sends, Quiet, Request, Settles, Active
<1>9. ASSUME NEW o \in Operations, NEW answer \in Answers, FirstKeyMove(o, answer)
    PROVE PutsOfStep'
  BY <1>9 DEF FirstKeyMove, Heard, Sends, Quiet, Request, Settles, Active
<1>10. ASSUME NEW o \in Operations, NEW answer \in Answers, NextKeyMove(o, answer)
    PROVE PutsOfStep'
  BY <1>10 DEF NextKeyMove, Heard, Sends, Quiet, Request, Settles, Active
<1>11. ASSUME NEW o \in Operations, NEW answer \in Answers, UndoMove(o, answer) PROVE
    PutsOfStep'
  BY <1>11 DEF UndoMove, Heard, Sends, Quiet, Request, Settles, Active
<1>12. ASSUME NEW o \in Operations, NEW answer \in Answers, RollbackMove(o, answer)
    PROVE PutsOfStep'
  BY <1>12 DEF RollbackMove, Heard, Sends, Quiet, Request, Settles, Active
<1>13. ASSUME NEW o \in Operations, NEW answer \in Answers, RestoreMove(o, answer)
    PROVE PutsOfStep'
  BY <1>13 DEF RestoreMove, Heard, Sends, Quiet, Request, Settles, Active
<1>14. ASSUME CrashMove PROVE PutsOfStep'
  BY <1>14 DEF CrashMove, Active
<1>15. ASSUME NEW x \in Waiting, TakeMove(x) PROVE PutsOfStep'
  BY <1>15 DEF TakeMove, Active
<1>16. ASSUME NEW x \in Waiting, PutMove(x) PROVE PutsOfStep'
  BY <1>16 DEF PutMove, Responds, Active
<1>17. ASSUME NEW x \in Waiting, RemoveMove(x) PROVE PutsOfStep'
  BY <1>17 DEF RemoveMove, Responds, Active
<1>18. ASSUME NEW x \in Waiting, GetMove(x) PROVE PutsOfStep'
  BY <1>18 DEF GetMove, Responds, Active
<1>19. ASSUME NEW x \in Waiting, RefuseMove(x) PROVE PutsOfStep'
  BY <1>19 DEF RefuseMove, Responds, Active
<1> HIDE DEF CredInv, TypeOK, StateTypes, Shapes, Waiting, Waits, Removing, Answers,
    PutsOfStep, MessagesOfStep, Same, Sent, RowsAndSteps, Origin
<1>20. QED
  BY <1>1, <1>2, <1>3, <1>4, <1>5, <1>6, <1>7, <1>8, <1>9, <1>10, <1>11, <1>12, <1>13,
      <1>14, <1>15, <1>16, <1>17, <1>18, <1>19 DEF Move
\* Keys that were put are there.
LEMMA AnsweredPutsKept == CredInv /\ Shapes /\ Move => AnsweredPuts'
<1> SUFFICES ASSUME CredInv, Shapes, Move PROVE AnsweredPuts'
  OBVIOUS
<1> USE CredentialsAssumption DEF CredInv, TypeOK, StateTypes, Shapes, Waiting, Waits,
    Removing, Answers, AnsweredPuts, PutsOfStep, MessagesOfStep, Same, Sent, RowsAndSteps,
    Origin
<1>1. ASSUME NEW o \in Operations, NEW p \in Providers, SaveMove(o, p) PROVE
    AnsweredPuts'
  BY <1>1 DEF SaveMove, Begins, Sends, Quiet, Request, Changing, Active
<1>2. ASSUME NEW o \in Operations, NEW p \in Providers, EditMove(o, p) PROVE
    AnsweredPuts'
  BY <1>2 DEF EditMove, Begins, Sends, Quiet, Request, Changing, Active
<1>3. ASSUME NEW o \in Operations, NEW p \in Providers, ClearMove(o, p) PROVE
    AnsweredPuts'
  BY <1>3 DEF ClearMove, Begins, Sends, Quiet, Request, Changing, HasKey, Active
<1>4. ASSUME NEW o \in Operations, NEW p \in Providers, DeleteMove(o, p) PROVE
    AnsweredPuts'
  BY <1>4 DEF DeleteMove, Begins, Sends, Quiet, Request, Changing, HasKey, Active
<1>5. ASSUME NEW o \in Operations, NEW p \in Providers, ReadMove(o, p) PROVE
    AnsweredPuts'
  BY <1>5 DEF ReadMove, Begins, Sends, Quiet, Request, Changing, HasKey, Active
<1>6. ASSUME NEW p \in Providers, AgentMove(p) PROVE AnsweredPuts'
  BY <1>6 DEF AgentMove, Quiet, Active
<1>7. ASSUME StaleMove PROVE AnsweredPuts'
  BY <1>7 DEF StaleMove, Quiet, Active
<1>8. ASSUME NEW o \in Operations, NEW answer \in Answers, EndMove(o, answer) PROVE
    AnsweredPuts'
  BY <1>8 DEF EndMove, Heard, Sends, Quiet, Request, Settles, Active
<1>9. ASSUME NEW o \in Operations, NEW answer \in Answers, FirstKeyMove(o, answer)
    PROVE AnsweredPuts'
  BY <1>9 DEF FirstKeyMove, Heard, Sends, Quiet, Request, Settles, Active
<1>10. ASSUME NEW o \in Operations, NEW answer \in Answers, NextKeyMove(o, answer)
    PROVE AnsweredPuts'
  BY <1>10 DEF NextKeyMove, Heard, Sends, Quiet, Request, Settles, Active
<1>11. ASSUME NEW o \in Operations, NEW answer \in Answers, UndoMove(o, answer) PROVE
    AnsweredPuts'
  BY <1>11 DEF UndoMove, Heard, Sends, Quiet, Request, Settles, Active
<1>12. ASSUME NEW o \in Operations, NEW answer \in Answers, RollbackMove(o, answer)
    PROVE AnsweredPuts'
  BY <1>12 DEF RollbackMove, Heard, Sends, Quiet, Request, Settles, Active
<1>13. ASSUME NEW o \in Operations, NEW answer \in Answers, RestoreMove(o, answer)
    PROVE AnsweredPuts'
  BY <1>13 DEF RestoreMove, Heard, Sends, Quiet, Request, Settles, Active
<1>14. ASSUME CrashMove PROVE AnsweredPuts'
  BY <1>14 DEF CrashMove, Active
<1>15. ASSUME NEW x \in Waiting, TakeMove(x) PROVE AnsweredPuts'
  BY <1>15 DEF TakeMove, Active
<1>16. ASSUME NEW x \in Waiting, PutMove(x) PROVE AnsweredPuts'
  BY <1>16 DEF PutMove, Responds, Active
<1>17. ASSUME NEW x \in Waiting, RemoveMove(x) PROVE AnsweredPuts'
  BY <1>17 DEF RemoveMove, Responds, Active
<1>18. ASSUME NEW x \in Waiting, GetMove(x) PROVE AnsweredPuts'
  BY <1>18 DEF GetMove, Responds, Active
<1>19. ASSUME NEW x \in Waiting, RefuseMove(x) PROVE AnsweredPuts'
  BY <1>19 DEF RefuseMove, Responds, Active
<1> HIDE DEF CredInv, TypeOK, StateTypes, Shapes, Waiting, Waits, Removing, Answers,
    AnsweredPuts, PutsOfStep, MessagesOfStep, Same, Sent, RowsAndSteps, Origin
<1>20. QED
  BY <1>1, <1>2, <1>3, <1>4, <1>5, <1>6, <1>7, <1>8, <1>9, <1>10, <1>11, <1>12, <1>13,
      <1>14, <1>15, <1>16, <1>17, <1>18, <1>19 DEF Move
\* One operation changes a profile.
LEMMA RowOfStepKept == CredInv /\ Shapes /\ Move => RowOfStep'
<1> SUFFICES ASSUME CredInv, Shapes, Move PROVE RowOfStep'
  OBVIOUS
<1> USE CredentialsAssumption DEF CredInv, TypeOK, StateTypes, Shapes, Waiting, Waits,
    Removing, Answers, RowOfStep, RowsAndSteps, Origin, Changing
<1>1. ASSUME NEW o \in Operations, NEW p \in Providers, SaveMove(o, p) PROVE RowOfStep'
  BY <1>1 DEF SaveMove, Begins, Sends, Quiet, Request, Changing, Active
<1>2. ASSUME NEW o \in Operations, NEW p \in Providers, EditMove(o, p) PROVE RowOfStep'
  BY <1>2 DEF EditMove, Begins, Sends, Quiet, Request, Changing, Active
<1>3. ASSUME NEW o \in Operations, NEW p \in Providers, ClearMove(o, p) PROVE RowOfStep'
  BY <1>3 DEF ClearMove, Begins, Sends, Quiet, Request, Changing, HasKey, Active
<1>4. ASSUME NEW o \in Operations, NEW p \in Providers, DeleteMove(o, p) PROVE
    RowOfStep'
  BY <1>4 DEF DeleteMove, Begins, Sends, Quiet, Request, Changing, HasKey, Active
<1>5. ASSUME NEW o \in Operations, NEW p \in Providers, ReadMove(o, p) PROVE RowOfStep'
  BY <1>5 DEF ReadMove, Begins, Sends, Quiet, Request, Changing, HasKey, Active
<1>6. ASSUME NEW p \in Providers, AgentMove(p) PROVE RowOfStep'
  BY <1>6 DEF AgentMove, Quiet, Active
<1>7. ASSUME StaleMove PROVE RowOfStep'
  BY <1>7 DEF StaleMove, Quiet, Active
<1>8. ASSUME NEW o \in Operations, NEW answer \in Answers, EndMove(o, answer) PROVE
    RowOfStep'
  BY <1>8 DEF EndMove, Heard, Sends, Quiet, Request, Settles, Active
<1>9. ASSUME NEW o \in Operations, NEW answer \in Answers, FirstKeyMove(o, answer)
    PROVE RowOfStep'
  BY <1>9 DEF FirstKeyMove, Heard, Sends, Quiet, Request, Settles, Active
<1>10. ASSUME NEW o \in Operations, NEW answer \in Answers, NextKeyMove(o, answer)
    PROVE RowOfStep'
  BY <1>10 DEF NextKeyMove, Heard, Sends, Quiet, Request, Settles, Active
<1>11. ASSUME NEW o \in Operations, NEW answer \in Answers, UndoMove(o, answer) PROVE
    RowOfStep'
  BY <1>11 DEF UndoMove, Heard, Sends, Quiet, Request, Settles, Active
<1>12. ASSUME NEW o \in Operations, NEW answer \in Answers, RollbackMove(o, answer)
    PROVE RowOfStep'
  BY <1>12 DEF RollbackMove, Heard, Sends, Quiet, Request, Settles, Active
<1>13. ASSUME NEW o \in Operations, NEW answer \in Answers, RestoreMove(o, answer)
    PROVE RowOfStep'
  BY <1>13 DEF RestoreMove, Heard, Sends, Quiet, Request, Settles, Active
<1>14. ASSUME CrashMove PROVE RowOfStep'
  BY <1>14 DEF CrashMove, Active
<1>15. ASSUME NEW x \in Waiting, TakeMove(x) PROVE RowOfStep'
  BY <1>15 DEF TakeMove, Active
<1>16. ASSUME NEW x \in Waiting, PutMove(x) PROVE RowOfStep'
  BY <1>16 DEF PutMove, Responds, Active
<1>17. ASSUME NEW x \in Waiting, RemoveMove(x) PROVE RowOfStep'
  BY <1>17 DEF RemoveMove, Responds, Active
<1>18. ASSUME NEW x \in Waiting, GetMove(x) PROVE RowOfStep'
  BY <1>18 DEF GetMove, Responds, Active
<1>19. ASSUME NEW x \in Waiting, RefuseMove(x) PROVE RowOfStep'
  BY <1>19 DEF RefuseMove, Responds, Active
<1> HIDE DEF CredInv, TypeOK, StateTypes, Shapes, Waiting, Waits, Removing, Answers,
    RowOfStep, RowsAndSteps, Origin, Changing
<1>20. QED
  BY <1>1, <1>2, <1>3, <1>4, <1>5, <1>6, <1>7, <1>8, <1>9, <1>10, <1>11, <1>12, <1>13,
      <1>14, <1>15, <1>16, <1>17, <1>18, <1>19 DEF Move
\* Rows do not name what is being removed.
LEMMA RemovalsOfRowKept == CredInv /\ Shapes /\ Move => RemovalsOfRow'
<1> SUFFICES ASSUME CredInv, Shapes, Move PROVE RemovalsOfRow'
  OBVIOUS
<1> USE CredentialsAssumption DEF CredInv, TypeOK, StateTypes, Shapes, Waiting, Waits,
    Removing, Answers, RemovalsOfRow, RemovalsOfStep, MessagesOfStep, Same, Sent,
    RowsAndSteps, Origin
<1>1. ASSUME NEW o \in Operations, NEW p \in Providers, SaveMove(o, p) PROVE
    RemovalsOfRow'
  BY <1>1 DEF SaveMove, Begins, Sends, Quiet, Request, Changing, Active
<1>2. ASSUME NEW o \in Operations, NEW p \in Providers, EditMove(o, p) PROVE
    RemovalsOfRow'
  BY <1>2 DEF EditMove, Begins, Sends, Quiet, Request, Changing, Active
<1>3. ASSUME NEW o \in Operations, NEW p \in Providers, ClearMove(o, p) PROVE
    RemovalsOfRow'
  BY <1>3 DEF ClearMove, Begins, Sends, Quiet, Request, Changing, HasKey, Active
<1>4. ASSUME NEW o \in Operations, NEW p \in Providers, DeleteMove(o, p) PROVE
    RemovalsOfRow'
  BY <1>4 DEF DeleteMove, Begins, Sends, Quiet, Request, Changing, HasKey, Active
<1>5. ASSUME NEW o \in Operations, NEW p \in Providers, ReadMove(o, p) PROVE
    RemovalsOfRow'
  BY <1>5 DEF ReadMove, Begins, Sends, Quiet, Request, Changing, HasKey, Active
<1>6. ASSUME NEW p \in Providers, AgentMove(p) PROVE RemovalsOfRow'
  BY <1>6 DEF AgentMove, Quiet, Active
<1>7. ASSUME StaleMove PROVE RemovalsOfRow'
  BY <1>7 DEF StaleMove, Quiet, Active
<1>8. ASSUME NEW o \in Operations, NEW answer \in Answers, EndMove(o, answer) PROVE
    RemovalsOfRow'
  BY <1>8 DEF EndMove, Heard, Sends, Quiet, Request, Settles, Active
<1>9. ASSUME NEW o \in Operations, NEW answer \in Answers, FirstKeyMove(o, answer)
    PROVE RemovalsOfRow'
  BY <1>9 DEF FirstKeyMove, Heard, Sends, Quiet, Request, Settles, Active
<1>10. ASSUME NEW o \in Operations, NEW answer \in Answers, NextKeyMove(o, answer)
    PROVE RemovalsOfRow'
  <2>1. /\ provider' = provider /\ spoiled \subseteq spoiled'
        /\ row' = [row EXCEPT ![provider[o]] = o] /\ existing[o] # o
        /\ Waiting' = Waiting \cup {Request("dropping", existing[o], o)}
        /\ step[o] = "putting"
    BY <1>10 DEF NextKeyMove, Heard, Sends
  <2>2. \A x \in Waiting : x.type = "delete" => x.reference # o
    <3>1. ASSUME NEW x \in Waiting, x.type = "delete" PROVE x.reference # o
      <4>1. CASE x.wait = "undoing"
        BY <2>1, <4>1
      <4>2. CASE x.wait # "undoing"
        <5>1. x.wait # "putting" /\ x.from \in Operations /\ x.reference = existing[x.from]
          BY <3>1, <4>2
        <5>2. existing[x.from] # o
          BY <2>1, <5>1
        <5>3. QED
          BY <5>1, <5>2
      <4>3. QED
        BY <4>1, <4>2
    <3>2. QED
      BY <3>1
  <2>3. provider[existing[o]] = provider[o] /\ existing[o] \in Operations
    BY <1>10 DEF NextKeyMove
  <2>4. QED
    BY <2>1, <2>2, <2>3 DEF Request
<1>11. ASSUME NEW o \in Operations, NEW answer \in Answers, UndoMove(o, answer) PROVE
    RemovalsOfRow'
  BY <1>11 DEF UndoMove, Heard, Sends, Quiet, Request, Settles, Active
<1>12. ASSUME NEW o \in Operations, NEW answer \in Answers, RollbackMove(o, answer)
    PROVE RemovalsOfRow'
  <2>1. /\ provider' = provider /\ spoiled \subseteq spoiled'
        /\ row' = [row EXCEPT ![provider[o]] = existing[o]] /\ existing[o] # o
        /\ Waiting' = Waiting \cup {Request("undoing", o, o)}
    BY <1>12 DEF RollbackMove, Heard, Sends
  <2>2. ASSUME provider[o] \notin spoiled' PROVE \A x \in Waiting : x.type = "delete" => x.reference # existing[o]
    <3>1. [from |-> o, wait |-> step[o], answer |-> answer] \in Answered /\ step[o] = "dropping"
      BY <1>12, <2>2 DEF RollbackMove, Heard
    <3>2. \A x \in Waiting : x.from # o \/ x.wait # "dropping"
      BY <3>1
    <3>3. \A x \in Waiting : x.type = "delete" /\ x.reference = existing[o] => x.from = o
      BY <2>1, <2>2, <3>1
    <3>4. QED
      BY <2>1, <3>1, <3>2, <3>3
  <2>3. provider[existing[o]] = provider[o] /\ existing[o] \in Operations
    BY <1>12 DEF RollbackMove
  <2>4. QED
    BY <2>1, <2>2, <2>3 DEF Request
<1>13. ASSUME NEW o \in Operations, NEW answer \in Answers, RestoreMove(o, answer)
    PROVE RemovalsOfRow'
  <2>1. /\ provider' = provider /\ spoiled \subseteq spoiled'
        /\ row' = [row EXCEPT ![provider[o]] = existing[o]] /\ Waiting' = Waiting
    BY <1>13 DEF RestoreMove, Heard, Quiet
  <2>2. ASSUME provider[o] \notin spoiled' PROVE \A x \in Waiting : x.type = "delete" => x.reference # existing[o]
    <3>1. [from |-> o, wait |-> step[o], answer |-> answer] \in Answered /\ step[o] \in {"clearing", "deleting"}
      BY <1>13, <2>2 DEF RestoreMove, Heard
    <3>2. \A x \in Waiting : x.from # o \/ x.wait # step[o]
      BY <3>1
    <3>3. \A x \in Waiting : x.type = "delete" /\ x.reference = existing[o] => x.from = o
      BY <2>1, <2>2, <3>1
    <3>4. QED
      BY <3>1, <3>2, <3>3
  <2>3. provider[existing[o]] = provider[o] /\ existing[o] \in Operations
    BY <1>13 DEF RestoreMove
  <2>4. QED
    BY <2>1, <2>2, <2>3
<1>14. ASSUME CrashMove PROVE RemovalsOfRow'
  BY <1>14 DEF CrashMove, Active
<1>15. ASSUME NEW x \in Waiting, TakeMove(x) PROVE RemovalsOfRow'
  BY <1>15 DEF TakeMove, Active
<1>16. ASSUME NEW x \in Waiting, PutMove(x) PROVE RemovalsOfRow'
  BY <1>16 DEF PutMove, Responds, Active
<1>17. ASSUME NEW x \in Waiting, RemoveMove(x) PROVE RemovalsOfRow'
  BY <1>17 DEF RemoveMove, Responds, Active
<1>18. ASSUME NEW x \in Waiting, GetMove(x) PROVE RemovalsOfRow'
  BY <1>18 DEF GetMove, Responds, Active
<1>19. ASSUME NEW x \in Waiting, RefuseMove(x) PROVE RemovalsOfRow'
  BY <1>19 DEF RefuseMove, Responds, Active
<1> HIDE DEF CredInv, TypeOK, StateTypes, Shapes, Waiting, Waits, Removing, Answers,
    RemovalsOfRow, RemovalsOfStep, MessagesOfStep, Same, Sent, RowsAndSteps, Origin
<1>20. QED
  BY <1>1, <1>2, <1>3, <1>4, <1>5, <1>6, <1>7, <1>8, <1>9, <1>10, <1>11, <1>12, <1>13,
      <1>14, <1>15, <1>16, <1>17, <1>18, <1>19 DEF Move
\* One operation removes a key, which is there until then.
LEMMA RemovalsOfStepKept == CredInv /\ Shapes /\ Move => RemovalsOfStep'
<1> SUFFICES ASSUME CredInv, Shapes, Move PROVE RemovalsOfStep'
  OBVIOUS
<1> USE CredentialsAssumption DEF CredInv, TypeOK, StateTypes, Shapes, Waiting, Waits,
    Removing, Answers, RemovalsOfRow, RemovalsOfStep, MessagesOfStep, Same, Sent,
    RowsAndSteps, Origin, RowOfStep, Changing, KeyIsThere, HasKey
<1>1. ASSUME NEW o \in Operations, NEW p \in Providers, SaveMove(o, p) PROVE
    RemovalsOfStep'
  BY <1>1 DEF SaveMove, Begins, Sends, Quiet, Request, Changing, Active
<1>2. ASSUME NEW o \in Operations, NEW p \in Providers, EditMove(o, p) PROVE
    RemovalsOfStep'
  BY <1>2 DEF EditMove, Begins, Sends, Quiet, Request, Changing, Active
<1>3. ASSUME NEW o \in Operations, NEW p \in Providers, ClearMove(o, p) PROVE
    RemovalsOfStep'
  BY <1>3 DEF ClearMove, Begins, Sends, Quiet, Request, Changing, HasKey, Active
<1>4. ASSUME NEW o \in Operations, NEW p \in Providers, DeleteMove(o, p) PROVE
    RemovalsOfStep'
  BY <1>4 DEF DeleteMove, Begins, Sends, Quiet, Request, Changing, HasKey, Active
<1>5. ASSUME NEW o \in Operations, NEW p \in Providers, ReadMove(o, p) PROVE
    RemovalsOfStep'
  BY <1>5 DEF ReadMove, Begins, Sends, Quiet, Request, Changing, HasKey, Active
<1>6. ASSUME NEW p \in Providers, AgentMove(p) PROVE RemovalsOfStep'
  BY <1>6 DEF AgentMove, Quiet, Active
<1>7. ASSUME StaleMove PROVE RemovalsOfStep'
  BY <1>7 DEF StaleMove, Quiet, Active
<1>8. ASSUME NEW o \in Operations, NEW answer \in Answers, EndMove(o, answer) PROVE
    RemovalsOfStep'
  BY <1>8 DEF EndMove, Heard, Sends, Quiet, Request, Settles, Active
<1>9. ASSUME NEW o \in Operations, NEW answer \in Answers, FirstKeyMove(o, answer)
    PROVE RemovalsOfStep'
  BY <1>9 DEF FirstKeyMove, Heard, Sends, Quiet, Request, Settles, Active
<1>10. ASSUME NEW o \in Operations, NEW answer \in Answers, NextKeyMove(o, answer)
    PROVE RemovalsOfStep'
  <2>1. /\ UNCHANGED <<provider, existing, vault, spoiled>>
        /\ step[o] = "putting" /\ step' = [step EXCEPT ![o] = "dropping"] /\ existing[o] \in Operations
        /\ Waiting' = Waiting \cup {Request("dropping", existing[o], o)}
        /\ Answered' = Answered \ {[from |-> o, wait |-> "putting", answer |-> "ok"]}
    BY <1>10 DEF NextKeyMove, Heard, Sends
  <2>2. ASSUME provider[o] \notin spoiled
        PROVE  /\ existing[o] \in vault
               /\ \A x \in Waiting : x.type = "delete" => x.reference # existing[o]
               /\ \A q \in Operations : step[q] \in Removing => existing[q] # existing[o]
    <3>1. row[provider[o]] = existing[o] /\ provider[existing[o]] = provider[o] /\ provider[o] \in Providers
      BY <2>1, <2>2
    <3>2. \A q \in Operations : step[q] \in Removing => provider[q] # provider[o]
      BY <2>1, <2>2
    <3>3. QED
      BY <2>1, <2>2, <3>1, <3>2
  <2>3. \A q \in Operations : step[q] \in Removing => existing[q] \in Operations /\ provider[existing[q]] = provider[q]
    OBVIOUS
  <2>4. ASSUME NEW q \in Operations, q # o, step[q] \in Removing, provider[q] \notin spoiled
        PROVE  /\ \A x \in Waiting' :
                    x.type = "delete" /\ x.reference = existing[q] => x.from = q
               /\ existing[q] \in vault \/ [from |-> q, wait |-> step[q], answer |-> "ok"] \in Answered'
    <3>1. existing[q] # existing[o]
      BY <2>1, <2>2, <2>3, <2>4
    <3>2. QED
      BY <2>1, <2>4, <3>1 DEF Request
  <2>5. QED
    BY <2>1, <2>2, <2>4 DEF Request
<1>11. ASSUME NEW o \in Operations, NEW answer \in Answers, UndoMove(o, answer) PROVE
    RemovalsOfStep'
  BY <1>11 DEF UndoMove, Heard, Sends, Quiet, Request, Settles, Active
<1>12. ASSUME NEW o \in Operations, NEW answer \in Answers, RollbackMove(o, answer)
    PROVE RemovalsOfStep'
  BY <1>12 DEF RollbackMove, Heard, Sends, Quiet, Request, Settles, Active
<1>13. ASSUME NEW o \in Operations, NEW answer \in Answers, RestoreMove(o, answer)
    PROVE RemovalsOfStep'
  BY <1>13 DEF RestoreMove, Heard, Sends, Quiet, Request, Settles, Active
<1>14. ASSUME CrashMove PROVE RemovalsOfStep'
  BY <1>14 DEF CrashMove, Active
<1>15. ASSUME NEW x \in Waiting, TakeMove(x) PROVE RemovalsOfStep'
  BY <1>15 DEF TakeMove, Active
<1>16. ASSUME NEW x \in Waiting, PutMove(x) PROVE RemovalsOfStep'
  BY <1>16 DEF PutMove, Responds, Active
<1>17. ASSUME NEW x \in Waiting, RemoveMove(x) PROVE RemovalsOfStep'
  BY <1>17 DEF RemoveMove, Responds, Active
<1>18. ASSUME NEW x \in Waiting, GetMove(x) PROVE RemovalsOfStep'
  BY <1>18 DEF GetMove, Responds, Active
<1>19. ASSUME NEW x \in Waiting, RefuseMove(x) PROVE RemovalsOfStep'
  BY <1>19 DEF RefuseMove, Responds, Active
<1> HIDE DEF CredInv, TypeOK, StateTypes, Shapes, Waiting, Waits, Removing, Answers,
    RemovalsOfRow, RemovalsOfStep, MessagesOfStep, Same, Sent, RowsAndSteps, Origin,
    RowOfStep, Changing, KeyIsThere, HasKey
<1>20. QED
  BY <1>1, <1>2, <1>3, <1>4, <1>5, <1>6, <1>7, <1>8, <1>9, <1>10, <1>11, <1>12, <1>13,
      <1>14, <1>15, <1>16, <1>17, <1>18, <1>19 DEF Move
\* Keys that were removed are gone.
LEMMA AnsweredRemovalsKept == CredInv /\ Shapes /\ Move => AnsweredRemovals'
<1> SUFFICES ASSUME CredInv, Shapes, Move PROVE AnsweredRemovals'
  OBVIOUS
<1> USE CredentialsAssumption DEF CredInv, TypeOK, StateTypes, Shapes, Waiting, Waits,
    Removing, Answers, AnsweredRemovals, PutsOfStep, MessagesOfStep, Same, Sent,
    RowsAndSteps, Origin
<1>1. ASSUME NEW o \in Operations, NEW p \in Providers, SaveMove(o, p) PROVE
    AnsweredRemovals'
  BY <1>1 DEF SaveMove, Begins, Sends, Quiet, Request, Changing, Active
<1>2. ASSUME NEW o \in Operations, NEW p \in Providers, EditMove(o, p) PROVE
    AnsweredRemovals'
  BY <1>2 DEF EditMove, Begins, Sends, Quiet, Request, Changing, Active
<1>3. ASSUME NEW o \in Operations, NEW p \in Providers, ClearMove(o, p) PROVE
    AnsweredRemovals'
  BY <1>3 DEF ClearMove, Begins, Sends, Quiet, Request, Changing, HasKey, Active
<1>4. ASSUME NEW o \in Operations, NEW p \in Providers, DeleteMove(o, p) PROVE
    AnsweredRemovals'
  BY <1>4 DEF DeleteMove, Begins, Sends, Quiet, Request, Changing, HasKey, Active
<1>5. ASSUME NEW o \in Operations, NEW p \in Providers, ReadMove(o, p) PROVE
    AnsweredRemovals'
  BY <1>5 DEF ReadMove, Begins, Sends, Quiet, Request, Changing, HasKey, Active
<1>6. ASSUME NEW p \in Providers, AgentMove(p) PROVE AnsweredRemovals'
  BY <1>6 DEF AgentMove, Quiet, Active
<1>7. ASSUME StaleMove PROVE AnsweredRemovals'
  BY <1>7 DEF StaleMove, Quiet, Active
<1>8. ASSUME NEW o \in Operations, NEW answer \in Answers, EndMove(o, answer) PROVE
    AnsweredRemovals'
  BY <1>8 DEF EndMove, Heard, Sends, Quiet, Request, Settles, Active
<1>9. ASSUME NEW o \in Operations, NEW answer \in Answers, FirstKeyMove(o, answer)
    PROVE AnsweredRemovals'
  BY <1>9 DEF FirstKeyMove, Heard, Sends, Quiet, Request, Settles, Active
<1>10. ASSUME NEW o \in Operations, NEW answer \in Answers, NextKeyMove(o, answer)
    PROVE AnsweredRemovals'
  BY <1>10 DEF NextKeyMove, Heard, Sends, Quiet, Request, Settles, Active
<1>11. ASSUME NEW o \in Operations, NEW answer \in Answers, UndoMove(o, answer) PROVE
    AnsweredRemovals'
  BY <1>11 DEF UndoMove, Heard, Sends, Quiet, Request, Settles, Active
<1>12. ASSUME NEW o \in Operations, NEW answer \in Answers, RollbackMove(o, answer)
    PROVE AnsweredRemovals'
  BY <1>12 DEF RollbackMove, Heard, Sends, Quiet, Request, Settles, Active
<1>13. ASSUME NEW o \in Operations, NEW answer \in Answers, RestoreMove(o, answer)
    PROVE AnsweredRemovals'
  BY <1>13 DEF RestoreMove, Heard, Sends, Quiet, Request, Settles, Active
<1>14. ASSUME CrashMove PROVE AnsweredRemovals'
  BY <1>14 DEF CrashMove, Active
<1>15. ASSUME NEW x \in Waiting, TakeMove(x) PROVE AnsweredRemovals'
  BY <1>15 DEF TakeMove, Active
<1>16. ASSUME NEW x \in Waiting, PutMove(x) PROVE AnsweredRemovals'
  BY <1>16 DEF PutMove, Responds, Active
<1>17. ASSUME NEW x \in Waiting, RemoveMove(x) PROVE AnsweredRemovals'
  BY <1>17 DEF RemoveMove, Responds, Active
<1>18. ASSUME NEW x \in Waiting, GetMove(x) PROVE AnsweredRemovals'
  BY <1>18 DEF GetMove, Responds, Active
<1>19. ASSUME NEW x \in Waiting, RefuseMove(x) PROVE AnsweredRemovals'
  BY <1>19 DEF RefuseMove, Responds, Active
<1> HIDE DEF CredInv, TypeOK, StateTypes, Shapes, Waiting, Waits, Removing, Answers,
    AnsweredRemovals, PutsOfStep, MessagesOfStep, Same, Sent, RowsAndSteps, Origin
<1>20. QED
  BY <1>1, <1>2, <1>3, <1>4, <1>5, <1>6, <1>7, <1>8, <1>9, <1>10, <1>11, <1>12, <1>13,
      <1>14, <1>15, <1>16, <1>17, <1>18, <1>19 DEF Move
\* Reads come before removals.
LEMMA ReadsOfStepKept == CredInv /\ Shapes /\ Move => ReadsOfStep'
<1> SUFFICES ASSUME CredInv, Shapes, Move PROVE ReadsOfStep'
  OBVIOUS
<1> USE CredentialsAssumption DEF CredInv, TypeOK, StateTypes, Shapes, Waiting, Waits,
    Removing, Answers, ReadsOfStep, RemovalsOfRow, MessagesOfStep, Sent, RowsAndSteps,
    Origin, KeyIsThere, HasKey
<1>1. ASSUME NEW o \in Operations, NEW p \in Providers, SaveMove(o, p) PROVE
    ReadsOfStep'
  BY <1>1 DEF SaveMove, Begins, Sends, Quiet, Request, Changing, Active
<1>2. ASSUME NEW o \in Operations, NEW p \in Providers, EditMove(o, p) PROVE
    ReadsOfStep'
  BY <1>2 DEF EditMove, Begins, Sends, Quiet, Request, Changing, Active
<1>3. ASSUME NEW o \in Operations, NEW p \in Providers, ClearMove(o, p) PROVE
    ReadsOfStep'
  BY <1>3 DEF ClearMove, Begins, Sends, Quiet, Request, Changing, HasKey, Active
<1>4. ASSUME NEW o \in Operations, NEW p \in Providers, DeleteMove(o, p) PROVE
    ReadsOfStep'
  <2>1. /\ step[o] = "new" /\ provider' = [provider EXCEPT ![o] = p] /\ spoiled \subseteq spoiled'
        /\ vault' = vault /\ Worked' = Worked /\ Queued' = Queued \cup {Request("deleting", row[p], o)}
    BY <1>4 DEF DeleteMove, Begins, Sends
  <2>2. \A x \in Waiting : x.reference # o
    BY <2>1
  <2>3. QED
    BY <2>1, <2>2 DEF Request
<1>5. ASSUME NEW o \in Operations, NEW p \in Providers, ReadMove(o, p) PROVE
    ReadsOfStep'
  <2>1. /\ step[o] = "new" /\ provider' = [provider EXCEPT ![o] = p] /\ spoiled \subseteq spoiled'
        /\ vault' = vault /\ Worked' = Worked /\ Queued' = Queued \cup {Request("reading", row[p], o)}
        /\ row[p] \in Operations
    BY <1>5 DEF ReadMove, Begins, Sends, HasKey
  <2>2. \A x \in Waiting : x.reference # o
    BY <2>1
  <2>3. provider[row[p]] = p /\ row[p] # o
    BY <2>1
  <2>4. p \notin spoiled => row[p] \in vault /\ \A y \in Waiting : y.type = "delete" => y.reference # row[p]
    BY <2>1, <2>3
  <2>5. QED
    BY <2>1, <2>2, <2>3, <2>4 DEF Request
<1>6. ASSUME NEW p \in Providers, AgentMove(p) PROVE ReadsOfStep'
  BY <1>6 DEF AgentMove, Quiet, Active
<1>7. ASSUME StaleMove PROVE ReadsOfStep'
  BY <1>7 DEF StaleMove, Quiet, Active
<1>8. ASSUME NEW o \in Operations, NEW answer \in Answers, EndMove(o, answer) PROVE
    ReadsOfStep'
  BY <1>8 DEF EndMove, Heard, Sends, Quiet, Request, Settles, Active
<1>9. ASSUME NEW o \in Operations, NEW answer \in Answers, FirstKeyMove(o, answer)
    PROVE ReadsOfStep'
  BY <1>9 DEF FirstKeyMove, Heard, Sends, Quiet, Request, Settles, Active
<1>10. ASSUME NEW o \in Operations, NEW answer \in Answers, NextKeyMove(o, answer)
    PROVE ReadsOfStep'
  BY <1>10 DEF NextKeyMove, Heard, Sends, Quiet, Request, Settles, Active
<1>11. ASSUME NEW o \in Operations, NEW answer \in Answers, UndoMove(o, answer) PROVE
    ReadsOfStep'
  BY <1>11 DEF UndoMove, Heard, Sends, Quiet, Request, Settles, Active
<1>12. ASSUME NEW o \in Operations, NEW answer \in Answers, RollbackMove(o, answer)
    PROVE ReadsOfStep'
  BY <1>12 DEF RollbackMove, Heard, Sends, Quiet, Request, Settles, Active
<1>13. ASSUME NEW o \in Operations, NEW answer \in Answers, RestoreMove(o, answer)
    PROVE ReadsOfStep'
  BY <1>13 DEF RestoreMove, Heard, Sends, Quiet, Request, Settles, Active
<1>14. ASSUME CrashMove PROVE ReadsOfStep'
  BY <1>14 DEF CrashMove, Active
<1>15. ASSUME NEW x \in Waiting, TakeMove(x) PROVE ReadsOfStep'
  BY <1>15 DEF TakeMove, Active
<1>16. ASSUME NEW x \in Waiting, PutMove(x) PROVE ReadsOfStep'
  BY <1>16 DEF PutMove, Responds, Active
<1>17. ASSUME NEW x \in Waiting, RemoveMove(x) PROVE ReadsOfStep'
  BY <1>17 DEF RemoveMove, Responds, Active
<1>18. ASSUME NEW x \in Waiting, GetMove(x) PROVE ReadsOfStep'
  BY <1>18 DEF GetMove, Responds, Active
<1>19. ASSUME NEW x \in Waiting, RefuseMove(x) PROVE ReadsOfStep'
  BY <1>19 DEF RefuseMove, Responds, Active
<1> HIDE DEF CredInv, TypeOK, StateTypes, Shapes, Waiting, Waits, Removing, Answers,
    ReadsOfStep, RemovalsOfRow, MessagesOfStep, Sent, RowsAndSteps, Origin, KeyIsThere,
    HasKey
<1>20. QED
  BY <1>1, <1>2, <1>3, <1>4, <1>5, <1>6, <1>7, <1>8, <1>9, <1>10, <1>11, <1>12, <1>13,
      <1>14, <1>15, <1>16, <1>17, <1>18, <1>19 DEF Move
\* A read finds its key.
LEMMA AnsweredReadsKept == CredInv /\ Shapes /\ Move => AnsweredReads'
<1> SUFFICES ASSUME CredInv, Shapes, Move PROVE AnsweredReads'
  OBVIOUS
<1> USE CredentialsAssumption DEF CredInv, TypeOK, StateTypes, Shapes, Waiting, Waits,
    Removing, Answers, AnsweredReads, ReadsOfStep, MessagesOfStep, Sent, RowsAndSteps,
    Origin
<1>1. ASSUME NEW o \in Operations, NEW p \in Providers, SaveMove(o, p) PROVE
    AnsweredReads'
  BY <1>1 DEF SaveMove, Begins, Sends, Quiet, Request, Changing, Active
<1>2. ASSUME NEW o \in Operations, NEW p \in Providers, EditMove(o, p) PROVE
    AnsweredReads'
  BY <1>2 DEF EditMove, Begins, Sends, Quiet, Request, Changing, Active
<1>3. ASSUME NEW o \in Operations, NEW p \in Providers, ClearMove(o, p) PROVE
    AnsweredReads'
  BY <1>3 DEF ClearMove, Begins, Sends, Quiet, Request, Changing, HasKey, Active
<1>4. ASSUME NEW o \in Operations, NEW p \in Providers, DeleteMove(o, p) PROVE
    AnsweredReads'
  BY <1>4 DEF DeleteMove, Begins, Sends, Quiet, Request, Changing, HasKey, Active
<1>5. ASSUME NEW o \in Operations, NEW p \in Providers, ReadMove(o, p) PROVE
    AnsweredReads'
  BY <1>5 DEF ReadMove, Begins, Sends, Quiet, Request, Changing, HasKey, Active
<1>6. ASSUME NEW p \in Providers, AgentMove(p) PROVE AnsweredReads'
  BY <1>6 DEF AgentMove, Quiet, Active
<1>7. ASSUME StaleMove PROVE AnsweredReads'
  BY <1>7 DEF StaleMove, Quiet, Active
<1>8. ASSUME NEW o \in Operations, NEW answer \in Answers, EndMove(o, answer) PROVE
    AnsweredReads'
  BY <1>8 DEF EndMove, Heard, Sends, Quiet, Request, Settles, Active
<1>9. ASSUME NEW o \in Operations, NEW answer \in Answers, FirstKeyMove(o, answer)
    PROVE AnsweredReads'
  BY <1>9 DEF FirstKeyMove, Heard, Sends, Quiet, Request, Settles, Active
<1>10. ASSUME NEW o \in Operations, NEW answer \in Answers, NextKeyMove(o, answer)
    PROVE AnsweredReads'
  BY <1>10 DEF NextKeyMove, Heard, Sends, Quiet, Request, Settles, Active
<1>11. ASSUME NEW o \in Operations, NEW answer \in Answers, UndoMove(o, answer) PROVE
    AnsweredReads'
  BY <1>11 DEF UndoMove, Heard, Sends, Quiet, Request, Settles, Active
<1>12. ASSUME NEW o \in Operations, NEW answer \in Answers, RollbackMove(o, answer)
    PROVE AnsweredReads'
  BY <1>12 DEF RollbackMove, Heard, Sends, Quiet, Request, Settles, Active
<1>13. ASSUME NEW o \in Operations, NEW answer \in Answers, RestoreMove(o, answer)
    PROVE AnsweredReads'
  BY <1>13 DEF RestoreMove, Heard, Sends, Quiet, Request, Settles, Active
<1>14. ASSUME CrashMove PROVE AnsweredReads'
  BY <1>14 DEF CrashMove, Active
<1>15. ASSUME NEW x \in Waiting, TakeMove(x) PROVE AnsweredReads'
  BY <1>15 DEF TakeMove, Active
<1>16. ASSUME NEW x \in Waiting, PutMove(x) PROVE AnsweredReads'
  BY <1>16 DEF PutMove, Responds, Active
<1>17. ASSUME NEW x \in Waiting, RemoveMove(x) PROVE AnsweredReads'
  BY <1>17 DEF RemoveMove, Responds, Active
<1>18. ASSUME NEW x \in Waiting, GetMove(x) PROVE AnsweredReads'
  BY <1>18 DEF GetMove, Responds, Active
<1>19. ASSUME NEW x \in Waiting, RefuseMove(x) PROVE AnsweredReads'
  BY <1>19 DEF RefuseMove, Responds, Active
<1> HIDE DEF CredInv, TypeOK, StateTypes, Shapes, Waiting, Waits, Removing, Answers,
    AnsweredReads, ReadsOfStep, MessagesOfStep, Sent, RowsAndSteps, Origin
<1>20. QED
  BY <1>1, <1>2, <1>3, <1>4, <1>5, <1>6, <1>7, <1>8, <1>9, <1>10, <1>11, <1>12, <1>13,
      <1>14, <1>15, <1>16, <1>17, <1>18, <1>19 DEF Move
\* Keys are named by rows or are about to go.
LEMMA KeysOfStepKept == CredInv /\ Shapes /\ Move => KeysOfStep'
<1> SUFFICES ASSUME CredInv, Shapes, Move PROVE KeysOfStep'
  OBVIOUS
<1> USE CredentialsAssumption DEF CredInv, TypeOK, StateTypes, Shapes, Waiting, Waits,
    Removing, Answers, KeysOfStep, AnsweredPuts, AnsweredRemovals, AnsweredReads,
    PutsOfStep, RowOfStep, Changing, RowsAndSteps, Origin, MessagesOfStep, Sent
<1>1. ASSUME NEW o \in Operations, NEW p \in Providers, SaveMove(o, p) PROVE KeysOfStep'
  BY <1>1 DEF SaveMove, Begins, Sends, Quiet, Request, Changing, Active
<1>2. ASSUME NEW o \in Operations, NEW p \in Providers, EditMove(o, p) PROVE KeysOfStep'
  BY <1>2 DEF EditMove, Begins, Sends, Quiet, Request, Changing, Active
<1>3. ASSUME NEW o \in Operations, NEW p \in Providers, ClearMove(o, p) PROVE
    KeysOfStep'
  BY <1>3 DEF ClearMove, Begins, Sends, Quiet, Request, Changing, HasKey, Active
<1>4. ASSUME NEW o \in Operations, NEW p \in Providers, DeleteMove(o, p) PROVE
    KeysOfStep'
  BY <1>4 DEF DeleteMove, Begins, Sends, Quiet, Request, Changing, HasKey, Active
<1>5. ASSUME NEW o \in Operations, NEW p \in Providers, ReadMove(o, p) PROVE KeysOfStep'
  BY <1>5 DEF ReadMove, Begins, Sends, Quiet, Request, Changing, HasKey, Active
<1>6. ASSUME NEW p \in Providers, AgentMove(p) PROVE KeysOfStep'
  BY <1>6 DEF AgentMove, Quiet, Active
<1>7. ASSUME StaleMove PROVE KeysOfStep'
  BY <1>7 DEF StaleMove, Quiet, Active
<1>8. ASSUME NEW o \in Operations, NEW answer \in Answers, EndMove(o, answer) PROVE
    KeysOfStep'
  BY <1>8 DEF EndMove, Heard, Sends, Quiet, Request, Settles, Active
<1>9. ASSUME NEW o \in Operations, NEW answer \in Answers, FirstKeyMove(o, answer)
    PROVE KeysOfStep'
  BY <1>9 DEF FirstKeyMove, Heard, Sends, Quiet, Request, Settles, Active
<1>10. ASSUME NEW o \in Operations, NEW answer \in Answers, NextKeyMove(o, answer)
    PROVE KeysOfStep'
  BY <1>10 DEF NextKeyMove, Heard, Sends, Quiet, Request, Settles, Active
<1>11. ASSUME NEW o \in Operations, NEW answer \in Answers, UndoMove(o, answer) PROVE
    KeysOfStep'
  BY <1>11 DEF UndoMove, Heard, Sends, Quiet, Request, Settles, Active
<1>12. ASSUME NEW o \in Operations, NEW answer \in Answers, RollbackMove(o, answer)
    PROVE KeysOfStep'
  <2>1. /\ UNCHANGED <<vault, provider, existing>>
        /\ spoiled \subseteq spoiled' /\ abandoned \subseteq abandoned'
        /\ step[o] = "dropping" /\ step' = [step EXCEPT ![o] = "undoing"]
        /\ row' = [row EXCEPT ![provider[o]] = existing[o]]
    BY <1>12 DEF RollbackMove, Heard
  <2>2. ASSUME NEW k \in vault, row[provider[k]] = k
        PROVE  \/ row'[provider[k]] = k \/ provider[k] \in spoiled' \/ step'[k] = "undoing"
    BY <2>1, <2>2
  <2>3. ASSUME NEW k \in vault, existing[o] = k
        PROVE  row'[provider[k]] = k
    BY <2>1, <2>3
  <2>4. QED
    BY <2>1, <2>2, <2>3
<1>13. ASSUME NEW o \in Operations, NEW answer \in Answers, RestoreMove(o, answer)
    PROVE KeysOfStep'
  BY <1>13 DEF RestoreMove, Heard, Sends, Quiet, Request, Settles, Active
<1>14. ASSUME CrashMove PROVE KeysOfStep'
  BY <1>14 DEF CrashMove, Active
<1>15. ASSUME NEW x \in Waiting, TakeMove(x) PROVE KeysOfStep'
  BY <1>15 DEF TakeMove, Active
<1>16. ASSUME NEW x \in Waiting, PutMove(x) PROVE KeysOfStep'
  BY <1>16 DEF PutMove, Responds, Active
<1>17. ASSUME NEW x \in Waiting, RemoveMove(x) PROVE KeysOfStep'
  BY <1>17 DEF RemoveMove, Responds, Active
<1>18. ASSUME NEW x \in Waiting, GetMove(x) PROVE KeysOfStep'
  BY <1>18 DEF GetMove, Responds, Active
<1>19. ASSUME NEW x \in Waiting, RefuseMove(x) PROVE KeysOfStep'
  BY <1>19 DEF RefuseMove, Responds, Active
<1> HIDE DEF CredInv, TypeOK, StateTypes, Shapes, Waiting, Waits, Removing, Answers,
    KeysOfStep, AnsweredPuts, AnsweredRemovals, AnsweredReads, PutsOfStep, RowOfStep,
    Changing, RowsAndSteps, Origin, MessagesOfStep, Sent
<1>20. QED
  BY <1>1, <1>2, <1>3, <1>4, <1>5, <1>6, <1>7, <1>8, <1>9, <1>10, <1>11, <1>12, <1>13,
      <1>14, <1>15, <1>16, <1>17, <1>18, <1>19 DEF Move
\* Rows name what is there.
LEMMA KeyIsThereKept == CredInv /\ Shapes /\ Move => KeyIsThere'
<1> SUFFICES ASSUME CredInv, Shapes, Move PROVE KeyIsThere'
  OBVIOUS
<1> USE CredentialsAssumption DEF CredInv, TypeOK, StateTypes, Shapes, Waiting, Waits,
    Removing, Answers, KeyIsThere, HasKey, AnsweredPuts, RemovalsOfRow, RemovalsOfStep,
    RowsAndSteps, Origin, Same
<1>1. ASSUME NEW o \in Operations, NEW p \in Providers, SaveMove(o, p) PROVE KeyIsThere'
  BY <1>1 DEF SaveMove, Begins, Sends, Quiet, Request, Changing, Active
<1>2. ASSUME NEW o \in Operations, NEW p \in Providers, EditMove(o, p) PROVE KeyIsThere'
  BY <1>2 DEF EditMove, Begins, Sends, Quiet, Request, Changing, Active
<1>3. ASSUME NEW o \in Operations, NEW p \in Providers, ClearMove(o, p) PROVE
    KeyIsThere'
  BY <1>3 DEF ClearMove, Begins, Sends, Quiet, Request, Changing, HasKey, Active
<1>4. ASSUME NEW o \in Operations, NEW p \in Providers, DeleteMove(o, p) PROVE
    KeyIsThere'
  BY <1>4 DEF DeleteMove, Begins, Sends, Quiet, Request, Changing, HasKey, Active
<1>5. ASSUME NEW o \in Operations, NEW p \in Providers, ReadMove(o, p) PROVE KeyIsThere'
  BY <1>5 DEF ReadMove, Begins, Sends, Quiet, Request, Changing, HasKey, Active
<1>6. ASSUME NEW p \in Providers, AgentMove(p) PROVE KeyIsThere'
  BY <1>6 DEF AgentMove, Quiet, Active
<1>7. ASSUME StaleMove PROVE KeyIsThere'
  BY <1>7 DEF StaleMove, Quiet, Active
<1>8. ASSUME NEW o \in Operations, NEW answer \in Answers, EndMove(o, answer) PROVE
    KeyIsThere'
  BY <1>8 DEF EndMove, Heard, Sends, Quiet, Request, Settles, Active
<1>9. ASSUME NEW o \in Operations, NEW answer \in Answers, FirstKeyMove(o, answer)
    PROVE KeyIsThere'
  BY <1>9 DEF FirstKeyMove, Heard, Sends, Quiet, Request, Settles, Active
<1>10. ASSUME NEW o \in Operations, NEW answer \in Answers, NextKeyMove(o, answer)
    PROVE KeyIsThere'
  BY <1>10 DEF NextKeyMove, Heard, Sends, Quiet, Request, Settles, Active
<1>11. ASSUME NEW o \in Operations, NEW answer \in Answers, UndoMove(o, answer) PROVE
    KeyIsThere'
  BY <1>11 DEF UndoMove, Heard, Sends, Quiet, Request, Settles, Active
<1>12. ASSUME NEW o \in Operations, NEW answer \in Answers, RollbackMove(o, answer)
    PROVE KeyIsThere'
  <2>1. ASSUME provider[o] \notin spoiled' PROVE existing[o] \in vault
    <3>1. /\ step[o] = "dropping" /\ answer # "ok" /\ provider[o] \notin spoiled
          /\ [from |-> o, wait |-> step[o], answer |-> answer] \in Answered
          /\ \A b \in Answered' : b.from # o \/ b.wait # step[o]
          /\ Answered' = Answered \ {[from |-> o, wait |-> step[o], answer |-> answer]}
      BY <1>12, <2>1 DEF RollbackMove, Heard
    <3>2. [from |-> o, wait |-> step[o], answer |-> "ok"] \notin Answered
      BY <3>1
    <3>3. QED
      BY <3>1, <3>2
  <2>2. QED
    BY <1>12, <2>1 DEF RollbackMove, Heard
<1>13. ASSUME NEW o \in Operations, NEW answer \in Answers, RestoreMove(o, answer)
    PROVE KeyIsThere'
  <2>1. ASSUME provider[o] \notin spoiled' PROVE existing[o] \in vault
    <3>1. /\ step[o] \in Removing /\ answer # "ok" /\ provider[o] \notin spoiled
          /\ \A b \in Answered' : b.from # o \/ b.wait # step[o]
          /\ Answered' = Answered \ {[from |-> o, wait |-> step[o], answer |-> answer]}
      BY <1>13, <2>1 DEF RestoreMove, Heard
    <3>2. [from |-> o, wait |-> step[o], answer |-> "ok"] \notin Answered
      BY <3>1
    <3>3. QED
      BY <3>1, <3>2
  <2>2. QED
    BY <1>13, <2>1 DEF RestoreMove, Heard
<1>14. ASSUME CrashMove PROVE KeyIsThere'
  BY <1>14 DEF CrashMove, Active
<1>15. ASSUME NEW x \in Waiting, TakeMove(x) PROVE KeyIsThere'
  BY <1>15 DEF TakeMove, Active
<1>16. ASSUME NEW x \in Waiting, PutMove(x) PROVE KeyIsThere'
  BY <1>16 DEF PutMove, Responds, Active
<1>17. ASSUME NEW x \in Waiting, RemoveMove(x) PROVE KeyIsThere'
  BY <1>17 DEF RemoveMove, Responds, Active
<1>18. ASSUME NEW x \in Waiting, GetMove(x) PROVE KeyIsThere'
  BY <1>18 DEF GetMove, Responds, Active
<1>19. ASSUME NEW x \in Waiting, RefuseMove(x) PROVE KeyIsThere'
  BY <1>19 DEF RefuseMove, Responds, Active
<1> HIDE DEF CredInv, TypeOK, StateTypes, Shapes, Waiting, Waits, Removing, Answers,
    KeyIsThere, HasKey, AnsweredPuts, RemovalsOfRow, RemovalsOfStep, RowsAndSteps, Origin,
    Same
<1>20. QED
  BY <1>1, <1>2, <1>3, <1>4, <1>5, <1>6, <1>7, <1>8, <1>9, <1>10, <1>11, <1>12, <1>13,
      <1>14, <1>15, <1>16, <1>17, <1>18, <1>19 DEF Move
\* Runs find their keys.
LEMMA RunFindsItsKeyKept == CredInv /\ Shapes /\ Move => RunFindsItsKey'
<1> SUFFICES ASSUME CredInv, Shapes, Move PROVE RunFindsItsKey'
  OBVIOUS
<1> USE CredentialsAssumption DEF CredInv, TypeOK, StateTypes, Shapes, Waiting, Waits,
    Removing, Answers, RunFindsItsKey, AnsweredReads, RowsAndSteps
<1>1. ASSUME NEW o \in Operations, NEW p \in Providers, SaveMove(o, p) PROVE
    RunFindsItsKey'
  BY <1>1 DEF SaveMove, Begins, Sends, Quiet, Request, Changing, Active
<1>2. ASSUME NEW o \in Operations, NEW p \in Providers, EditMove(o, p) PROVE
    RunFindsItsKey'
  BY <1>2 DEF EditMove, Begins, Sends, Quiet, Request, Changing, Active
<1>3. ASSUME NEW o \in Operations, NEW p \in Providers, ClearMove(o, p) PROVE
    RunFindsItsKey'
  BY <1>3 DEF ClearMove, Begins, Sends, Quiet, Request, Changing, HasKey, Active
<1>4. ASSUME NEW o \in Operations, NEW p \in Providers, DeleteMove(o, p) PROVE
    RunFindsItsKey'
  BY <1>4 DEF DeleteMove, Begins, Sends, Quiet, Request, Changing, HasKey, Active
<1>5. ASSUME NEW o \in Operations, NEW p \in Providers, ReadMove(o, p) PROVE
    RunFindsItsKey'
  BY <1>5 DEF ReadMove, Begins, Sends, Quiet, Request, Changing, HasKey, Active
<1>6. ASSUME NEW p \in Providers, AgentMove(p) PROVE RunFindsItsKey'
  BY <1>6 DEF AgentMove, Quiet, Active
<1>7. ASSUME StaleMove PROVE RunFindsItsKey'
  BY <1>7 DEF StaleMove, Quiet, Active
<1>8. ASSUME NEW o \in Operations, NEW answer \in Answers, EndMove(o, answer) PROVE
    RunFindsItsKey'
  BY <1>8 DEF EndMove, Heard, Sends, Quiet, Request, Settles, Active
<1>9. ASSUME NEW o \in Operations, NEW answer \in Answers, FirstKeyMove(o, answer)
    PROVE RunFindsItsKey'
  BY <1>9 DEF FirstKeyMove, Heard, Sends, Quiet, Request, Settles, Active
<1>10. ASSUME NEW o \in Operations, NEW answer \in Answers, NextKeyMove(o, answer)
    PROVE RunFindsItsKey'
  BY <1>10 DEF NextKeyMove, Heard, Sends, Quiet, Request, Settles, Active
<1>11. ASSUME NEW o \in Operations, NEW answer \in Answers, UndoMove(o, answer) PROVE
    RunFindsItsKey'
  BY <1>11 DEF UndoMove, Heard, Sends, Quiet, Request, Settles, Active
<1>12. ASSUME NEW o \in Operations, NEW answer \in Answers, RollbackMove(o, answer)
    PROVE RunFindsItsKey'
  BY <1>12 DEF RollbackMove, Heard, Sends, Quiet, Request, Settles, Active
<1>13. ASSUME NEW o \in Operations, NEW answer \in Answers, RestoreMove(o, answer)
    PROVE RunFindsItsKey'
  BY <1>13 DEF RestoreMove, Heard, Sends, Quiet, Request, Settles, Active
<1>14. ASSUME CrashMove PROVE RunFindsItsKey'
  BY <1>14 DEF CrashMove, Active
<1>15. ASSUME NEW x \in Waiting, TakeMove(x) PROVE RunFindsItsKey'
  BY <1>15 DEF TakeMove, Active
<1>16. ASSUME NEW x \in Waiting, PutMove(x) PROVE RunFindsItsKey'
  BY <1>16 DEF PutMove, Responds, Active
<1>17. ASSUME NEW x \in Waiting, RemoveMove(x) PROVE RunFindsItsKey'
  BY <1>17 DEF RemoveMove, Responds, Active
<1>18. ASSUME NEW x \in Waiting, GetMove(x) PROVE RunFindsItsKey'
  BY <1>18 DEF GetMove, Responds, Active
<1>19. ASSUME NEW x \in Waiting, RefuseMove(x) PROVE RunFindsItsKey'
  BY <1>19 DEF RefuseMove, Responds, Active
<1> HIDE DEF CredInv, TypeOK, StateTypes, Shapes, Waiting, Waits, Removing, Answers,
    RunFindsItsKey, AnsweredReads, RowsAndSteps
<1>20. QED
  BY <1>1, <1>2, <1>3, <1>4, <1>5, <1>6, <1>7, <1>8, <1>9, <1>10, <1>11, <1>12, <1>13,
      <1>14, <1>15, <1>16, <1>17, <1>18, <1>19 DEF Move
------------------------------------------------------------------------------
(* The order of messages.                                                  *)

LEMMA RangeOfAppend ==
  ASSUME NEW S, NEW s \in Seq(S), NEW e \in S
  PROVE  Range(Append(s, e)) = Range(s) \cup {e}
<1> DEFINE t == Append(s, e)
<1>1. /\ t \in Seq(S) /\ Len(t) = Len(s) + 1 /\ t[Len(s) + 1] = e
      /\ \A i \in 1 .. Len(s) : t[i] = s[i]
  BY AppendProperties
<1>2. DOMAIN s = 1 .. Len(s) /\ DOMAIN t = 1 .. Len(s) + 1 /\ Len(s) \in Nat
  BY <1>1, LenProperties
<1> HIDE DEF t
<1>3. DOMAIN t = DOMAIN s \cup {Len(s) + 1}
  BY <1>2
<1>4. QED
  BY <1>1, <1>2, <1>3 DEF Range

\* One more, unlike the others, behind a sequence.
LEMMA OneMore ==
  ASSUME NEW S, NEW s \in Seq(S), NEW e \in S
  PROVE  /\ OnceOnly(s) /\ (\A y \in Range(s) : ~Same(y, e)) => OnceOnly(Append(s, e))
         /\ \A r : /\ Ahead(s, r)
                   /\ ~(/\ e.type = "get" /\ e.reference = r
                        /\ \E y \in Range(s) : y.type = "delete" /\ y.reference = r)
                   /\ ~(e.type = "get" /\ e.type = "delete")
                   => Ahead(Append(s, e), r)
<1> DEFINE t == Append(s, e)
<1>1. /\ t \in Seq(S) /\ Len(t) = Len(s) + 1 /\ t[Len(s) + 1] = e
      /\ \A i \in 1 .. Len(s) : t[i] = s[i]
  BY AppendProperties
<1>2. DOMAIN s = 1 .. Len(s) /\ DOMAIN t = 1 .. Len(s) + 1 /\ Len(s) \in Nat
  BY <1>1, LenProperties
<1> HIDE DEF t
<1>3. /\ DOMAIN t = DOMAIN s \cup {Len(s) + 1}
      /\ \A i \in DOMAIN s : t[i] = s[i] /\ i < Len(s) + 1 /\ ~(Len(s) + 1 < i)
      /\ Len(s) + 1 \notin DOMAIN s /\ t[Len(s) + 1] = e
      /\ ~(Len(s) + 1 < Len(s) + 1)
  BY <1>1, <1>2
<1>4. ASSUME OnceOnly(s), \A y \in Range(s) : ~Same(y, e) PROVE OnceOnly(t)
  <2>1. \A i \in DOMAIN s : ~Same(s[i], e) /\ ~Same(e, s[i])
    BY <1>4 DEF Range, Same
  <2>2. QED
    BY <1>3, <1>4, <2>1 DEF OnceOnly
<1>5. ASSUME NEW r, Ahead(s, r), ~(e.type = "get" /\ e.type = "delete"),
             ~(/\ e.type = "get" /\ e.reference = r
               /\ \E y \in Range(s) : y.type = "delete" /\ y.reference = r)
      PROVE  Ahead(t, r)
  <2>1. \A i \in DOMAIN s : ~(e.type = "get" /\ e.reference = r /\ s[i].type = "delete" /\ s[i].reference = r)
    BY <1>5 DEF Range
  <2>2. QED
    BY <1>3, <1>5, <2>1 DEF Ahead
<1>6. QED
  BY <1>4, <1>5 DEF t

\* A piece of a sequence keeps what each two of its elements are to each other.
LEMMA PieceOf ==
  ASSUME NEW s, NEW t, NEW k \in Int, DOMAIN s \subseteq Int, DOMAIN t \subseteq Int,
         \A i \in DOMAIN t : i + k \in DOMAIN s /\ t[i] = s[i + k]
  PROVE  /\ Range(t) \subseteq Range(s)
         /\ OnceOnly(s) => OnceOnly(t)
         /\ \A r : Ahead(s, r) => Ahead(t, r)
<1>1. Range(t) \subseteq Range(s)
  BY DEF Range
<1>2. ASSUME OnceOnly(s) PROVE OnceOnly(t)
  <2> SUFFICES ASSUME NEW i \in DOMAIN t, NEW j \in DOMAIN t, Same(t[i], t[j]) PROVE i = j
    BY DEF OnceOnly
  <2>1. i + k \in DOMAIN s /\ j + k \in DOMAIN s /\ Same(s[i + k], s[j + k])
    OBVIOUS
  <2>2. i + k = j + k
    BY <1>2, <2>1 DEF OnceOnly
  <2>3. QED
    BY <2>2
<1>3. ASSUME NEW r, Ahead(s, r) PROVE Ahead(t, r)
  BY <1>3 DEF Ahead
<1>4. QED
  BY <1>1, <1>2, <1>3

\* The first one is unlike the others, and no removal of what they read.
LEMMA TailOf ==
  ASSUME NEW S, NEW s \in Seq(S), s # <<>>
  PROVE  /\ Head(s) \in S /\ Tail(s) \in Seq(S)
         /\ Range(s) = Range(Tail(s)) \cup {Head(s)}
         /\ OnceOnly(s) => OnceOnly(Tail(s))
         /\ OnceOnly(s) => \A y \in Range(Tail(s)) : ~Same(y, Head(s))
         /\ \A r : Ahead(s, r) => Ahead(Tail(s), r)
         /\ \A r : Ahead(s, r) /\ Head(s).type = "delete" /\ Head(s).reference = r =>
                \A y \in Range(Tail(s)) : y.type = "get" => y.reference # r
<1> DEFINE t == Tail(s)
<1>1. /\ Head(s) \in S /\ t \in Seq(S) /\ Len(t) = Len(s) - 1 /\ Len(s) \in Nat \ {0}
      /\ Head(s) = s[1] /\ \A i \in 1 .. Len(t) : t[i] = s[i + 1]
  BY HeadTailProperties, EmptySeq, LenProperties
<1>2. DOMAIN s = 1 .. Len(s) /\ DOMAIN t = 1 .. Len(s) - 1
  BY <1>1, LenProperties
<1> HIDE DEF t
<1>3. DOMAIN s \subseteq Int /\ DOMAIN t \subseteq Int /\ 1 \in DOMAIN s
  BY <1>1, <1>2
<1>4. \A i \in DOMAIN t : i + 1 \in DOMAIN s /\ t[i] = s[i + 1] /\ 1 < i + 1
  BY <1>1, <1>2
<1>5. /\ Range(t) \subseteq Range(s)
      /\ OnceOnly(s) => OnceOnly(t)
      /\ \A r : Ahead(s, r) => Ahead(t, r)
  BY <1>3, <1>4, PieceOf
<1>6. \A i \in DOMAIN s : i = 1 \/ (i - 1 \in DOMAIN t /\ t[i - 1] = s[i])
  <2>1. ASSUME NEW i \in DOMAIN s, i # 1 PROVE i - 1 \in DOMAIN t /\ t[i - 1] = s[i]
    <3>1. i - 1 \in DOMAIN t /\ (i - 1) + 1 = i
      BY <1>1, <1>2, <2>1
    <3>2. QED
      BY <1>4, <3>1
  <2>2. QED
    BY <2>1, Zenon
<1>7. Range(s) = Range(t) \cup {Head(s)}
  <2>1. ASSUME NEW y \in Range(s) PROVE y \in Range(t) \cup {Head(s)}
    <3>1. PICK i \in DOMAIN s : y = s[i]
      BY DEF Range
    <3>2. QED
      BY <1>1, <1>6, <3>1 DEF Range
  <2>2. Head(s) \in Range(s)
    BY <1>1, <1>3 DEF Range
  <2>3. QED
    BY <1>5, <2>1, <2>2, Zenon
<1>8. ASSUME OnceOnly(s), NEW y \in Range(t) PROVE ~Same(y, Head(s))
  <2>1. PICK i \in DOMAIN t : y = t[i]
    BY DEF Range
  <2>2. i \in Int /\ i + 1 \in DOMAIN s /\ y = s[i + 1] /\ i + 1 # 1
    BY <1>3, <1>4, <2>1
  <2>3. QED
    BY <1>1, <1>3, <1>8, <2>2 DEF OnceOnly
<1>9. ASSUME NEW r, Ahead(s, r), s[1].type = "delete", s[1].reference = r, NEW y \in Range(t), y.type = "get"
      PROVE  y.reference # r
  <2>1. PICK i \in DOMAIN t : y = t[i]
    BY DEF Range
  <2>2. i \in Int /\ i + 1 \in DOMAIN s /\ y = s[i + 1] /\ ~(i + 1 < 1)
    BY <1>3, <1>4, <2>1
  <2>3. QED
    BY <1>3, <1>9, <2>2 DEF Ahead
<1>10. QED
  BY <1>1, <1>5, <1>7, <1>8, <1>9 DEF t

\* The requests that are left when the last ones are lost.
LEMMA PrefixOf ==
  ASSUME NEW S, NEW s \in Seq(S), NEW n \in 0 .. Len(s)
  PROVE  /\ SubSeq(s, 1, n) \in Seq(S)
         /\ Range(SubSeq(s, 1, n)) \subseteq Range(s)
         /\ OnceOnly(s) => OnceOnly(SubSeq(s, 1, n))
         /\ \A r : Ahead(s, r) => Ahead(SubSeq(s, 1, n), r)
<1> DEFINE t == SubSeq(s, 1, n)
<1>1. Len(s) \in Nat /\ DOMAIN s = 1 .. Len(s)
  BY LenProperties
<1>2. \A i \in 1 .. n : s[i] \in S
  BY <1>1, ElementOfSeq
<1>3. t \in Seq(S) /\ Len(t) = n /\ \A i \in 1 .. n : t[i] = s[i]
  BY <1>1, <1>2, SubSeqProperties
<1>4. DOMAIN t = 1 .. n
  BY <1>3, LenProperties
<1> HIDE DEF t
<1>5. \A i \in DOMAIN t : i + 0 \in DOMAIN s /\ t[i] = s[i + 0]
  BY <1>1, <1>3, <1>4
<1>6. DOMAIN s \subseteq Int /\ DOMAIN t \subseteq Int
  BY <1>1, <1>4
<1>7. /\ Range(t) \subseteq Range(s)
      /\ OnceOnly(s) => OnceOnly(t)
      /\ \A r : Ahead(s, r) => Ahead(t, r)
  BY <1>5, <1>6, PieceOf
<1>8. QED
  BY <1>3, <1>7, Zenon DEF t

\* What a Move does to the queue, to the answers and to the jobs.
QueueSteps ==
    /\ \/ UNCHANGED queue
       \/ \E x \in Requests :
            /\ queue' = Append(queue, x)
            /\ \A y \in Queued : ~Same(y, x)
            /\ x.type = "get" /\ provider'[x.reference] \notin spoiled' =>
                 \A y \in Queued : y.type = "delete" => y.reference # x.reference
       \/ queue # <<>> /\ queue' = Tail(queue)
       \/ \E n \in 0 .. Len(queue) : queue' = SubSeq(queue, 1, n)
    /\ \A r \in Operations :
         provider'[r] \notin spoiled' =>
            provider[r] \notin spoiled \/ \A y \in Queued : y.reference # r

AnswerSteps ==
    \/ UNCHANGED answers
    \/ \E a \in Replies : answers' = Append(answers, a) /\ \A b \in Answered : ~Same(b, a)
    \/ answers # <<>> /\ answers' = Tail(answers)
    \/ answers' = <<>>

JobSteps ==
    \/ jobs' \in {jobs, {}}
    \/ \E x \in Requests : jobs' = {[request |-> x, file |-> vault]}
\* Requests are sent, taken or lost.
LEMMA MovesQueueSteps == CredInv /\ Shapes /\ Move => QueueSteps
<1> SUFFICES ASSUME CredInv, Shapes, Move PROVE QueueSteps
  OBVIOUS
<1> USE CredentialsAssumption DEF CredInv, TypeOK, Shapes, Waiting, Waits, Removing,
    Answers, MessagesOfStep, Same, Sent, RowsAndSteps, Origin, RemovalsOfRow
<1>1. ASSUME NEW o \in Operations, NEW p \in Providers, SaveMove(o, p) PROVE QueueSteps
  BY <1>1 DEF SaveMove, Begins, Sends, Quiet, Request, Changing, QueueSteps,
      StateTypes, Requests
<1>2. ASSUME NEW o \in Operations, NEW p \in Providers, EditMove(o, p) PROVE QueueSteps
  BY <1>2 DEF EditMove, Begins, Sends, Quiet, Request, Changing, QueueSteps,
      StateTypes, Requests
<1>3. ASSUME NEW o \in Operations, NEW p \in Providers, ClearMove(o, p) PROVE QueueSteps
  BY <1>3 DEF ClearMove, Begins, Sends, Quiet, Request, Changing, HasKey, QueueSteps,
      StateTypes, Requests
<1>4. ASSUME NEW o \in Operations, NEW p \in Providers, DeleteMove(o, p) PROVE
    QueueSteps
  <2>1. /\ step[o] = "new" /\ provider' = [provider EXCEPT ![o] = p] /\ spoiled \subseteq spoiled'
        /\ queue' = Append(queue, Request("deleting", row[p], o)) /\ row[p] \in Operations
    BY <1>4 DEF DeleteMove, Begins, Sends, HasKey
  <2>2. /\ Request("deleting", row[p], o) \in Requests
        /\ Request("deleting", row[p], o).type = "delete"
        /\ \A y \in Queued : ~Same(y, Request("deleting", row[p], o)) /\ y.reference # o
    BY <2>1 DEF Request, Requests
  <2>3. QED
    BY <2>1, <2>2 DEF QueueSteps, StateTypes
<1>5. ASSUME NEW o \in Operations, NEW p \in Providers, ReadMove(o, p) PROVE QueueSteps
  <2>1. /\ step[o] = "new" /\ provider' = [provider EXCEPT ![o] = p] /\ spoiled \subseteq spoiled'
        /\ queue' = Append(queue, Request("reading", row[p], o)) /\ row[p] \in Operations
    BY <1>5 DEF ReadMove, Begins, Sends, HasKey
  <2>2. /\ Request("reading", row[p], o) \in Requests
        /\ Request("reading", row[p], o).reference = row[p]
        /\ \A y \in Queued : ~Same(y, Request("reading", row[p], o)) /\ y.reference # o
    BY <2>1 DEF Request, Requests
  <2>3. provider[row[p]] = p /\ row[p] # o
    BY <2>1
  <2>4. p \notin spoiled => \A y \in Queued : y.type = "delete" => y.reference # row[p]
    BY <2>3
  <2>5. QED
    BY <2>1, <2>2, <2>3, <2>4 DEF QueueSteps, StateTypes
<1>6. ASSUME NEW p \in Providers, AgentMove(p) PROVE QueueSteps
  BY <1>6 DEF AgentMove, Quiet, QueueSteps, StateTypes, Requests
<1>7. ASSUME StaleMove PROVE QueueSteps
  BY <1>7 DEF StaleMove, Quiet, QueueSteps, StateTypes, Requests
<1>8. ASSUME NEW o \in Operations, NEW answer \in Answers, EndMove(o, answer) PROVE
    QueueSteps
  BY <1>8 DEF EndMove, Heard, Sends, Quiet, Request, Settles, QueueSteps, StateTypes,
      Requests
<1>9. ASSUME NEW o \in Operations, NEW answer \in Answers, FirstKeyMove(o, answer)
    PROVE QueueSteps
  BY <1>9 DEF FirstKeyMove, Heard, Sends, Quiet, Request, Settles, QueueSteps,
      StateTypes, Requests
<1>10. ASSUME NEW o \in Operations, NEW answer \in Answers, NextKeyMove(o, answer)
    PROVE QueueSteps
  <2>1. /\ provider' = provider /\ spoiled \subseteq spoiled' /\ step[o] = "putting" /\ existing[o] \in Operations
        /\ queue' = Append(queue, Request("dropping", existing[o], o))
    BY <1>10 DEF NextKeyMove, Heard, Sends
  <2>2. /\ Request("dropping", existing[o], o) \in Requests
        /\ Request("dropping", existing[o], o).type = "delete"
        /\ \A y \in Queued : ~Same(y, Request("dropping", existing[o], o))
    BY <2>1 DEF Request, Requests
  <2>3. QED
    BY <2>1, <2>2 DEF QueueSteps, StateTypes
<1>11. ASSUME NEW o \in Operations, NEW answer \in Answers, UndoMove(o, answer) PROVE
    QueueSteps
  <2>1. /\ provider' = provider /\ spoiled \subseteq spoiled' /\ step[o] = "putting"
        /\ queue' = Append(queue, Request("undoing", o, o))
    BY <1>11 DEF UndoMove, Heard, Sends
  <2>2. /\ Request("undoing", o, o) \in Requests
        /\ Request("undoing", o, o).type = "delete"
        /\ \A y \in Queued : ~Same(y, Request("undoing", o, o))
    BY <2>1 DEF Request, Requests
  <2>3. QED
    BY <2>1, <2>2 DEF QueueSteps, StateTypes
<1>12. ASSUME NEW o \in Operations, NEW answer \in Answers, RollbackMove(o, answer)
    PROVE QueueSteps
  <2>1. /\ provider' = provider /\ spoiled \subseteq spoiled' /\ step[o] = "dropping"
        /\ queue' = Append(queue, Request("undoing", o, o))
    BY <1>12 DEF RollbackMove, Heard, Sends
  <2>2. /\ Request("undoing", o, o) \in Requests
        /\ Request("undoing", o, o).type = "delete"
        /\ \A y \in Queued : ~Same(y, Request("undoing", o, o))
    BY <2>1 DEF Request, Requests
  <2>3. QED
    BY <2>1, <2>2 DEF QueueSteps, StateTypes
<1>13. ASSUME NEW o \in Operations, NEW answer \in Answers, RestoreMove(o, answer)
    PROVE QueueSteps
  BY <1>13 DEF RestoreMove, Heard, Sends, Quiet, Request, Settles, QueueSteps,
      StateTypes, Requests
<1>14. ASSUME CrashMove PROVE QueueSteps
  BY <1>14 DEF CrashMove, Active, QueueSteps, StateTypes, Requests
<1>15. ASSUME NEW x \in Waiting, TakeMove(x) PROVE QueueSteps
  BY <1>15 DEF TakeMove, QueueSteps, StateTypes, Requests
<1>16. ASSUME NEW x \in Waiting, PutMove(x) PROVE QueueSteps
  BY <1>16 DEF PutMove, Responds, QueueSteps, StateTypes, Requests
<1>17. ASSUME NEW x \in Waiting, RemoveMove(x) PROVE QueueSteps
  BY <1>17 DEF RemoveMove, Responds, QueueSteps, StateTypes, Requests
<1>18. ASSUME NEW x \in Waiting, GetMove(x) PROVE QueueSteps
  BY <1>18 DEF GetMove, Responds, QueueSteps, StateTypes, Requests
<1>19. ASSUME NEW x \in Waiting, RefuseMove(x) PROVE QueueSteps
  BY <1>19 DEF RefuseMove, Responds, QueueSteps, StateTypes, Requests
<1> HIDE DEF CredInv, TypeOK, Shapes, Waiting, Waits, Removing, Answers,
    MessagesOfStep, Same, Sent, RowsAndSteps, Origin, RemovalsOfRow
<1>20. QED
  BY <1>1, <1>2, <1>3, <1>4, <1>5, <1>6, <1>7, <1>8, <1>9, <1>10, <1>11, <1>12, <1>13,
      <1>14, <1>15, <1>16, <1>17, <1>18, <1>19 DEF Move
\* Answers are given, taken or lost.
LEMMA MovesAnswerSteps == CredInv /\ Shapes /\ Move => AnswerSteps
<1> SUFFICES ASSUME CredInv, Shapes, Move PROVE AnswerSteps
  OBVIOUS
<1> USE CredentialsAssumption DEF CredInv, TypeOK, Shapes, Waiting, Waits, Removing,
    Answers, MessagesOfStep, Same, Sent, RowsAndSteps, Origin, RemovalsOfRow
<1>1. ASSUME NEW o \in Operations, NEW p \in Providers, SaveMove(o, p) PROVE AnswerSteps
  BY <1>1 DEF SaveMove, Begins, Sends, Quiet, Request, Changing, AnswerSteps, Replies
<1>2. ASSUME NEW o \in Operations, NEW p \in Providers, EditMove(o, p) PROVE AnswerSteps
  BY <1>2 DEF EditMove, Begins, Sends, Quiet, Request, Changing, AnswerSteps, Replies
<1>3. ASSUME NEW o \in Operations, NEW p \in Providers, ClearMove(o, p) PROVE
    AnswerSteps
  BY <1>3 DEF ClearMove, Begins, Sends, Quiet, Request, Changing, HasKey, AnswerSteps,
      Replies
<1>4. ASSUME NEW o \in Operations, NEW p \in Providers, DeleteMove(o, p) PROVE
    AnswerSteps
  BY <1>4 DEF DeleteMove, Begins, Sends, Quiet, Request, Changing, HasKey,
      AnswerSteps, Replies
<1>5. ASSUME NEW o \in Operations, NEW p \in Providers, ReadMove(o, p) PROVE AnswerSteps
  BY <1>5 DEF ReadMove, Begins, Sends, Quiet, Request, Changing, HasKey, AnswerSteps,
      Replies
<1>6. ASSUME NEW p \in Providers, AgentMove(p) PROVE AnswerSteps
  BY <1>6 DEF AgentMove, Quiet, AnswerSteps, Replies
<1>7. ASSUME StaleMove PROVE AnswerSteps
  BY <1>7 DEF StaleMove, Quiet, AnswerSteps, Replies
<1>8. ASSUME NEW o \in Operations, NEW answer \in Answers, EndMove(o, answer) PROVE
    AnswerSteps
  BY <1>8 DEF EndMove, Heard, Sends, Quiet, Request, Settles, AnswerSteps, Replies
<1>9. ASSUME NEW o \in Operations, NEW answer \in Answers, FirstKeyMove(o, answer)
    PROVE AnswerSteps
  BY <1>9 DEF FirstKeyMove, Heard, Sends, Quiet, Request, Settles, AnswerSteps, Replies
<1>10. ASSUME NEW o \in Operations, NEW answer \in Answers, NextKeyMove(o, answer)
    PROVE AnswerSteps
  BY <1>10 DEF NextKeyMove, Heard, Sends, Quiet, Request, Settles, AnswerSteps, Replies
<1>11. ASSUME NEW o \in Operations, NEW answer \in Answers, UndoMove(o, answer) PROVE
    AnswerSteps
  BY <1>11 DEF UndoMove, Heard, Sends, Quiet, Request, Settles, AnswerSteps, Replies
<1>12. ASSUME NEW o \in Operations, NEW answer \in Answers, RollbackMove(o, answer)
    PROVE AnswerSteps
  BY <1>12 DEF RollbackMove, Heard, Sends, Quiet, Request, Settles, AnswerSteps, Replies
<1>13. ASSUME NEW o \in Operations, NEW answer \in Answers, RestoreMove(o, answer)
    PROVE AnswerSteps
  BY <1>13 DEF RestoreMove, Heard, Sends, Quiet, Request, Settles, AnswerSteps, Replies
<1>14. ASSUME CrashMove PROVE AnswerSteps
  BY <1>14 DEF CrashMove, Active, AnswerSteps, Replies
<1>15. ASSUME NEW x \in Waiting, TakeMove(x) PROVE AnswerSteps
  BY <1>15 DEF TakeMove, AnswerSteps, Replies
<1>16. ASSUME NEW x \in Waiting, PutMove(x) PROVE AnswerSteps
  BY <1>16 DEF PutMove, Responds, AnswerSteps, Replies
<1>17. ASSUME NEW x \in Waiting, RemoveMove(x) PROVE AnswerSteps
  BY <1>17 DEF RemoveMove, Responds, AnswerSteps, Replies
<1>18. ASSUME NEW x \in Waiting, GetMove(x) PROVE AnswerSteps
  BY <1>18 DEF GetMove, Responds, AnswerSteps, Replies
<1>19. ASSUME NEW x \in Waiting, RefuseMove(x) PROVE AnswerSteps
  BY <1>19 DEF RefuseMove, Responds, AnswerSteps, Replies
<1> HIDE DEF CredInv, TypeOK, Shapes, Waiting, Waits, Removing, Answers,
    MessagesOfStep, Same, Sent, RowsAndSteps, Origin, RemovalsOfRow
<1>20. QED
  BY <1>1, <1>2, <1>3, <1>4, <1>5, <1>6, <1>7, <1>8, <1>9, <1>10, <1>11, <1>12, <1>13,
      <1>14, <1>15, <1>16, <1>17, <1>18, <1>19 DEF Move
\* The vault takes a request or is done with it.
LEMMA MovesJobSteps == CredInv /\ Shapes /\ Move => JobSteps
<1> SUFFICES ASSUME CredInv, Shapes, Move PROVE JobSteps
  OBVIOUS
<1> USE CredentialsAssumption DEF CredInv, TypeOK, Shapes, Waiting, Waits, Removing,
    Answers, MessagesOfStep, Same, Sent, RowsAndSteps, Origin, RemovalsOfRow
<1>1. ASSUME NEW o \in Operations, NEW p \in Providers, SaveMove(o, p) PROVE JobSteps
  BY <1>1 DEF SaveMove, Begins, Sends, Quiet, Request, Changing, JobSteps, StateTypes,
      Requests
<1>2. ASSUME NEW o \in Operations, NEW p \in Providers, EditMove(o, p) PROVE JobSteps
  BY <1>2 DEF EditMove, Begins, Sends, Quiet, Request, Changing, JobSteps, StateTypes,
      Requests
<1>3. ASSUME NEW o \in Operations, NEW p \in Providers, ClearMove(o, p) PROVE JobSteps
  BY <1>3 DEF ClearMove, Begins, Sends, Quiet, Request, Changing, HasKey, JobSteps,
      StateTypes, Requests
<1>4. ASSUME NEW o \in Operations, NEW p \in Providers, DeleteMove(o, p) PROVE JobSteps
  BY <1>4 DEF DeleteMove, Begins, Sends, Quiet, Request, Changing, HasKey, JobSteps,
      StateTypes, Requests
<1>5. ASSUME NEW o \in Operations, NEW p \in Providers, ReadMove(o, p) PROVE JobSteps
  BY <1>5 DEF ReadMove, Begins, Sends, Quiet, Request, Changing, HasKey, JobSteps,
      StateTypes, Requests
<1>6. ASSUME NEW p \in Providers, AgentMove(p) PROVE JobSteps
  BY <1>6 DEF AgentMove, Quiet, JobSteps, StateTypes, Requests
<1>7. ASSUME StaleMove PROVE JobSteps
  BY <1>7 DEF StaleMove, Quiet, JobSteps, StateTypes, Requests
<1>8. ASSUME NEW o \in Operations, NEW answer \in Answers, EndMove(o, answer) PROVE
    JobSteps
  BY <1>8 DEF EndMove, Heard, Sends, Quiet, Request, Settles, JobSteps, StateTypes,
      Requests
<1>9. ASSUME NEW o \in Operations, NEW answer \in Answers, FirstKeyMove(o, answer)
    PROVE JobSteps
  BY <1>9 DEF FirstKeyMove, Heard, Sends, Quiet, Request, Settles, JobSteps,
      StateTypes, Requests
<1>10. ASSUME NEW o \in Operations, NEW answer \in Answers, NextKeyMove(o, answer)
    PROVE JobSteps
  BY <1>10 DEF NextKeyMove, Heard, Sends, Quiet, Request, Settles, JobSteps,
      StateTypes, Requests
<1>11. ASSUME NEW o \in Operations, NEW answer \in Answers, UndoMove(o, answer) PROVE
    JobSteps
  BY <1>11 DEF UndoMove, Heard, Sends, Quiet, Request, Settles, JobSteps, StateTypes,
      Requests
<1>12. ASSUME NEW o \in Operations, NEW answer \in Answers, RollbackMove(o, answer)
    PROVE JobSteps
  BY <1>12 DEF RollbackMove, Heard, Sends, Quiet, Request, Settles, JobSteps,
      StateTypes, Requests
<1>13. ASSUME NEW o \in Operations, NEW answer \in Answers, RestoreMove(o, answer)
    PROVE JobSteps
  BY <1>13 DEF RestoreMove, Heard, Sends, Quiet, Request, Settles, JobSteps,
      StateTypes, Requests
<1>14. ASSUME CrashMove PROVE JobSteps
  BY <1>14 DEF CrashMove, Active, JobSteps, StateTypes, Requests
<1>15. ASSUME NEW x \in Waiting, TakeMove(x) PROVE JobSteps
  <2>1. x \in Requests
    BY DEF MessageTypes, Queued, Range, Worked
  <2>2. QED
    BY <1>15, <2>1 DEF TakeMove, JobSteps
<1>16. ASSUME NEW x \in Waiting, PutMove(x) PROVE JobSteps
  BY <1>16 DEF PutMove, Responds, JobSteps, StateTypes, Requests
<1>17. ASSUME NEW x \in Waiting, RemoveMove(x) PROVE JobSteps
  BY <1>17 DEF RemoveMove, Responds, JobSteps, StateTypes, Requests
<1>18. ASSUME NEW x \in Waiting, GetMove(x) PROVE JobSteps
  BY <1>18 DEF GetMove, Responds, JobSteps, StateTypes, Requests
<1>19. ASSUME NEW x \in Waiting, RefuseMove(x) PROVE JobSteps
  BY <1>19 DEF RefuseMove, Responds, JobSteps, StateTypes, Requests
<1> HIDE DEF CredInv, TypeOK, Shapes, Waiting, Waits, Removing, Answers,
    MessagesOfStep, Same, Sent, RowsAndSteps, Origin, RemovalsOfRow
<1>20. QED
  BY <1>1, <1>2, <1>3, <1>4, <1>5, <1>6, <1>7, <1>8, <1>9, <1>10, <1>11, <1>12, <1>13,
      <1>14, <1>15, <1>16, <1>17, <1>18, <1>19 DEF Move
\* Requests, jobs and answers keep their shapes.
LEMMA MessageTypesKept == CredInv /\ Shapes /\ Move => MessageTypes'
<1> SUFFICES ASSUME CredInv, Shapes, Move PROVE MessageTypes'
  OBVIOUS
<1>1. /\ queue \in Seq(Requests) /\ answers \in Seq(Replies) /\ vault \in SUBSET Operations
      /\ jobs \in SUBSET [request : Requests, file : SUBSET Operations]
  BY DEF CredInv, TypeOK, StateTypes, MessageTypes
<1>2. queue' \in Seq(Requests)
  <2>1. ASSUME NEW x \in Requests, queue' = Append(queue, x) PROVE queue' \in Seq(Requests)
    BY <1>1, <2>1, AppendProperties
  <2>2. ASSUME queue # <<>>, queue' = Tail(queue) PROVE queue' \in Seq(Requests)
    BY <1>1, <2>2, TailOf
  <2>3. ASSUME NEW n \in 0 .. Len(queue), queue' = SubSeq(queue, 1, n) PROVE queue' \in Seq(Requests)
    BY <1>1, <2>3, PrefixOf
  <2>4. QED
    BY <1>1, <2>1, <2>2, <2>3, MovesQueueSteps DEF QueueSteps
<1>3. answers' \in Seq(Replies)
  <2>1. ASSUME NEW a \in Replies, answers' = Append(answers, a) PROVE answers' \in Seq(Replies)
    BY <1>1, <2>1, AppendProperties
  <2>2. ASSUME answers # <<>>, answers' = Tail(answers) PROVE answers' \in Seq(Replies)
    BY <1>1, <2>2, TailOf
  <2>3. <<>> \in Seq(Replies)
    BY EmptySeq
  <2>4. QED
    BY <1>1, <2>1, <2>2, <2>3, MovesAnswerSteps DEF AnswerSteps
<1>4. jobs' \in SUBSET [request : Requests, file : SUBSET Operations]
  BY <1>1, MovesJobSteps DEF JobSteps
<1>5. QED
  BY <1>2, <1>3, <1>4 DEF MessageTypes

\* Every message is there once.
LEMMA OneEachKept == CredInv /\ Shapes /\ Move => OneEach'
<1> SUFFICES ASSUME CredInv, Shapes, Move PROVE OneEach'
  OBVIOUS
<1>1. /\ queue \in Seq(Requests) /\ answers \in Seq(Replies)
      /\ OnceOnly(queue) /\ OnceOnly(answers)
  BY DEF CredInv, TypeOK, MessageTypes, OneEach
<1>2. OnceOnly(queue')
  <2>1. ASSUME NEW x \in Requests, queue' = Append(queue, x), \A y \in Queued : ~Same(y, x)
        PROVE  OnceOnly(queue')
    BY <1>1, <2>1, OneMore DEF Queued
  <2>2. ASSUME queue # <<>>, queue' = Tail(queue) PROVE OnceOnly(queue')
    BY <1>1, <2>2, TailOf
  <2>3. ASSUME NEW n \in 0 .. Len(queue), queue' = SubSeq(queue, 1, n) PROVE OnceOnly(queue')
    BY <1>1, <2>3, PrefixOf
  <2>4. QED
    BY <1>1, <2>1, <2>2, <2>3, MovesQueueSteps DEF QueueSteps
<1>3. OnceOnly(answers')
  <2>1. ASSUME NEW a \in Replies, answers' = Append(answers, a), \A b \in Answered : ~Same(b, a)
        PROVE  OnceOnly(answers')
    BY <1>1, <2>1, OneMore DEF Answered
  <2>2. ASSUME answers # <<>>, answers' = Tail(answers) PROVE OnceOnly(answers')
    BY <1>1, <2>2, TailOf
  <2>3. OnceOnly(<<>>)
    BY DEF OnceOnly
  <2>4. QED
    BY <1>1, <2>1, <2>2, <2>3, MovesAnswerSteps DEF AnswerSteps
<1>4. QED
  BY <1>2, <1>3 DEF OneEach

\* Removals are sent behind the reads of their key.
LEMMA InOrderKept == CredInv /\ Shapes /\ Move => InOrder'
<1> SUFFICES ASSUME CredInv, Shapes, Move, NEW r \in Operations, provider'[r] \notin spoiled'
             PROVE  Ahead(queue', r)
  BY DEF InOrder
<1>1. queue \in Seq(Requests) /\ InOrder
  BY DEF CredInv, TypeOK, MessageTypes
<1>2. Ahead(queue, r)
  <2>1. CASE provider[r] \notin spoiled
    BY <1>1, <2>1 DEF InOrder
  <2>2. CASE \A y \in Queued : y.reference # r
    BY <2>2 DEF Queued, Range, Ahead
  <2>3. QED
    BY <2>1, <2>2, MovesQueueSteps DEF QueueSteps
<1>3. ASSUME NEW x \in Requests, queue' = Append(queue, x),
             x.type = "get" /\ provider'[x.reference] \notin spoiled' =>
                 \A y \in Queued : y.type = "delete" => y.reference # x.reference
      PROVE  Ahead(queue', r)
  <2>1. ~(/\ x.type = "get" /\ x.reference = r
          /\ \E y \in Range(queue) : y.type = "delete" /\ y.reference = r)
    BY <1>3 DEF Queued
  <2>2. QED
    BY <1>1, <1>2, <1>3, <2>1, OneMore
<1>4. ASSUME queue # <<>>, queue' = Tail(queue) PROVE Ahead(queue', r)
  BY <1>1, <1>2, <1>4, TailOf
<1>5. ASSUME NEW n \in 0 .. Len(queue), queue' = SubSeq(queue, 1, n) PROVE
    Ahead(queue', r)
  BY <1>1, <1>2, <1>5, PrefixOf
<1>6. QED
  BY <1>2, <1>3, <1>4, <1>5, MovesQueueSteps DEF QueueSteps

------------------------------------------------------------------------------
(* Every step is a Move.                                                   *)

LEMMA ShapesOfTypes == TypeOK => Shapes
<1> SUFFICES ASSUME TypeOK PROVE Shapes
  OBVIOUS
<1>1. Waiting \subseteq Requests
  <2>1. Queued \subseteq Requests
    <3>1. queue \in Seq(Requests)
      BY DEF TypeOK, MessageTypes
    <3>2. QED
      BY <3>1, LenProperties, ElementOfSeq DEF Queued, Range
  <2>2. Worked \subseteq Requests
    BY DEF TypeOK, MessageTypes, Worked
  <2>3. QED
    BY <2>1, <2>2 DEF Waiting
<1>2. Answered \subseteq Replies
  <2>1. answers \in Seq(Replies)
    BY DEF TypeOK, MessageTypes
  <2>2. QED
    BY <2>1, LenProperties, ElementOfSeq DEF Answered, Range
<1>3. ASSUME NEW x \in Requests
      PROVE  /\ x.from \in Operations /\ x.reference \in Operations /\ x.wait \in Waits
             /\ x.type = "put" <=> x.wait = "putting"
             /\ x.type = "get" <=> x.wait = "reading"
             /\ x.type = "delete" <=> x.wait \in Removing \cup {"undoing"}
  BY DEF Requests, Request, Waits, Removing
<1>4. ASSUME NEW a \in Replies
      PROVE  /\ a.from \in Operations /\ a.wait \in Waits /\ a.answer \in Answers
             /\ a = [from |-> a.from, wait |-> a.wait, answer |-> a.answer]
  BY DEF Replies, Answers
<1>5. QED
  BY <1>1, <1>2, <1>3, <1>4 DEF Shapes

LEMMA Sending ==
  ASSUME TypeOK, NEW w \in Waits, NEW r \in Operations, NEW o \in Operations,
         Post(w, r, o), UNCHANGED jobs
  PROVE  Sends(Request(w, r, o))
<1>1. Request(w, r, o) \in Requests
  BY DEF Requests
<1>2. queue \in Seq(Requests) /\ queue' = Append(queue, Request(w, r, o))
  BY DEF TypeOK, MessageTypes, Post
<1>3. Range(queue') = Range(queue) \cup {Request(w, r, o)}
  BY <1>1, <1>2, RangeOfAppend
<1>4. Worked' = Worked
  BY DEF Worked
<1>5. QED
  BY <1>2, <1>3, <1>4 DEF Sends, Queued

LEMMA Staying == UNCHANGED <<queue, jobs>> => Quiet
  BY DEF Quiet, Queued, Worked

LEMMA Starting ==
  ASSUME StateTypes, NEW o \in Operations, NEW p \in Providers, NEW where, Start(o, p, where)
  PROVE  Begins(o, p, where)
<1>1. Answered' = Answered
  BY DEF Start, Answered
<1>2. QED
  BY <1>1 DEF Start, Begins, Changing

LEMMA StartMoves ==
  ASSUME TypeOK, NEW o \in Operations, NEW p \in Providers,
         Save(o, p) \/ Edit(o, p) \/ Clear(o, p) \/ Delete(o, p) \/ AskKey(o, p)
  PROVE  \/ SaveMove(o, p) \/ EditMove(o, p) \/ ClearMove(o, p)
         \/ DeleteMove(o, p) \/ ReadMove(o, p)
<1>1. CASE Save(o, p)
  <2>1. Begins(o, p, "putting")
    BY <1>1, Starting DEF Save, TypeOK
  <2>2. Sends(Request("putting", o, o))
    BY <1>1, Sending DEF Save, Start, Waits
  <2>3. QED
    BY <1>1, <2>1, <2>2 DEF Save, SaveMove
<1>2. CASE Edit(o, p)
  <2>1. Begins(o, p, "over")
    BY <1>2, Starting DEF Edit, TypeOK
  <2>2. Quiet
    BY <1>2, Staying DEF Edit, Start
  <2>3. UNCHANGED row \/ (row[p] \notin Operations /\ row' = [row EXCEPT ![p] = NoKey])
    BY <1>2 DEF Edit, WriteRow, HasKey, TypeOK, StateTypes
  <2>4. QED
    BY <1>2, <2>1, <2>2, <2>3 DEF Edit, EditMove, WriteRow
<1>3. CASE Clear(o, p)
  <2>1. Begins(o, p, "clearing")
    BY <1>3, Starting DEF Clear, TypeOK
  <2>2. Sends(Request("clearing", row[p], o))
    BY <1>3, Sending DEF Clear, Start, Waits, HasKey
  <2>3. QED
    BY <1>3, <2>1, <2>2 DEF Clear, ClearMove, WriteRow
<1>4. CASE Delete(o, p) /\ HasKey(p)
  <2>1. Begins(o, p, "deleting")
    BY <1>4, Starting DEF Delete, TypeOK
  <2>2. Sends(Request("deleting", row[p], o))
    BY <1>4, Sending DEF Delete, Start, Waits, HasKey
  <2>3. QED
    BY <1>4, <2>1, <2>2 DEF Delete, DeleteMove, WriteRow
<1>5. CASE Delete(o, p) /\ ~HasKey(p)
  <2>1. Begins(o, p, "over")
    BY <1>5, Starting DEF Delete, TypeOK
  <2>2. Quiet
    BY <1>5, Staying DEF Delete, Start
  <2>3. QED
    BY <1>5, <2>1, <2>2 DEF Delete, EditMove, WriteRow, HasKey
<1>6. CASE AskKey(o, p)
  <2>1. Begins(o, p, "reading")
    BY <1>6, Starting DEF AskKey, TypeOK
  <2>2. Sends(Request("reading", row[p], o))
    BY <1>6, Sending DEF AskKey, Start, Waits, HasKey
  <2>3. QED
    BY <1>6, <2>1, <2>2 DEF AskKey, ReadMove
<1>7. QED
  BY <1>1, <1>2, <1>3, <1>4, <1>5, <1>6

LEMMA ContinueMoves ==
  ASSUME TypeOK, RowsAndSteps, NEW o \in Operations, NEW answer \in Answers,
         Heard(o, answer), Continue(o, answer), UNCHANGED jobs
  PROVE  \/ EndMove(o, answer) \/ FirstKeyMove(o, answer) \/ NextKeyMove(o, answer)
         \/ UndoMove(o, answer) \/ RollbackMove(o, answer) \/ RestoreMove(o, answer)
<1>1. step[o] \in Waits
  BY DEF Heard
<1> DEFINE Fails == step[o] \in Removing /\ answer # "ok" /\ RollbackFails(o)
<1>0. CASE Fails
  BY <1>0, Staying DEF RollbackFails, End, EndMove, Settles
<1>2. CASE step[o] = "reading"
  <2>1. End(o, IF answer # "ok" THEN answer ELSE "key") /\ UNCHANGED rows
    BY <1>2 DEF Continue
  <2>2. QED
    BY <1>2, <2>1, Staying DEF End, EndMove, Settles
<1>3. CASE step[o] = "undoing"
  <2>1. End(o, "failed") /\ UNCHANGED rows
    BY <1>3 DEF Continue
  <2>2. QED
    BY <1>3, <2>1, Staying DEF End, EndMove, Settles
<1>4. CASE step[o] = "putting" /\ answer # "ok"
  <2>1. End(o, "failed") /\ UNCHANGED rows
    BY <1>4 DEF Continue
  <2>2. QED
    BY <1>4, <2>1, Staying DEF End, EndMove, Settles
<1>5. CASE step[o] = "putting" /\ answer = "ok"
  <2>1. KeyPut(o)
    BY <1>5 DEF Continue
  <2>2. CASE WriteRow(provider[o], o) /\ existing[o] \in Operations /\ AwaitRemoval(o, "dropping", existing[o])
    <3>1. Sends(Request("dropping", existing[o], o))
      BY <2>2, Sending DEF AwaitRemoval, Waits
    <3>2. QED
      BY <1>5, <2>2, <3>1 DEF WriteRow, AwaitRemoval, NextKeyMove
  <2>3. CASE WriteRow(provider[o], o) /\ existing[o] \notin Operations /\ End(o, "ok")
    BY <1>5, <2>3, Staying DEF WriteRow, End, FirstKeyMove, Settles
  <2>4. CASE AwaitRemoval(o, "undoing", o) /\ UNCHANGED rows
    <3>1. Sends(Request("undoing", o, o))
      BY <2>4, Sending DEF AwaitRemoval, Waits
    <3>2. QED
      BY <1>5, <2>4, <3>1 DEF AwaitRemoval, UndoMove
  <2>5. QED
    BY <2>1, <2>2, <2>3, <2>4 DEF KeyPut
<1>6. CASE step[o] \in Removing /\ answer = "ok"
  <2>1. End(o, "ok") /\ UNCHANGED rows
    BY <1>6 DEF Continue, Removing
  <2>2. QED
    BY <1>6, <2>1, Staying DEF End, EndMove, Settles
<1>7. CASE step[o] = "dropping" /\ answer # "ok" /\ ~Fails
  <2>1. Rollback(o)
    BY <1>7 DEF Continue, Removing
  <2>2. Sends(Request("undoing", o, o))
    BY <2>1, Sending DEF Rollback, AwaitRemoval, Waits
  <2>3. QED
    BY <1>7, <2>1, <2>2 DEF Rollback, WriteRow, AwaitRemoval, RollbackMove
<1>8. CASE step[o] \in {"clearing", "deleting"} /\ answer # "ok" /\ ~Fails
  <2>1. Restore(o)
    BY <1>8 DEF Continue, Removing
  <2>2. QED
    BY <1>8, <2>1, Staying DEF Restore, WriteRow, End, RestoreMove, Settles
<1>9. QED
  BY <1>1, <1>2, <1>3, <1>4, <1>5, <1>6, <1>7, <1>8, <1>0 DEF Waits, Removing

LEMMA AnswerMoves == CredInv /\ Answer => Move
<1> SUFFICES ASSUME CredInv, Answer PROVE Move
  OBVIOUS
<1> DEFINE a == Head(answers)
<1>1. /\ TypeOK /\ RowsAndSteps /\ answers # <<>> /\ answers' = Tail(answers)
      /\ UNCHANGED <<jobs, vault, spoiled>>
  BY DEF CredInv, Answer
<1>2. answers \in Seq(Replies) /\ OnceOnly(answers)
  BY DEF CredInv, TypeOK, MessageTypes, OneEach
<1>3. /\ a \in Replies /\ Answered = Answered' \cup {a}
      /\ \A b \in Answered' : ~Same(b, a)
  BY <1>1, <1>2, TailOf DEF Answered
<1>4. /\ a.from \in Operations /\ a.wait \in Waits /\ a.answer \in Answers
      /\ a = [from |-> a.from, wait |-> a.wait, answer |-> a.answer]
  BY <1>3 DEF Replies, Answers
<1>5. \/ a.wait = step[a.from] /\ Continue(a.from, a.answer)
      \/ a.wait # step[a.from] /\ UNCHANGED <<rows, ops, queue, abandoned>>
  BY DEF Answer
<1> HIDE DEF a
<1>6. CASE a.wait = step[a.from] /\ Continue(a.from, a.answer)
  <2>1. Answered' = Answered \ {a}
    BY <1>3 DEF Same
  <2>2. Heard(a.from, a.answer)
    <3>1. /\ UNCHANGED <<inUse, provider, existing>>
          /\ abandoned \subseteq abandoned' /\ abandoned' \subseteq abandoned \cup {a.from}
          /\ step[a.from] = "undoing" /\ a.answer = "failed" => a.from \in abandoned'
      BY <1>4, <1>6 DEF Continue, End, KeyPut, Rollback, Restore, RollbackFails, WriteRow, Waits
    <3>2. QED
      BY <1>1, <1>3, <1>4, <1>6, <2>1, <3>1 DEF Heard
  <2>3. QED
    BY <1>1, <1>4, <1>6, <2>2, ContinueMoves DEF Move
<1>7. CASE a.wait # step[a.from] /\ UNCHANGED <<rows, ops, queue, abandoned>>
  <2>1. StaleMove
    BY <1>1, <1>3, <1>7, Staying DEF StaleMove
  <2>2. QED
    BY <2>1 DEF Move
<1>8. QED
  BY <1>5, <1>6, <1>7

LEMMA TimeoutMoves == \A o \in Operations : CredInv /\ Timeout(o) => Move
<1> SUFFICES ASSUME NEW o \in Operations, CredInv, Timeout(o) PROVE Move
  OBVIOUS
<1>1. TypeOK /\ RowsAndSteps /\ step[o] \in Waits /\ "failed" \in Answers
  BY DEF CredInv, Timeout, Active, TypeOK, StateTypes, Answers
<1>2. Answered' = Answered
  BY DEF Timeout, Answered
<1>3. /\ UNCHANGED <<inUse, provider, existing>>
      /\ abandoned \subseteq abandoned' /\ abandoned' \subseteq abandoned \cup {o}
      /\ step[o] = "undoing" => o \in abandoned'
  BY <1>1 DEF Timeout, Continue, End, Rollback, Restore, RollbackFails, WriteRow, Waits
<1>4. Heard(o, "failed") /\ Continue(o, "failed") /\ UNCHANGED jobs
  BY <1>1, <1>2, <1>3 DEF Timeout, Heard
<1>5. QED
  BY <1>1, <1>4, ContinueMoves DEF Move

LEMMA CrashMoves == CredInv /\ Crash => Move
<1> SUFFICES ASSUME CredInv, Crash PROVE CrashMove
  BY DEF Move
<1>1. queue \in Seq(Requests)
  BY DEF CredInv, TypeOK, MessageTypes
<1>2. PICK n \in 0 .. Len(queue) : queue' = SubSeq(queue, 1, n)
  BY DEF Crash
<1>3. Range(queue') \subseteq Range(queue)
  BY <1>1, <1>2, PrefixOf
<1>4. Queued' \subseteq Queued
  BY <1>3 DEF Queued
<1>5. Worked' \subseteq Worked
  BY DEF Crash, Worked
<1>6. Answered' = {}
  <2>1. answers' = <<>>
    BY DEF Crash
  <2>2. Range(answers') = {}
    BY <2>1 DEF Range
  <2>3. QED
    BY <2>2 DEF Answered
<1>7. QED
  BY <1>4, <1>5, <1>6 DEF Crash, CrashMove

LEMMA VaultMoves ==
  ASSUME CredInv, VaultReads \/ \E j \in jobs : VaultDone(j) \/ VaultFails(j)
  PROVE  Move
<1>1. queue \in Seq(Requests) /\ answers \in Seq(Replies)
  BY DEF CredInv, TypeOK, MessageTypes
<1>2. CASE VaultReads
  <2> DEFINE x == Head(queue)
  <2>1. /\ queue # <<>> /\ jobs = {} /\ jobs' = {[request |-> x, file |-> vault]} /\ queue' = Tail(queue)
        /\ UNCHANGED <<row, inUse, step, provider, existing, result, vault, answers, spoiled, abandoned>>
    BY <1>2 DEF VaultReads, Idle
  <2>2. /\ x \in Requests
        /\ Queued = Queued' \cup {x}
        /\ \A y \in Queued' : ~Same(y, x)
        /\ \A r : /\ Ahead(queue, r) /\ x.type = "delete" /\ x.reference = r
                  => \A y \in Queued' : y.type = "get" => y.reference # r
    BY <1>1, <2>1, TailOf DEF CredInv, OneEach, Queued
  <2> HIDE DEF x
  <2>3. x.reference \in Operations
    BY <2>2 DEF Requests, Request
  <2>4. \A y \in Queued' :
          x.type = "delete" /\ y.type = "get" /\ provider[x.reference] \notin spoiled =>
             y.reference # x.reference
    BY <2>2, <2>3 DEF CredInv, InOrder
  <2>5. Worked = {} /\ Worked' = {x}
    BY <2>1 DEF Worked
  <2>6. Answered' = Answered
    BY <2>1 DEF Answered
  <2>7. TakeMove(x) /\ x \in Waiting
    BY <2>1, <2>2, <2>4, <2>5, <2>6 DEF TakeMove, Waiting, x
  <2>8. QED
    BY <2>7 DEF Move
<1>3. ASSUME NEW j \in jobs, VaultDone(j) \/ VaultFails(j) PROVE Move
  <2> DEFINE x == j.request
  <2>1. jobs = {j} /\ j.file = vault /\ x \in Requests
    BY <1>3 DEF CredInv, OneJob, TypeOK, MessageTypes
  <2>2. Worked = {x} /\ x \in Waiting
    BY <2>1 DEF Worked, Waiting
  <2>3. /\ x.from \in Operations /\ x.wait \in Waits
        /\ x.type \in {"put", "get", "delete"}
    BY <2>1 DEF Requests, Request
  <2>4. ASSUME NEW answer \in Answers, Respond(j, answer) PROVE Responds(x, answer)
    <3>1. [from |-> x.from, wait |-> x.wait, answer |-> answer] \in Replies
      BY <2>3 DEF Replies, Answers
    <3>2. answers' = Append(answers, [from |-> x.from, wait |-> x.wait, answer |-> answer])
      BY <2>4 DEF Respond
    <3>3. Range(answers') = Range(answers) \cup {[from |-> x.from, wait |-> x.wait, answer |-> answer]}
      BY <1>1, <3>1, <3>2, RangeOfAppend
    <3>4. Answered' = Answered \cup {[from |-> x.from, wait |-> x.wait, answer |-> answer]}
      BY <3>3 DEF Answered
    <3>5. jobs' = {} /\ queue' = queue
      BY <2>1, <2>4 DEF Respond
    <3>6. Worked' = {} /\ Queued' = Queued
      BY <3>5 DEF Worked, Queued
    <3>7. QED
      BY <2>2, <2>4, <3>2, <3>4, <3>5, <3>6 DEF Respond, Responds
  <2>5. CASE VaultDone(j) /\ x.type = "put"
    <3>1. vault' = vault \cup {x.reference} /\ Respond(j, "ok")
      BY <2>1, <2>5 DEF VaultDone
    <3>2. Responds(x, "ok")
      BY <2>4, <3>1 DEF Answers
    <3>3. QED
      BY <2>2, <2>5, <3>1, <3>2 DEF PutMove, Move
  <2>6. CASE VaultDone(j) /\ x.type = "delete"
    <3>1. vault' = vault \ {x.reference} /\ Respond(j, "ok")
      BY <2>1, <2>6 DEF VaultDone
    <3>2. Responds(x, "ok")
      BY <2>4, <3>1 DEF Answers
    <3>3. QED
      BY <2>2, <2>6, <3>1, <3>2 DEF RemoveMove, Move
  <2>7. CASE VaultDone(j) /\ x.type = "get"
    <3>1. vault' = vault /\ Respond(j, IF x.reference \in vault THEN "ok" ELSE "null")
      BY <2>1, <2>7 DEF VaultDone
    <3>2. Responds(x, IF x.reference \in vault THEN "ok" ELSE "null")
      BY <2>4, <3>1 DEF Answers
    <3>3. QED
      BY <2>2, <2>7, <3>1, <3>2 DEF GetMove, Move
  <2>8. CASE VaultFails(j)
    <3>1. vault' = vault /\ Respond(j, "failed")
      BY <2>8 DEF VaultFails
    <3>2. Responds(x, "failed")
      BY <2>4, <3>1 DEF Answers
    <3>3. QED
      BY <2>2, <3>1, <3>2 DEF RefuseMove, Move
  <2>9. QED
    BY <1>3, <2>3, <2>5, <2>6, <2>7, <2>8
<1>4. QED
  BY <1>2, <1>3

LEMMA StepMoves == CredInv /\ Next => Move
<1> SUFFICES ASSUME CredInv, Next PROVE Move
  OBVIOUS
<1>1. ASSUME NEW o \in Operations, NEW p \in Providers,
             Save(o, p) \/ Edit(o, p) \/ Clear(o, p) \/ Delete(o, p) \/ AskKey(o, p)
      PROVE  Move
  BY <1>1, StartMoves DEF Move, CredInv
<1>2. ASSUME NEW p \in Providers, CreateAgent(p) PROVE Move
  <2>1. Quiet /\ Answered' = Answered
    BY <1>2, Staying DEF CreateAgent, Answered
  <2>2. AgentMove(p)
    BY <1>2, <2>1 DEF CreateAgent, AgentMove
  <2>3. QED
    BY <2>2 DEF Move
<1>3. QED
  BY <1>1, <1>2, AnswerMoves, TimeoutMoves, CrashMoves, VaultMoves DEF Next

------------------------------------------------------------------------------
(* The theorems.                                                           *)

\* CredInv holds at every moment.
THEOREM CredentialsInvariance == Spec => []CredInv
<1>1. Init => CredInv
  <2> SUFFICES ASSUME Init PROVE CredInv
    OBVIOUS
  <2>1. Queued = {} /\ Worked = {} /\ Answered = {}
    BY DEF Init, Queued, Worked, Answered, Range
  <2>2. TypeOK
    <3>1. MessageTypes
      BY EmptySeq DEF Init, MessageTypes
    <3>2. QED
      BY <3>1 DEF Init, TypeOK, StateTypes
  <2>3. OneEach /\ InOrder
    BY DEF Init, OneEach, OnceOnly, InOrder, Ahead
  <2>4. RowsAndSteps /\ OneJob
    BY CredentialsAssumption DEF Init, RowsAndSteps, Origin, Removing, OneJob
  <2>5. MessagesOfStep /\ PutsOfStep /\ AnsweredPuts
    BY <2>1 DEF MessagesOfStep, PutsOfStep, AnsweredPuts, Waiting
  <2>6. RowOfStep /\ RemovalsOfRow /\ RemovalsOfStep /\ AnsweredRemovals
    BY <2>1 DEF Init, RowOfStep, Changing, RemovalsOfRow, RemovalsOfStep,
        AnsweredRemovals, Waiting, Removing
  <2>7. ReadsOfStep /\ AnsweredReads /\ KeysOfStep
    BY <2>1 DEF Init, ReadsOfStep, AnsweredReads, KeysOfStep, Waiting
  <2>8. KeyIsThere /\ RunFindsItsKey
    BY CredentialsAssumption DEF Init, KeyIsThere, HasKey, RunFindsItsKey
  <2>9. QED
    BY <2>2, <2>3, <2>4, <2>5, <2>6, <2>7, <2>8 DEF CredInv
<1>2. CredInv /\ Next => CredInv'
  <2> SUFFICES ASSUME CredInv, Next PROVE CredInv'
    OBVIOUS
  <2>1. Shapes /\ Move
    BY ShapesOfTypes, StepMoves DEF CredInv
  <2>2. TypeOK'
    BY <2>1, StateTypesKept, MessageTypesKept DEF TypeOK
  <2>3. QED
    BY <2>1, <2>2, RowsAndStepsKept, OneJobKept, OneEachKept, MessagesOfStepKept,
        PutsOfStepKept, AnsweredPutsKept, RowOfStepKept, RemovalsOfRowKept,
        RemovalsOfStepKept, AnsweredRemovalsKept, InOrderKept, ReadsOfStepKept,
        AnsweredReadsKept, KeysOfStepKept, KeyIsThereKept, RunFindsItsKeyKept DEF CredInv
<1>3. CredInv /\ UNCHANGED vars => CredInv'
  <2> SUFFICES ASSUME CredInv, UNCHANGED vars PROVE CredInv'
    OBVIOUS
  <2>1. UNCHANGED <<row, inUse, step, provider, existing, result, queue, jobs, vault, answers, spoiled, abandoned>>
    BY DEF vars
  <2>2. QED
    BY <2>1 DEF CredInv, TypeOK, StateTypes, MessageTypes, RowsAndSteps, Origin,
        OneJob, OneEach, MessagesOfStep, Sent, PutsOfStep, AnsweredPuts, RowOfStep,
        Changing, RemovalsOfRow, RemovalsOfStep, AnsweredRemovals, InOrder, ReadsOfStep,
        AnsweredReads, KeysOfStep, KeyIsThere, HasKey, RunFindsItsKey, Waiting, Queued,
        Worked, Answered
<1>4. QED
  BY <1>1, <1>2, <1>3, PTL DEF Spec

\* The key that a row names is in the file, across failures and crashes, as
\* long as nothing spoiled the profile; the profile of an agent is there.
THEOREM KeyStays == Spec => []KeyIsThere
  BY CredentialsInvariance, PTL DEF CredInv

\* A run never goes on without the key of its profile.
THEOREM RunsFindTheirKeys == Spec => []RunFindsItsKey
  BY CredentialsInvariance, PTL DEF CredInv

\* What is in the file beside the keys of the rows is about to be removed, or
\* was left by a crash or by a removal that failed twice.
THEOREM NoKeyStays == Spec => []NoKeyIsLeft
<1>1. CredInv => NoKeyIsLeft
  <2> SUFFICES ASSUME CredInv, NEW o \in vault, row[provider[o]] # o, provider[o] \notin spoiled
               PROVE  \E q \in Operations :
                        /\ provider[q] = provider[o]
                        /\ step[q] \notin {"new", "reading", "over"} \/ q \in abandoned
    BY DEF NoKeyIsLeft
  <2>1. o \in Operations
    BY DEF CredInv, TypeOK, StateTypes
  <2>2. CASE o \in abandoned \/ step[o] \in {"putting", "undoing"}
    BY <2>1, <2>2
  <2>3. ASSUME NEW q \in Operations, existing[q] = o, q \in abandoned \/ step[q] \in Removing
        PROVE  provider[q] = provider[o] /\ (step[q] \notin {"new", "reading", "over"} \/ q \in abandoned)
    BY <2>1, <2>3 DEF CredInv, RowsAndSteps, Origin, Removing
  <2>4. QED
    BY <2>2, <2>3 DEF CredInv, KeysOfStep
<1>2. QED
  BY <1>1, CredentialsInvariance, PTL
==============================================================================
