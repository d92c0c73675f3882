----------------------------- MODULE ModelHistory -----------------------------
(***************************************************************************)
(* What a conversation remembers and what its next run is told: the        *)
(* transcript that runs append to, and the messages that toModelMessages   *)
(* makes of it for the provider.                                           *)
(*                                                                         *)
(* A run is reduced to what it appends: the prompt, turns with their       *)
(* calls, a result per call, the user's answers, the text of a turn that   *)
(* failed, and what the end of a run or the recovery after a crash adds.   *)
(* RunCore has the control that leads there.  Only one run of a            *)
(* conversation is open at a time, so nothing else appends.                *)
(*                                                                         *)
(* Left out: what messages say, beyond the kind of a result; the system    *)
(* prompt, which is always the first message.  Definitions called          *)
(* X_Something are X with a plausible bug and are not part of the model.   *)
(***************************************************************************)
EXTENDS Naturals, Sequences, FiniteSets, SequencesExt, Selection

CONSTANTS
    Ids,         \* provider call ids; a provider may use them again in later runs
    Kinds,       \* what a call may be: "tool", "input"
    Sizes,       \* sizes of a prompt or a result
    CountLimit,  \* countLimit of takeRecentMessages (50 in the code)
    Budget,      \* characterBudget of takeRecentMessages (300 000)
    MaxMessages, \* bound: messages of a conversation after which no run goes on
    MaxCalls     \* bound: calls of a turn

ASSUME ModelHistoryAssumption ==
    /\ Kinds \subseteq {"tool", "input"}
    /\ Sizes \subseteq Nat \ {0}
    /\ CountLimit \in Nat \ {0}
    /\ Budget \in Nat
    /\ MaxMessages \in Nat
    /\ MaxCalls \in Nat

VARIABLES
    transcript, \* conversation_messages, in the order of their sequence
    phase,      \* where the conversation's run is, if it has one
    todo,       \* the calls of the turn that have no result yet
    seen,       \* seenProviderToolCallIds
    owed,       \* the results that the end of the run or its recovery adds
    sent        \* messages of the runtime: what the provider was told

vars == <<transcript, phase, todo, seen, owed, sent>>

NoId == "none"

Ended == {"none", "completed", "stopped"}

\* A message, and an entry of the projection: who speaks, the calls it makes,
\* the call it answers and the kind of that answer.
Message(role, calls, answers, said, size) ==
    [role |-> role, calls |-> calls, answers |-> answers, said |-> said, size |-> size]

User(size) == Message("user", <<>>, NoId, "text", size)
Assistant(calls) == Message("assistant", calls, NoId, "text", 1)
Result(id, said, size) == Message("tool", <<>>, id, said, size)

\* The types of the variables; a call that still waits for its result has an
\* id that the run has recorded.
TypeOK ==
    /\ \A i \in DOMAIN transcript :
        /\ transcript[i].role \in {"user", "assistant", "tool"}
        /\ ToSet(transcript[i].calls) \subseteq [id : Ids, kind : Kinds]
        /\ transcript[i].said \in {"text", "actual", "cancelled", "unknown"}
        /\ transcript[i].size \in Sizes \cup {1}
    /\ phase \in Ended \cup {"stream", "calls", "answered", "closing"}
    /\ ToSet(todo) \subseteq [id : seen, kind : Kinds]
    /\ todo # <<>> <=> phase \in {"calls", "answered"}
    /\ seen \subseteq Ids
    /\ \A i \in DOMAIN owed : owed[i].role = "tool"
    /\ sent # <<>> <=> transcript # <<>>

------------------------------------------------------------------------------
(* takeRecentMessages and toModelMessages.                                 *)

SizeOf(messages) ==
    LET sum[n \in 0 .. Len(messages)] ==
          IF n = 0 THEN 0 ELSE sum[n - 1] + messages[n].size
    IN sum[Len(messages)]

LastOf(messages, n) == SubSeq(messages, Len(messages) - n + 1, Len(messages))

\* The newest message always fits.
Fits(messages, n) ==
    n <= CountLimit /\ (n <= 1 \/ SizeOf(LastOf(messages, n)) <= Budget)

TakeRecent(messages) ==
    LastOf(messages, CHOOSE n \in 0..Len(messages) :
                        /\ Fits(messages, n)
                        /\ n = Len(messages) \/ ~Fits(messages, n + 1))

\* The projection under construction: what it holds so far, and the calls of
\* its last turn that no result has answered.
Cancelled(id) == Result(id, "cancelled", 1)

ClosePending(p) ==
    [out     |-> p.out \o [i \in 1..Len(p.pending) |-> Cancelled(p.pending[i])],
     pending |-> <<>>]

IdsOf(calls) == [i \in 1..Len(calls) |-> calls[i].id]

ProjectAssistant(p, m) ==
    [out |-> Append(ClosePending(p).out, m), pending |-> IdsOf(m.calls)]

ProjectUser(p, m) ==
    [out |-> Append(ClosePending(p).out, m), pending |-> <<>>]

ProjectResult_ClearsAll(p, m) ==
    IF Contains(p.pending, m.answers)
      THEN [out |-> Append(p.out, m), pending |-> <<>>]
      ELSE p

ProjectResult_Unchecked(p, m) ==
    [out     |-> Append(p.out, m),
     pending |-> Keep(p.pending, Ids \ {m.answers})]

ProjectResult(p, m) ==
    IF Contains(p.pending, m.answers)
      THEN [out     |-> Append(p.out, m),
            pending |-> Keep(p.pending, Ids \ {m.answers})]
      ELSE p

ProjectMessage(p, m) ==
    CASE m.role = "assistant" -> ProjectAssistant(p, m)
      [] m.role = "tool"      -> ProjectResult(p, m)
      [] m.role = "user"      -> ProjectUser(p, m)

Projected(messages) ==
    LET p[n \in 0 .. Len(messages)] ==
          IF n = 0 THEN [out |-> <<>>, pending |-> <<>>]
          ELSE ProjectMessage(p[n - 1], messages[n])
    IN p[Len(messages)]

Project(messages) == ClosePending(Projected(TakeRecent(messages))).out

------------------------------------------------------------------------------
(* The runs of the conversation.                                           *)

Init ==
    /\ transcript = <<>>
    /\ phase = "none"
    /\ todo = <<>>
    /\ seen = {}
    /\ owed = <<>>
    /\ sent = <<>>

\* The bound lets every run that began come to an end.
Room(n) == Len(transcript) + n <= MaxMessages

\* startRun stores the prompt; the execution projects it into its history.
Prompt(size) ==
    /\ phase \in Ended
    /\ Room(2)
    /\ transcript' = Append(transcript, User(size))
    /\ sent' = Project(transcript')
    /\ seen' = {}
    /\ phase' = "stream"
    /\ UNCHANGED <<todo, owed>>

\* Turns a provider may answer with: no id twice in a run.
Turns ==
    {calls \in UNION {[1..n -> [id : Ids \ seen, kind : Kinds]] : n \in 0..MaxCalls} :
        \A i, j \in DOMAIN calls : calls[i].id = calls[j].id => i = j}

Turn(calls) ==
    /\ phase = "stream"
    /\ calls # <<>> => Room(2 * Len(calls) + 2)
    /\ transcript' = Append(transcript, Assistant(calls))
    /\ sent' = Append(sent, Assistant(calls))
    /\ todo' = calls
    /\ seen' = seen \cup ToSet(IdsOf(calls))
    /\ phase' = IF calls = <<>> THEN "completed" ELSE "calls"
    /\ UNCHANGED owed

\* The text of a turn that failed, if there was any.
TurnFails(text) ==
    /\ phase = "stream"
    /\ transcript' = IF text THEN Append(transcript, Assistant(<<>>)) ELSE transcript
    /\ phase' = "stopped"
    /\ UNCHANGED <<todo, seen, owed, sent>>

\* onToolResult: the tool returned or was rejected, or the user answered.  A
\* request for input without a question is rejected like a tool.
StoreResult(size) ==
    /\ \/ phase = "calls" /\ Head(todo).kind = "tool"
       \/ phase = "answered"
    /\ transcript' = Append(transcript, Result(Head(todo).id, "actual", size))
    /\ sent' = Append(sent, Result(Head(todo).id, "actual", size))
    /\ todo' = Tail(todo)
    /\ phase' = IF Tail(todo) = <<>> THEN "stream" ELSE "calls"
    /\ UNCHANGED <<seen, owed>>

\* The prompt of a user while a run waits for input becomes a message of
\* that run before it becomes the result of the call.
Answer ==
    /\ phase = "calls"
    /\ Head(todo).kind = "input"
    /\ transcript' = Append(transcript, User(1))
    /\ phase' = "answered"
    /\ UNCHANGED <<todo, seen, owed, sent>>

Cancellations(calls) ==
    [i \in 1..Len(calls) |-> Result(calls[i].id, "cancelled", 1)]

\* A cancel, a shutdown or the round limit ends the run in the middle of a
\* turn: the calls that it had not begun get a result, and the one it was
\* executing, or asking the user about, gets none.
Abandon(begun) ==
    /\ phase = "calls"
    /\ phase' = "closing"
    /\ owed' = Cancellations(IF begun THEN Tail(todo) ELSE todo)
    /\ todo' = <<>>
    /\ UNCHANGED <<transcript, seen, sent>>

\* The host dies.  The recovery cancels the calls whose rows say that they
\* wait, answers "unknown" for the one whose row says that it runs, and leaves
\* alone the one whose row says that it is over.  Results that were owed
\* already are lost: their run has ended in the database.  In the middle of
\* onAssistantTurn the rows of calls are there and their turn is not: results
\* without calls.
Crash(current) ==
    /\ phase \notin Ended
    /\ phase = "answered" => current # "waiting"
    /\ phase' = "closing"
    /\ CASE phase = "closing" -> owed' = <<>>
         [] phase = "stream"  -> \E calls \in Turns : owed' = Cancellations(calls)
         [] phase \in {"calls", "answered"} ->
              owed' = CASE current = "waiting" -> Cancellations(todo)
                        [] current = "running" -> <<Result(Head(todo).id, "unknown", 1)>>
                                                      \o Cancellations(Tail(todo))
                        [] current = "over"    -> Cancellations(Tail(todo))
    /\ todo' = <<>>
    /\ UNCHANGED <<transcript, seen, sent>>

\* The end of the run, or its recovery, adds the results that are owed.
Close ==
    /\ phase = "closing"
    /\ owed # <<>>
    /\ transcript' = Append(transcript, Head(owed))
    /\ owed' = Tail(owed)
    /\ UNCHANGED <<phase, todo, seen, sent>>

Closed ==
    /\ phase = "closing"
    /\ owed = <<>>
    /\ phase' = "stopped"
    /\ UNCHANGED <<transcript, todo, seen, owed, sent>>

Next ==
    \/ \E size \in Sizes : Prompt(size) \/ StoreResult(size)
    \/ \E calls \in Turns : Turn(calls)
    \/ \E text \in BOOLEAN : TurnFails(text)
    \/ \E begun \in BOOLEAN : Abandon(begun)
    \/ \E current \in {"waiting", "running", "over"} : Crash(current)
    \/ Answer \/ Close \/ Closed

Spec == Init /\ [][Next]_vars

------------------------------------------------------------------------------
(* Safety.                                                                 *)

\* The results that follow message i before anybody else speaks.
AnswersTo(P, i) == {j \in DOMAIN P : i < j /\ \A n \in (i + 1)..j : P[n].role = "tool"}

\* What providers insist on, whatever the window cuts off and however runs
\* ended: the calls of each turn are answered, each once, between it and the
\* next message of another role, and nothing else is answered; and the prompt
\* of the user is what the run is told last, however long it is.
CallsAreAnsweredOnce ==
    LET P == Project(transcript)
    IN  /\ TypeOK
        /\ \A i \in DOMAIN P : P[i].role = "assistant" =>
            /\ Cardinality(AnswersTo(P, i)) = Len(P[i].calls)
            /\ {P[j].answers : j \in AnswersTo(P, i)} = ToSet(IdsOf(P[i].calls))
        /\ \A j \in DOMAIN P : P[j].role = "tool" =>
            \E i \in DOMAIN P : P[i].role = "assistant" /\ j \in AnswersTo(P, i)
        /\ phase = "stream" /\ seen = {} => sent # <<>> /\ Last(sent) = Last(transcript)

NobodyAsks(messages) ==
    \A i \in DOMAIN messages : \A call \in ToSet(messages[i].calls) : call.kind # "input"

\* A new run is told the history that the completed run before it saw: the
\* messages of the runtime and the projection of the database are two
\* accounts of the same run.  The answers of the user are in only one of them.
HistoriesAgree ==
    /\ phase = "completed"
    /\ Len(transcript) <= CountLimit
    /\ SizeOf(transcript) <= Budget
    /\ NobodyAsks(transcript)
    => Project(transcript) = sent

\* The results other than cancellations, in their order.
Outcomes == [role : {"tool"}, calls : {<<>>}, answers : Ids, said : {"actual", "unknown"},
             size : Sizes \cup {1}]
News(messages) == Keep(messages, Outcomes)

FromFirstTurn(messages) ==
    LET turns == {i \in DOMAIN messages : messages[i].role = "assistant"}
    IN  IF turns = {} THEN <<>>
        ELSE SubSeq(messages, Min(turns), Len(messages))

\* Every result that is stored in the window, with its turn, reaches the provider
\* in its order: the projection drops none of them and tells no call as cancelled
\* that has an actual or an unknown result stored.  (This is about stored results.
\* Of a call that returned or may have had an effect the result may never be
\* stored, after Abandon(TRUE), Crash("over"), or a crash while results are owed,
\* and the projection then tells it as cancelled.  With answers of the user among
\* the results it fails: they are stored before the results of their turn, which
\* are then dropped.)
ResultsAreTold ==
    LET W == TakeRecent(transcript)
    IN  NobodyAsks(W) => News(Project(transcript)) = News(FromFirstTurn(W))
==============================================================================
