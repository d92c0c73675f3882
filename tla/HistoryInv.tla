------------------------------- MODULE HistoryInv -------------------------------
(***************************************************************************)
(* What a conversation's transcript says of its calls: every result that   *)
(* is no cancellation belongs to a call of the turn before it, and the     *)
(* calls that a run still has to answer are open.  And how the messages of *)
(* the runtime go with the projection of the transcript.                   *)
(***************************************************************************)
EXTENDS ModelHistory

Calls == [id : Ids, kind : Kinds]
Messages == [role : {"user", "assistant", "tool"}, calls : Seq(Calls),
             answers : Ids \cup {NoId}, said : {"text", "actual", "cancelled", "unknown"},
             size : Sizes \cup {1}]
Results == {m \in Messages : m.role = "tool" /\ m.answers \in Ids /\ m.calls = <<>>}

\* The provider uses no id twice in a turn.
CallsOK(m) == IsInjective(IdsOf(m.calls)) /\ (m.role = "tool" => m \in Results)

TypesOK ==
    /\ transcript \in Seq(Messages) /\ \A i \in DOMAIN transcript : CallsOK(transcript[i])
    /\ phase \in Ended \cup {"stream", "calls", "answered", "closing"}
    /\ seen \in SUBSET Ids
    /\ todo \in Seq([id : seen, kind : Kinds]) /\ IsInjective(IdsOf(todo))
    /\ todo # <<>> <=> phase \in {"calls", "answered"}
    /\ owed \in Seq(Results) /\ sent \in Seq(Messages)
    /\ sent # <<>> <=> transcript # <<>>
    /\ phase = "none" <=> transcript = <<>>

----------------------------------------------------------------------------
Asks(m) == \E call \in ToSet(m.calls) : call.kind = "input"

\* Message i is the turn of a call with this id that nothing has answered; only
\* a turn that asks the user lets messages of the user follow it.
IsOpenAt(messages, i, id) ==
    /\ messages[i].role = "assistant"
    /\ id \in ToSet(IdsOf(messages[i].calls))
    /\ \A j \in (i + 1) .. Len(messages) :
         /\ messages[j].role # "assistant"
         /\ Asks(messages[i]) \/ (messages[j].role = "tool" /\ messages[j].answers # id)
IsOpen(messages, id) == \E i \in DOMAIN messages : IsOpenAt(messages, i, id)

Before(messages, n) == SubSeq(messages, 1, n - 1)

\* A result that the provider has to be told answers an open call.
ResultsHaveCalls(messages) ==
    \A n \in DOMAIN messages :
      messages[n] \in Outcomes => IsOpen(Before(messages, n), messages[n].answers)

\* The calls of the turn that is executed are open, and so is the one that the
\* recovery calls unknown, which it answers first.
TodoIsOpen ==
    todo # <<>> =>
      \E i \in DOMAIN transcript :
        /\ ToSet(todo) \subseteq ToSet(transcript[i].calls)
        /\ \A id \in ToSet(IdsOf(todo)) : IsOpenAt(transcript, i, id)
OwedIsOpen ==
    \A n \in DOMAIN owed :
      owed[n] \in Outcomes => n = 1 /\ phase = "closing" /\ IsOpen(transcript, owed[n].answers)

\* While a run goes on, what it was told is the projection of the transcript,
\* and what the projection still waits for is what the run has to do.
WithinLimits(messages) == Len(messages) <= CountLimit /\ SizeOf(messages) <= Budget
RunAgrees ==
    /\ phase \in {"stream", "calls", "answered", "completed"}
    /\ WithinLimits(transcript) /\ NobodyAsks(transcript)
    => Projected(transcript) = [out |-> sent, pending |-> IdsOf(todo)]

\* A run that was told nothing yet but its prompt.
PromptIsLast ==
    phase = "stream" /\ seen = {} => sent # <<>> /\ Last(sent) = Last(transcript)

HistInv ==
    /\ TypesOK
    /\ ResultsHaveCalls(transcript) /\ TodoIsOpen /\ OwedIsOpen
    /\ RunAgrees /\ PromptIsLast
==============================================================================
