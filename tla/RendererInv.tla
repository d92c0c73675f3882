------------------------------ MODULE RendererInv ------------------------------
(***************************************************************************)
(* What the page knows of messages: nothing that is not in the database,   *)
(* and, once it asked for the history of a thread, everything that is, but *)
(* for what the history or an event on its way still tells it.             *)
(***************************************************************************)
EXTENDS RendererView

Requests ==
    [kind : {"snapshot"}, what : {"all"}, mine : BOOLEAN] \cup
    [kind : {"history"}, what : Conversations, mine : BOOLEAN] \cup
    [kind : {"start", "cancel", "approve"}, what : Runs, mine : BOOLEAN]

EventTypes == {"run-status", "assistant-delta", "message-created", "approval-required",
               "snapshot", "started", "refused", "history", "done"}

\* What is on its way tells of messages that exist, counted per conversation.
IsTrue(e, count) ==
    /\ e.type \in EventTypes
    /\ e.type = "message-created" => /\ e.conversation \in Conversations
                                     /\ e.sequence \in 1 .. count[e.conversation]
    /\ e.type = "history" => /\ e.what \in Conversations
                             /\ e.value \subseteq 1 .. count[e.what]

\* The event, or the reply, shows message n of thread c.
Tells(e, c, n) ==
    \/ e.type = "message-created" /\ e.conversation = c /\ e.sequence = n
    \/ e.type = "history" /\ e.what = c /\ n \in e.value

\* A sequence of such events.
Sound(events, count) ==
    /\ events \in Seq(Range(events))
    /\ \A e \in Range(events) : IsTrue(e, count)

WireOK ==
    /\ written \in [Conversations -> Nat]
    /\ host \in {"up", "down", "back"}
    /\ asked \subseteq Conversations
    /\ toHost \in Seq(Requests)

EventsAreTrue == Sound(toPage, written)

ShownIsWritten == \A c \in DOMAIN shown : c \in Conversations /\ shown[c] \subseteq 1 .. written[c]

\* The request of this page for the history of c has not been answered.
IsAsked(c) == \E q \in Range(toHost) : q.kind = "history" /\ q.what = c /\ q.mine

\* The page shows message n of thread c, or is about to.
IsTold(c, n) == n \in Entry(c) \/ \E e \in Range(toPage) : Tells(e, c, n)

\* What a host took with it when it died is made good by the reload.
HistoryIsTold ==
    host = "up" => \A c \in asked : IsAsked(c) \/ \A n \in 1 .. written[c] : IsTold(c, n)

HistoryInv == WireOK /\ EventsAreTrue /\ ShownIsWritten /\ HistoryIsTold
==============================================================================
