----------------------------- MODULE RendererProofs -----------------------------
(***************************************************************************)
(* HistoryInv is an inductive invariant of RendererView, for any number of *)
(* runs and threads, and at rest it says that a thread shows its whole     *)
(* conversation.  The lemmas take messages on the wires as sets: whatever  *)
(* the order in which history and events arrive, nothing is missing.       *)
(*                                                                         *)
(* ViewInv rests on it: of a run the last thing on its way that says       *)
(* something about it says what is true, so that at rest the page shows    *)
(* what is true.  Here the order counts, and the lemmas say what sending,  *)
(* taking and dropping do to the last that speaks.                         *)
(***************************************************************************)
EXTENDS ViewInv, FiniteSetTheorems, TLAPS

\* Sequences and what is in them.
LEMMA OwnRange == ASSUME NEW S, NEW s \in Seq(S) PROVE s \in Seq(Range(s))
  BY DEF Range

LEMMA JoinRange ==
  ASSUME NEW s, s \in Seq(Range(s)), NEW t, t \in Seq(Range(t))
  PROVE  s \o t \in Seq(Range(s \o t)) /\ Range(s \o t) = Range(s) \cup Range(t)
<1> DEFINE u == s \o t
<1>1. u \in Seq(Range(s) \cup Range(t)) /\ Len(u) = Len(s) + Len(t)
  <2>1. s \in Seq(Range(s) \cup Range(t)) /\ t \in Seq(Range(s) \cup Range(t))
    OBVIOUS
  <2> QED BY <2>1
<1>2. u \in Seq(Range(u))
  BY <1>1, OwnRange
<1>3. Range(u) \subseteq Range(s) \cup Range(t)
  BY <1>1 DEF Range
<1>4. Range(s) \subseteq Range(u)
  <2> SUFFICES ASSUME NEW i \in DOMAIN s PROVE s[i] \in Range(u)
    BY DEF Range
  <2>1. i \in DOMAIN u /\ u[i] = s[i]
    BY <1>1
  <2> QED BY <2>1 DEF Range
<1>5. Range(t) \subseteq Range(u)
  <2> SUFFICES ASSUME NEW i \in DOMAIN t PROVE t[i] \in Range(u)
    BY DEF Range
  <2>1. Len(s) + i \in DOMAIN u /\ u[Len(s) + i] = t[i]
    BY <1>1
  <2> QED BY <2>1 DEF Range
<1> QED BY <1>2, <1>3, <1>4, <1>5

LEMMA TakeRange ==
  ASSUME NEW s, s \in Seq(Range(s)), s /= <<>>
  PROVE  Tail(s) \in Seq(Range(Tail(s))) /\ Range(s) = {Head(s)} \cup Range(Tail(s))
<1>1. Tail(s) \in Seq(Range(s)) /\ Len(s) \in Nat \ {0} /\ Len(Tail(s)) = Len(s) - 1
  OBVIOUS
<1>2. Tail(s) \in Seq(Range(Tail(s)))
  BY <1>1, OwnRange
<1>3. \A i \in DOMAIN Tail(s) : Tail(s)[i] = s[i + 1] /\ i + 1 \in DOMAIN s
  BY <1>1
<1>4. \A i \in DOMAIN s : i = 1 \/ (i - 1 \in DOMAIN Tail(s) /\ s[i] = Tail(s)[i - 1])
  BY <1>1, <1>3
<1>5. Head(s) = s[1] /\ 1 \in DOMAIN s
  BY <1>1
<1>6. Range(s) \subseteq {Head(s)} \cup Range(Tail(s))
  <2> SUFFICES ASSUME NEW i \in DOMAIN s PROVE s[i] \in {Head(s)} \cup Range(Tail(s))
    BY DEF Range
  <2> QED BY <1>4, <1>5 DEF Range
<1>7. Range(Tail(s)) \subseteq Range(s)
  <2> SUFFICES ASSUME NEW i \in DOMAIN Tail(s) PROVE Tail(s)[i] \in Range(s)
    BY DEF Range
  <2> QED BY <1>3 DEF Range
<1> QED BY <1>2, <1>5, <1>6, <1>7 DEF Range

LEMMA PrefixRange ==
  ASSUME NEW s, s \in Seq(Range(s)), NEW n \in 0 .. Len(s)
  PROVE  /\ SubSeq(s, 1, n) \in Seq(Range(SubSeq(s, 1, n)))
         /\ Range(SubSeq(s, 1, n)) \subseteq Range(s)
<1> DEFINE u == SubSeq(s, 1, n)
<1>1. u \in Seq(Range(s)) /\ \A i \in DOMAIN u : i \in DOMAIN s /\ u[i] = s[i]
  OBVIOUS
<1>2. u \in Seq(Range(u))
  BY <1>1, OwnRange
<1> QED BY <1>1, <1>2 DEF Range

LEMMA OneRange == ASSUME NEW e PROVE <<e>> \in Seq(Range(<<e>>)) /\ Range(<<e>>) = {e}
  BY DEF Range

LEMMA NoRange == <<>> \in Seq(Range(<<>>)) /\ Range(<<>>) = {}
  BY DEF Range

\* A sequence of events stays sound while messages are added.
LEMMA SoundLater ==
  ASSUME NEW s, NEW m \in [Conversations -> Nat], NEW n \in [Conversations -> Nat],
         \A c \in Conversations : m[c] <= n[c], Sound(s, m)
  PROVE  Sound(s, n)
<1> SUFFICES ASSUME NEW e \in Range(s) PROVE IsTrue(e, n)
  BY DEF Sound
<1>1. IsTrue(e, m)
  BY DEF Sound
<1>2. \A c \in Conversations : 1 .. m[c] \subseteq 1 .. n[c]
  OBVIOUS
<1> QED BY <1>1, <1>2 DEF IsTrue

LEMMA SoundJoin ==
  ASSUME NEW s, NEW t, NEW n, Sound(s, n), Sound(t, n)
  PROVE  Sound(s \o t, n) /\ Range(s \o t) = Range(s) \cup Range(t)
  BY JoinRange DEF Sound

LEMMA SoundOne ==
  ASSUME NEW e, NEW n, IsTrue(e, n) PROVE Sound(<<e>>, n) /\ Range(<<e>>) = {e}
  BY OneRange DEF Sound

LEMMA SoundNone == ASSUME NEW n PROVE Sound(<<>>, n) /\ Range(<<>>) = {}
  BY NoRange DEF Sound

LEMMA SoundTwo ==
  ASSUME NEW d, NEW e, NEW n, IsTrue(d, n), IsTrue(e, n)
  PROVE  Sound(<<d, e>>, n) /\ Range(<<d, e>>) = {d, e}
<1>1. <<d, e>> \in Seq({d, e}) /\ Range(<<d, e>>) = {d, e}
  BY DEF Range
<1> QED BY <1>1, OwnRange DEF Sound

\* What tells of no message is true at any time.
LEMMA SoundStatus ==
  ASSUME NEW r, NEW s, NEW n PROVE IsTrue(Status(r, s), n)
  BY DEF IsTrue, Status, EventTypes

LEMMA SoundReply ==
  ASSUME NEW type \in {"snapshot", "started", "refused", "done"}, NEW what, NEW value, NEW n
  PROVE  IsTrue(Reply(type, what, value), n)
  BY DEF IsTrue, Reply, EventTypes

LEMMA SoundMessage ==
  ASSUME NEW c \in Conversations, NEW n, NEW i \in 1 .. n[c], NEW role
  PROVE  IsTrue(Message(c, i, role), n) /\ Tells(Message(c, i, role), c, i)
  BY DEF IsTrue, Tells, Message, EventTypes

----------------------------------------------------------------------------
\* The host publishes: every message it adds is told, and every history that it
\* answers is told whole.
LEMMA Grows ==
  ASSUME HistoryInv, NEW events, Sound(events, written'), toPage' = toPage \o events,
         written' \in [Conversations -> Nat],
         \A c \in Conversations : written[c] <= written'[c],
         \A c \in Conversations : \A n \in 1 .. written'[c] :
            n <= written[c] \/ \E e \in Range(events) : Tells(e, c, n),
         host' \in {"up", "down", "back"}, host' = "up" => host = "up",
         toHost' \in Seq(Requests), UNCHANGED <<asked, shown>>,
         host' = "up" => \A c \in asked : IsAsked(c) =>
            \/ IsAsked(c)'
            \/ \A n \in 1 .. written'[c] : \E e \in Range(events) : Tells(e, c, n)
  PROVE  HistoryInv'
<1> USE DEF HistoryInv, WireOK
<1>1. Sound(toPage, written')
  BY SoundLater DEF EventsAreTrue
<1>2. Sound(toPage', written') /\ Range(toPage') = Range(toPage) \cup Range(events)
  BY <1>1, SoundJoin
<1>3. ShownIsWritten'
  <2>1. \A c \in Conversations : 1 .. written[c] \subseteq 1 .. written'[c]
    OBVIOUS
  <2> QED BY <2>1 DEF ShownIsWritten
<1>4. ASSUME host' = "up", NEW c \in asked PROVE
    IsAsked(c)' \/ \A n \in 1 .. written'[c] : IsTold(c, n)'
  <2>1. IsAsked(c) \/ \A n \in 1 .. written[c] : IsTold(c, n)
    BY <1>4 DEF HistoryIsTold
  <2>2. \A n : IsTold(c, n) => IsTold(c, n)'
    BY <1>2 DEF IsTold, Entry
  <2>3. \A n : (\E e \in Range(events) : Tells(e, c, n)) => IsTold(c, n)'
    BY <1>2 DEF IsTold
  <2>4. CASE IsAsked(c)
    BY <1>4, <2>3, <2>4
  <2>5. CASE \A n \in 1 .. written[c] : IsTold(c, n)
    <3> SUFFICES ASSUME NEW n \in 1 .. written'[c] PROVE IsTold(c, n)'
      OBVIOUS
    <3>1. c \in Conversations
      OBVIOUS
    <3>2. CASE n <= written[c]
      BY <3>1, <3>2, <2>2, <2>5
    <3>3. CASE \E e \in Range(events) : Tells(e, c, n)
      BY <3>3, <2>3
    <3> QED BY <3>1, <3>2, <3>3
  <2> QED BY <2>1, <2>4, <2>5
<1>5. HistoryIsTold'
  BY <1>4 DEF HistoryIsTold
<1> QED BY <1>2, <1>3, <1>5 DEF EventsAreTrue

\* What leaves the database alone, the page and the requests too.
LEMMA Says ==
  ASSUME HistoryInv, NEW events, Sound(events, written), toPage' = toPage \o events,
         UNCHANGED <<written, host, toHost, asked, shown>>
  PROVE  HistoryInv'
<1>1. \A c : IsAsked(c)' <=> IsAsked(c)
  BY DEF IsAsked
<1> QED BY <1>1, Grows DEF HistoryInv, WireOK

\* The page takes what comes first, and shows what that tells.
LEMMA Shows ==
  ASSUME HistoryInv, toPage /= <<>>, toPage' = Tail(toPage),
         ShownIsWritten', \A c \in asked, n \in Nat :
            n \in Entry(c) \/ Tells(Head(toPage), c, n) => n \in Entry(c)',
         toHost' \in Seq(Requests), \A c \in asked : IsAsked(c) => IsAsked(c)',
         UNCHANGED <<written, host, asked>>
  PROVE  HistoryInv'
<1> USE DEF HistoryInv, WireOK
<1>1. Sound(toPage', written) /\ Range(toPage) = {Head(toPage)} \cup Range(toPage')
  BY TakeRange DEF EventsAreTrue, Sound
<1>2. ASSUME host = "up", NEW c \in asked PROVE
    IsAsked(c)' \/ \A n \in 1 .. written[c] : IsTold(c, n)'
  <2>1. \A n \in Nat : IsTold(c, n) => IsTold(c, n)'
    BY <1>1 DEF IsTold
  <2>2. 1 .. written[c] \subseteq Nat
    OBVIOUS
  <2> QED BY <1>2, <2>1, <2>2 DEF HistoryIsTold
<1>3. HistoryIsTold'
  BY <1>2 DEF HistoryIsTold
<1> QED BY <1>1, <1>3 DEF EventsAreTrue

\* The page asks for one more thing.
LEMMA Asks ==
  ASSUME HistoryInv, NEW q \in Requests, toHost' = Append(toHost, q),
         asked' \subseteq Conversations,
         \A c \in asked' : c \in asked \/ q = Ask("history", c),
         UNCHANGED <<written, host, toPage, shown>>
  PROVE  HistoryInv'
<1> USE DEF HistoryInv, WireOK
<1>1. toHost' \in Seq(Requests) /\ Range(toHost') = Range(toHost) \cup {q}
  <2>1. toHost \in Seq(Range(toHost)) /\ toHost' = toHost \o <<q>>
    BY OwnRange
  <2>2. Range(toHost') = Range(toHost) \cup Range(<<q>>)
    BY <2>1, OneRange, JoinRange
  <2>3. Range(<<q>>) = {q}
    BY OneRange
  <2> QED BY <2>2, <2>3
<1>2. ASSUME NEW c \in asked', host = "up" PROVE
    IsAsked(c)' \/ \A n \in 1 .. written[c] : IsTold(c, n)'
  <2>1. CASE c \in asked
    BY <1>1, <1>2, <2>1 DEF HistoryIsTold, IsAsked, IsTold, Entry
  <2>2. CASE q = Ask("history", c)
    BY <1>1, <2>2 DEF IsAsked, Ask
  <2> QED BY <1>2, <2>1, <2>2
<1> QED BY <1>1, <1>2 DEF EventsAreTrue, ShownIsWritten, HistoryIsTold, Sound

\* Nothing that HistoryInv is about changes.
LEMMA Stays ==
  ASSUME HistoryInv, UNCHANGED <<written, host, toHost, toPage, asked, shown>>
  PROVE  HistoryInv'
  BY DEF HistoryInv, WireOK, EventsAreTrue, Sound, ShownIsWritten, HistoryIsTold, IsAsked,
         IsTold, Entry

----------------------------------------------------------------------------
\* What the host does of its own accord.
LEMMA RunStep ==
  ASSUME HistoryInv, NEW r \in Runs,
         \/ Begin(r) \/ Delta(r) \/ AskApproval(r) \/ AskInput(r)
         \/ \E role \in {"assistant", "tool"} : Say(r, role)
         \/ \E before, after \in BOOLEAN : End(r, before, after)
         \/ CancelTimesOut(r) \/ Send(r) \/ Cancel(r) \/ Decide(r)
  PROVE  HistoryInv'
<1> USE RendererAssumption DEF store, page, wire, HistoryInv, WireOK
<1> DEFINE c == ConversationOf[r]
<1>0. c \in Conversations /\ written[c] \in Nat
  OBVIOUS
<1>1. CASE Begin(r)
  <2>1. Sound(<<Status(r, "running")>>, written)
    BY SoundStatus, SoundOne
  <2> QED BY <1>1, <2>1, Says DEF Begin, MoveRun, Publish
<1>2. CASE Delta(r)
  <2> DEFINE e == [type |-> "assistant-delta", conversation |-> c]
  <2>1. IsTrue(e, written)
    BY DEF IsTrue, EventTypes
  <2>2. Sound(<<e>>, written)
    BY <2>1, SoundOne
  <2> QED BY <1>2, <2>2, Says DEF Delta, Publish
<1>3. CASE AskApproval(r)
  <2> DEFINE e == [type |-> "approval-required", run |-> r]
  <2>1. IsTrue(e, written)
    BY DEF IsTrue, EventTypes
  <2>2. Sound(<<Status(r, "waiting-approval"), e>>, written)
    BY <2>1, SoundStatus, SoundTwo
  <2> QED BY <1>3, <2>2, Says DEF AskApproval, MoveRun, Publish
<1>4. CASE AskInput(r)
  <2>1. Sound(<<Status(r, "waiting-input")>>, written)
    BY SoundStatus, SoundOne
  <2> QED BY <1>4, <2>1, Says DEF AskInput, MoveRun, Publish
<1>5. ASSUME NEW role \in {"assistant", "tool"}, Say(r, role) PROVE HistoryInv'
  <2> DEFINE e == Message(c, written[c] + 1, role)
  <2>1. /\ written' = [written EXCEPT ![c] = @ + 1]
        /\ toPage' = toPage \o <<e>>
        /\ UNCHANGED <<host, toHost, asked, shown>>
    BY <1>5 DEF Say, MoveRun, Publish
  <2>2. /\ written' \in [Conversations -> Nat] /\ written'[c] = written[c] + 1
        /\ written[c] + 1 \in 1 .. written'[c]
        /\ \A d \in Conversations : written[d] <= written'[d]
    BY <1>0, <2>1
  <2>3. IsTrue(e, written') /\ Tells(e, c, written[c] + 1)
    BY <1>0, <2>2, SoundMessage
  <2>4. Sound(<<e>>, written') /\ Range(<<e>>) = {e}
    BY <2>3, SoundOne
  <2>5. \A d \in Conversations : \A n \in 1 .. written'[d] :
           n <= written[d] \/ \E f \in Range(<<e>>) : Tells(f, d, n)
    BY <1>0, <2>1, <2>3, <2>4
  <2>6. \A d : IsAsked(d) => IsAsked(d)'
    BY <2>1 DEF IsAsked
  <2> HIDE DEF e
  <2> QED BY <2>1, <2>2, <2>4, <2>5, <2>6, Grows
<1>6. ASSUME NEW before \in BOOLEAN, NEW after \in BOOLEAN, End(r, before, after)
      PROVE HistoryInv'
  <2> DEFINE n == written[c]
             text == IF before THEN <<Message(c, n + 1, "assistant")>> ELSE <<>>
             results == IF after THEN <<Message(c, n + Len(text) + 1, "tool")>> ELSE <<>>
             answer == IF r \in cancels THEN <<Reply("done", r, TRUE)>> ELSE <<>>
             ended == <<Status(r, "ended")>>
             events == text \o ended \o results \o answer
  <2>1. /\ written' = [written EXCEPT ![c] = @ + Len(text \o results)]
        /\ toPage' = toPage \o events
        /\ UNCHANGED <<host, toHost, asked, shown>>
    BY <1>6 DEF End, Publish
  <2>2. /\ Len(text) = IF before THEN 1 ELSE 0
        /\ Len(text \o results) = Len(text) + (IF after THEN 1 ELSE 0)
    OBVIOUS
  <2>3. /\ written' \in [Conversations -> Nat]
        /\ written'[c] = n + (IF before THEN 1 ELSE 0) + (IF after THEN 1 ELSE 0)
        /\ \A d \in Conversations : written[d] <= written'[d]
    BY <1>0, <2>1, <2>2
  <2>4. Sound(text, written') /\ (before => \E e \in Range(text) : Tells(e, c, n + 1))
    <3>1. CASE before
      <4>1. IsTrue(Message(c, n + 1, "assistant"), written')
            /\ Tells(Message(c, n + 1, "assistant"), c, n + 1)
        BY <1>0, <2>3, <3>1, SoundMessage
      <4> QED BY <3>1, <4>1, SoundOne
    <3>2. CASE ~before
      BY <3>2, SoundNone
    <3> QED BY <3>1, <3>2
  <2>5. Sound(results, written')
        /\ (after => \E e \in Range(results) : Tells(e, c, n + Len(text) + 1))
    <3>1. CASE after
      <4>1. IsTrue(Message(c, n + Len(text) + 1, "tool"), written')
            /\ Tells(Message(c, n + Len(text) + 1, "tool"), c, n + Len(text) + 1)
        BY <1>0, <2>2, <2>3, <3>1, SoundMessage
      <4> QED BY <3>1, <4>1, SoundOne
    <3>2. CASE ~after
      BY <3>2, SoundNone
    <3> QED BY <3>1, <3>2
  <2>6. Sound(answer, written')
    BY SoundReply, SoundOne, SoundNone
  <2>7. Sound(ended, written')
    BY SoundStatus, SoundOne
  <2>8. Sound(events, written') /\ Range(text) \cup Range(results) \subseteq Range(events)
    <3> HIDE DEF text, ended, results, answer
    <3>1. Sound(text \o ended, written')
          /\ Range(text \o ended) = Range(text) \cup Range(ended)
      BY <2>4, <2>7, SoundJoin
    <3>2. Sound(text \o ended \o results, written')
          /\ Range(text \o ended \o results) = Range(text \o ended) \cup Range(results)
      BY <3>1, <2>5, SoundJoin
    <3>3. Sound(events, written')
          /\ Range(events) = Range(text \o ended \o results) \cup Range(answer)
      BY <3>2, <2>6, SoundJoin
    <3> QED BY <3>1, <3>2, <3>3
  <2>9. \A d \in Conversations : \A i \in 1 .. written'[d] :
           i <= written[d] \/ \E e \in Range(events) : Tells(e, d, i)
    <3> SUFFICES ASSUME NEW d \in Conversations, NEW i \in 1 .. written'[d]
                 PROVE i <= written[d] \/ \E e \in Range(events) : Tells(e, d, i)
      OBVIOUS
    <3>1. CASE d # c
      BY <1>0, <2>1, <3>1
    <3>2. CASE d = c
      <4>1. i <= n \/ (before /\ i = n + 1) \/ (after /\ i = n + Len(text) + 1)
        BY <1>0, <2>2, <2>3, <3>2
      <4> HIDE DEF text, results, events
      <4> QED BY <2>4, <2>5, <2>8, <3>2, <4>1
    <3> QED BY <3>1, <3>2
  <2>10. \A d : IsAsked(d) => IsAsked(d)'
    BY <2>1 DEF IsAsked
  <2> HIDE DEF events
  <2> QED BY <2>1, <2>3, <2>8, <2>9, <2>10, Grows
<1>7. CASE CancelTimesOut(r)
  BY <1>7, Stays DEF CancelTimesOut
<1>8. CASE Send(r)
  BY <1>8, Asks DEF Send, Request, Ask, Requests
<1>9. CASE Cancel(r)
  BY <1>9, Asks DEF Cancel, Request, Ask, Requests
<1>10. CASE Decide(r)
  BY <1>10, Asks DEF Decide, Request, Ask, Requests
<1> QED BY <1>1, <1>2, <1>3, <1>4, <1>5, <1>6, <1>7, <1>8, <1>9, <1>10

\* The host answers the first request: an answer is lost only to a page that is
\* gone, whose request was not this page's.
LEMMA Answers ==
  ASSUME HistoryInv, toHost /= <<>>, toHost' = Tail(toHost),
         NEW events, NEW reply, Answer(Head(toHost), events, reply),
         Sound(events, written'), Sound(reply, written'),
         written' \in [Conversations -> Nat],
         \A c \in Conversations : written[c] <= written'[c],
         \A c \in Conversations : \A n \in 1 .. written'[c] :
            n <= written[c] \/ \E e \in Range(events) : Tells(e, c, n),
         UNCHANGED <<host, asked, shown>>,
         Head(toHost).kind = "history" =>
            /\ UNCHANGED written
            /\ \A n \in 1 .. written[Head(toHost).what] :
                  \E e \in Range(reply) : Tells(e, Head(toHost).what, n)
  PROVE  HistoryInv'
<1> USE DEF HistoryInv, WireOK
<1> DEFINE q == Head(toHost)
           posted == IF q.mine THEN events \o reply ELSE events
<1>1. toPage' = toPage \o posted
  BY DEF Answer, Publish
<1>2. Sound(events \o reply, written')
      /\ Range(events \o reply) = Range(events) \cup Range(reply)
  BY SoundJoin
<1>3. /\ Sound(posted, written')
      /\ Range(events) \subseteq Range(posted)
      /\ q.mine => Range(reply) \subseteq Range(posted)
  BY <1>2
<1>4. toHost' \in Seq(Requests) /\ q \in Requests /\ Range(toHost) = {q} \cup Range(toHost')
  <2>1. toHost \in Seq(Range(toHost))
    BY OwnRange
  <2> QED BY <2>1, TakeRange
<1>5. ASSUME NEW c \in asked, IsAsked(c) PROVE
    IsAsked(c)' \/ \A n \in 1 .. written'[c] : \E e \in Range(posted) : Tells(e, c, n)
  <2>1. PICK p \in Range(toHost) : p.kind = "history" /\ p.what = c /\ p.mine
    BY <1>5 DEF IsAsked
  <2>2. CASE p = q
    BY <1>3, <2>1, <2>2
  <2>3. CASE p \in Range(toHost')
    BY <2>1, <2>3 DEF IsAsked
  <2> QED BY <1>4, <2>1, <2>2, <2>3
<1> HIDE DEF posted
<1> QED BY <1>1, <1>3, <1>4, <1>5, Grows

LEMMA HandleStep == HistoryInv /\ Handle => HistoryInv'
<1> SUFFICES ASSUME HistoryInv, Handle PROVE HistoryInv'
  OBVIOUS
<1> DEFINE q == Head(toHost)
<1> USE RendererAssumption DEF HistoryInv, WireOK, store, page
<1>0. /\ toHost /= <<>> /\ toHost' = Tail(toHost) /\ q \in Requests
      /\ UNCHANGED <<host, asked, shown>>
  BY DEF Handle
<1>1. CASE UNCHANGED written
  <2>1. /\ written' \in [Conversations -> Nat]
        /\ \A c \in Conversations : written[c] <= written'[c]
        /\ \A c \in Conversations : \A n \in 1 .. written'[c] : n <= written[c]
    BY <1>1
  <2>2. ASSUME NEW events, NEW reply, Answer(q, events, reply),
               Sound(events, written), Sound(reply, written),
               q.kind = "history" => \A n \in 1 .. written[q.what] :
                                        \E e \in Range(reply) : Tells(e, q.what, n)
        PROVE HistoryInv'
    BY <1>0, <1>1, <2>1, <2>2, Answers
  <2>3. CASE HandleSnapshot(q)
    <3>1. Answer(q, <<>>, <<Reply("snapshot", "all", Snapshot)>>) /\ q.kind = "snapshot"
      BY <2>3 DEF HandleSnapshot
    <3>2. Sound(<<Reply("snapshot", "all", Snapshot)>>, written)
      BY SoundReply, SoundOne
    <3> QED BY <2>2, <3>1, <3>2, SoundNone
  <2>4. CASE HandleHistory(q)
    <3> DEFINE e == Reply("history", q.what, 1 .. written[q.what])
    <3>1. Answer(q, <<>>, <<e>>) /\ q.what \in Conversations
      BY <1>0, <2>4 DEF HandleHistory, Requests
    <3>2. IsTrue(e, written) /\ \A n \in 1 .. written[q.what] : Tells(e, q.what, n)
      BY <3>1 DEF IsTrue, Tells, Reply, EventTypes
    <3>3. Sound(<<e>>, written) /\ Range(<<e>>) = {e}
      BY <3>2, SoundOne
    <3> HIDE DEF e
    <3> QED BY <2>2, <3>1, <3>2, <3>3, SoundNone
  <2>5. CASE Refuse(q)
    <3>1. Answer(q, <<>>, <<Reply("refused", q.what, TRUE)>>) /\ q.kind = "start"
      BY <2>5 DEF Refuse
    <3>2. Sound(<<Reply("refused", q.what, TRUE)>>, written)
      BY SoundReply, SoundOne
    <3> QED BY <2>2, <3>1, <3>2, SoundNone
  <2>6. CASE CancelRun(q)
    <3>1. q.kind = "cancel"
      BY <2>6 DEF CancelRun
    <3>2. CASE status[q.what] = "ended"
      <4>1. Answer(q, <<>>, <<Reply("done", q.what, TRUE)>>)
        BY <2>6, <3>2 DEF CancelRun
      <4>2. Sound(<<Reply("done", q.what, TRUE)>>, written)
        BY SoundReply, SoundOne
      <4> QED BY <2>2, <3>1, <4>1, <4>2, SoundNone
    <3>3. CASE status[q.what] # "ended"
      <4> DEFINE e == IF status[q.what] = "cancelling"
                      THEN <<>> ELSE <<Status(q.what, "cancelling")>>
      <4>1. toPage' = toPage \o e
        BY <2>6, <3>3 DEF CancelRun, Publish
      <4>2. Sound(e, written)
        BY SoundStatus, SoundOne, SoundNone
      <4>3. e \o <<>> = e
        OBVIOUS
      <4>4. Answer(q, e, <<>>)
        BY <4>1, <4>3 DEF Answer, Publish
      <4> HIDE DEF e
      <4> QED BY <2>2, <3>1, <4>2, <4>4, SoundNone
    <3> QED BY <3>2, <3>3
  <2>7. CASE ResolveApproval(q)
    <3> DEFINE e == IF status[q.what] = "waiting-approval"
                    THEN <<Status(q.what, "running")>> ELSE <<>>
    <3>1. q.kind = "approve"
      BY <2>7 DEF ResolveApproval
    <3>2. CASE q.what \in pending
      <4>1. Answer(q, e, <<Reply("done", q.what, TRUE)>>)
        BY <2>7, <3>2 DEF ResolveApproval
      <4>2. Sound(e, written)
        BY SoundStatus, SoundOne, SoundNone
      <4>3. Sound(<<Reply("done", q.what, TRUE)>>, written)
        BY SoundReply, SoundOne
      <4> HIDE DEF e
      <4> QED BY <2>2, <3>1, <4>1, <4>2, <4>3
    <3>3. CASE q.what \notin pending
      <4>1. toPage' = toPage \o <<>>
        <5>1. toPage' = toPage
          BY <2>7, <3>3 DEF ResolveApproval
        <5> QED BY <5>1 DEF EventsAreTrue, Sound
      <4>2. <<>> \o <<>> = <<>>
        OBVIOUS
      <4>3. Answer(q, <<>>, <<>>)
        BY <4>1, <4>2 DEF Answer, Publish
      <4> QED BY <2>2, <3>1, <4>3, SoundNone
    <3> QED BY <3>2, <3>3
  <2>8. CASE ProvideRunInput(q)
    <3>1. FALSE
      BY <1>0, <1>1, <2>8 DEF ProvideRunInput, Requests
    <3> QED BY <3>1
  <2>9. CASE \E keyless \in BOOLEAN : StartRun(q, keyless)
    <3>1. FALSE
      BY <1>0, <1>1, <2>9 DEF StartRun, Requests
    <3> QED BY <3>1
  <2> QED BY <2>3, <2>4, <2>5, <2>6, <2>7, <2>8, <2>9 DEF Handle
<1>2. ASSUME NEW c \in Conversations, written' = [written EXCEPT ![c] = @ + 1],
             q.kind = "start", NEW events, NEW reply, Answer(q, events, reply),
             Sound(reply, written'), Sound(events, written'),
             \E e \in Range(events) : Tells(e, c, written[c] + 1)
      PROVE HistoryInv'
  <2>1. /\ written' \in [Conversations -> Nat]
        /\ \A d \in Conversations : written[d] <= written'[d]
    BY <1>2
  <2>2. \A d \in Conversations : \A n \in 1 .. written'[d] :
           n <= written[d] \/ \E e \in Range(events) : Tells(e, d, n)
    BY <1>2
  <2> QED BY <1>0, <1>2, <2>1, <2>2, Answers
<1>3. ASSUME NEW c \in Conversations, written' = [written EXCEPT ![c] = @ + 1]
      PROVE /\ IsTrue(Message(c, written[c] + 1, "user"), written')
            /\ Tells(Message(c, written[c] + 1, "user"), c, written[c] + 1)
  <2>1. written[c] + 1 \in 1 .. written'[c]
    BY <1>3
  <2> QED BY <2>1, SoundMessage
<1>4. ASSUME NEW keyless \in BOOLEAN, StartRun(q, keyless) PROVE HistoryInv'
  <2> DEFINE r == q.what
             c == ConversationOf[r]
             first == <<Status(r, "queued"), Message(c, written[c] + 1, "user")>>
             then == IF keyless THEN <<Status(r, "running")>> ELSE <<>>
  <2>1. c \in Conversations /\ q.kind = "start"
    BY <1>0, <1>4 DEF StartRun, Requests
  <2>2. /\ written' = [written EXCEPT ![c] = @ + 1]
        /\ Answer(q, first \o then, <<Reply("started", r, "queued")>>)
    BY <1>4 DEF StartRun
  <2>3. Sound(first, written') /\ \E e \in Range(first) : Tells(e, c, written[c] + 1)
    <3> DEFINE d == Status(r, "queued")
               e == Message(c, written[c] + 1, "user")
    <3>1. IsTrue(e, written') /\ Tells(e, c, written[c] + 1)
      BY <1>3, <2>1, <2>2
    <3>2. IsTrue(d, written')
      BY SoundStatus
    <3> HIDE DEF d, e
    <3>3. Sound(<<d, e>>, written') /\ e \in Range(<<d, e>>)
      BY <3>1, <3>2, SoundTwo
    <3> QED BY <3>1, <3>3 DEF d, e
  <2>4. Sound(then, written')
    BY SoundStatus, SoundOne, SoundNone
  <2>5. Sound(first \o then, written') /\ Range(first) \subseteq Range(first \o then)
    BY <2>3, <2>4, SoundJoin
  <2>6. Sound(<<Reply("started", r, "queued")>>, written')
    BY SoundReply, SoundOne
  <2> HIDE DEF first, then
  <2> QED BY <1>2, <2>1, <2>2, <2>3, <2>5, <2>6
<1>5. CASE ProvideRunInput(q)
  <2> DEFINE c == ConversationOf[q.what]
  <2>1. c \in Conversations /\ q.kind = "start" /\ written' = [written EXCEPT ![c] = @ + 1]
    BY <1>0, <1>5 DEF ProvideRunInput, Requests
  <2>2. PICK r : Answer(q, <<Message(c, written[c] + 1, "user"), Status(r, "running")>>,
                        <<Reply("started", r, "waiting-input")>>)
    BY <1>5 DEF ProvideRunInput
  <2> DEFINE events == <<Message(c, written[c] + 1, "user"), Status(r, "running")>>
  <2>3. Sound(events, written') /\ \E e \in Range(events) : Tells(e, c, written[c] + 1)
    <3> DEFINE d == Message(c, written[c] + 1, "user")
               e == Status(r, "running")
    <3>1. IsTrue(d, written') /\ Tells(d, c, written[c] + 1)
      BY <1>3, <2>1
    <3>2. IsTrue(e, written')
      BY SoundStatus
    <3> HIDE DEF d, e
    <3>3. Sound(<<d, e>>, written') /\ d \in Range(<<d, e>>)
      BY <3>1, <3>2, SoundTwo
    <3> QED BY <3>1, <3>3 DEF d, e
  <2>4. Sound(<<Reply("started", r, "waiting-input")>>, written')
    BY SoundReply, SoundOne
  <2> HIDE DEF events
  <2> QED BY <1>2, <2>1, <2>2, <2>3, <2>4 DEF events
<1>6. CASE ~ UNCHANGED written
  BY <1>4, <1>5, <1>6 DEF Handle, HandleSnapshot, HandleHistory, Refuse, CancelRun,
     ResolveApproval
<1> QED BY <1>1, <1>6

----------------------------------------------------------------------------
\* The host dies and comes back; the page forgets what it asked for.
LEMMA CrashStep == HistoryInv /\ (Crash \/ Restart \/ Reload) => HistoryInv'
<1> SUFFICES ASSUME HistoryInv, Crash \/ Restart \/ Reload PROVE HistoryInv'
  OBVIOUS
<1> USE DEF HistoryInv, WireOK, store, page, EventsAreTrue
<1>1. CASE Crash
  <2>1. PICK n \in 0 .. Len(toPage) : toPage' = SubSeq(toPage, 1, n)
    BY <1>1 DEF Crash
  <2>2. Sound(toPage', written)
    BY <2>1, PrefixRange DEF Sound
  <2>3. toHost' \in Seq(Requests) /\ host' = "down" /\ UNCHANGED <<written, asked, shown>>
    BY <1>1 DEF Crash
  <2> QED BY <2>2, <2>3 DEF ShownIsWritten, HistoryIsTold, Sound
<1>2. CASE Restart
  <2> DEFINE told == [i \in 1 .. Cardinality(OpenRuns) |-> Status(SetToSeq(OpenRuns)[i], "ended")]
  <2>1. toPage' = toPage \o told /\ host' = "back" /\ UNCHANGED <<written, toHost, asked, shown>>
    BY <1>2 DEF Restart, Publish
  <2>2. Cardinality(OpenRuns) \in Nat
    BY RendererAssumption, FS_Subset, FS_CardinalityType DEF OpenRuns
  <2>3. \A i \in DOMAIN told : IsTrue(told[i], written)
    BY SoundStatus
  <2>4. told \in Seq(Range(told))
    BY <2>2 DEF Range
  <2>5. Sound(told, written)
    BY <2>3, <2>4 DEF Sound, Range
  <2> HIDE DEF told
  <2>6. \A c \in Conversations : written[c] <= written[c]
    OBVIOUS
  <2>7. \A c \in Conversations : \A n \in 1 .. written[c] : n <= written[c]
    OBVIOUS
  <2> QED BY <2>1, <2>5, <2>6, <2>7, Grows
<1>3. CASE Reload
  <2>1. /\ host' = "up" /\ asked' = {} /\ shown' = Empty /\ toPage' = <<>>
        /\ UNCHANGED written
    BY <1>3 DEF Reload
  <2>2. toHost' \in Seq(Requests)
    <3> DEFINE old == [i \in DOMAIN toHost |-> [toHost[i] EXCEPT !.mine = FALSE]]
    <3>1. \A i \in DOMAIN toHost : old[i] \in Requests
      <4> SUFFICES ASSUME NEW p \in Requests PROVE [p EXCEPT !.mine = FALSE] \in Requests
        OBVIOUS
      <4> QED BY DEF Requests
    <3>2. old \in Seq(Requests)
      BY <3>1
    <3>3. <<Ask("snapshot", "all")>> \in Seq(Requests)
      BY DEF Ask, Requests
    <3>4. toHost' = old \o <<Ask("snapshot", "all")>>
      BY <1>3 DEF Reload
    <3> HIDE DEF old
    <3> QED BY <3>2, <3>3, <3>4
  <2>3. Sound(toPage', written')
    BY <2>1, SoundNone
  <2>4. DOMAIN shown' = {}
    BY <2>1 DEF Empty
  <2> QED BY <2>1, <2>2, <2>3, <2>4 DEF ShownIsWritten, HistoryIsTold
<1> QED BY <1>1, <1>2, <1>3

----------------------------------------------------------------------------
\* The page takes an event or a reply.
LEMMA DeliverStep == HistoryInv /\ Deliver => HistoryInv'
<1> SUFFICES ASSUME HistoryInv, Deliver PROVE HistoryInv'
  OBVIOUS
<1> DEFINE e == Head(toPage)
<1> USE DEF HistoryInv, WireOK, page
<1>0. /\ toPage /= <<>> /\ toPage' = Tail(toPage) /\ Apply(e)
      /\ UNCHANGED <<written, host>>
  BY DEF Deliver, store
<1>1. IsTrue(e, written)
  BY <1>0, TakeRange DEF EventsAreTrue, Sound
<1>2. ASSUME UNCHANGED <<shown, asked>>, e.type \notin {"message-created", "history"},
             toHost' \in Seq(Requests), \A c : IsAsked(c) => IsAsked(c)'
      PROVE HistoryInv'
  <2>1. \A c, n : ~Tells(e, c, n) /\ Entry(c)' = Entry(c)
    BY <1>2 DEF Tells, Entry
  <2>2. ShownIsWritten'
    BY <1>0, <1>2 DEF ShownIsWritten
  <2> HIDE DEF e
  <2> QED BY <1>0, <1>2, <2>1, <2>2, Shows DEF e
<1>3. ASSUME UNCHANGED toHost PROVE toHost' \in Seq(Requests) /\ \A c : IsAsked(c) => IsAsked(c)'
  BY <1>3 DEF IsAsked
<1>4. ASSUME NEW c \in Conversations, NEW new \in SUBSET (1 .. written[c]),
             Show(c, new),
             \A d, n : Tells(e, d, n) => d = c /\ n \in new,
             UNCHANGED <<asked, toHost>>
      PROVE HistoryInv'
  <2>1. \A d : Entry(d)' = IF d = c THEN Entry(c) \cup new ELSE Entry(d)
    BY <1>4 DEF Entry, Show
  <2>2. DOMAIN shown' = {c} \cup DOMAIN shown
    BY <1>4 DEF Show
  <2>3. \A d \in DOMAIN shown' : shown'[d] = Entry(d)'
    BY DEF Entry
  <2>4. Entry(c) \subseteq 1 .. written[c]
    BY DEF Entry, ShownIsWritten
  <2>5. \A d \in DOMAIN shown : d \in Conversations /\ Entry(d) \subseteq 1 .. written[d]
    BY DEF Entry, ShownIsWritten
  <2>6. ShownIsWritten'
    BY <1>0, <1>4, <2>1, <2>2, <2>3, <2>4, <2>5 DEF ShownIsWritten
  <2>7. \A d, n : n \in Entry(d) \/ Tells(e, d, n) => n \in Entry(d)'
    BY <1>4, <2>1
  <2> HIDE DEF e
  <2> QED BY <1>0, <1>3, <1>4, <2>6, <2>7, Shows DEF e
<1>5. CASE e.type = "assistant-delta"
  BY <1>0, <1>2, <1>3, <1>5 DEF Apply, ApplyDelta
<1>6. CASE e.type = "message-created"
  <2>1. ApplyMessage(e)
    BY <1>0, <1>6 DEF Apply
  <2>2. e.conversation \in Conversations /\ {e.sequence} \in SUBSET (1 .. written[e.conversation])
    BY <1>1, <1>6 DEF IsTrue
  <2>3. \A d, n : Tells(e, d, n) => d = e.conversation /\ n \in {e.sequence}
    BY <1>6 DEF Tells
  <2> QED BY <1>4, <2>1, <2>2, <2>3 DEF ApplyMessage
<1>7. CASE e.type = "approval-required"
  BY <1>0, <1>2, <1>3, <1>7 DEF Apply, ApplyApproval
<1>8. CASE e.type = "run-status"
  BY <1>0, <1>2, <1>3, <1>8 DEF Apply, ApplyStatus
<1>9. CASE e.type = "snapshot"
  BY <1>0, <1>2, <1>3, <1>9 DEF Apply, TakeSnapshot
<1>10. CASE e.type = "started"
  BY <1>0, <1>2, <1>3, <1>10 DEF Apply, TakeRun
<1>11. CASE e.type = "refused"
  BY <1>0, <1>2, <1>3, <1>11 DEF Apply, TakeRefusal
<1>12. CASE e.type = "history"
  <2>1. TakeHistory(e)
    BY <1>0, <1>12 DEF Apply
  <2>2. e.what \in Conversations /\ e.value \in SUBSET (1 .. written[e.what])
    BY <1>1, <1>12 DEF IsTrue
  <2>3. \A d, n : Tells(e, d, n) => d = e.what /\ n \in e.value
    BY <1>12 DEF Tells
  <2> QED BY <1>4, <2>1, <2>2, <2>3 DEF TakeHistory
<1>13. CASE e.type = "done"
  <2>1. TakeDone(e)
    BY <1>0, <1>13 DEF Apply
  <2>2. UNCHANGED <<shown, asked>>
    BY <2>1 DEF TakeDone
  <2>3. CASE UNCHANGED toHost
    BY <1>2, <1>3, <1>13, <2>2, <2>3
  <2>4. CASE toHost' = Append(toHost, Ask("snapshot", "all"))
    <3>1. Ask("snapshot", "all") \in Requests
      BY DEF Ask, Requests
    <3>2. toHost' \in Seq(Requests)
      BY <2>4, <3>1
    <3>3. Range(toHost) \subseteq Range(toHost')
      BY <2>4 DEF Range
    <3> QED BY <1>2, <1>13, <2>2, <3>2, <3>3 DEF IsAsked
  <2> QED BY <2>1, <2>3, <2>4 DEF TakeDone
<1> QED BY <1>1, <1>5, <1>6, <1>7, <1>8, <1>9, <1>10, <1>11, <1>12, <1>13 DEF IsTrue, EventTypes

----------------------------------------------------------------------------
LEMMA HistoryInit == Init => HistoryInv
<1> SUFFICES ASSUME Init PROVE HistoryInv
  OBVIOUS
<1>1. toPage = <<>> /\ asked = {} /\ DOMAIN shown = {}
  BY DEF Init, Empty
<1>2. toHost \in Seq(Requests)
  BY DEF Init, Ask, Requests
<1>3. WireOK
  BY <1>1, <1>2 DEF Init, WireOK
<1> QED BY <1>1, <1>3, SoundNone DEF HistoryInv, EventsAreTrue, ShownIsWritten, HistoryIsTold

LEMMA HistoryStep == HistoryInv /\ [Next]_vars => HistoryInv'
<1> SUFFICES ASSUME HistoryInv, [Next]_vars PROVE HistoryInv'
  OBVIOUS
<1>1. ASSUME NEW c \in Conversations, LoadThread(c) PROVE HistoryInv'
  <2>1. Ask("history", c) \in Requests
    BY DEF Ask, Requests
  <2> QED BY <1>1, <2>1, Asks DEF LoadThread, Request, store, HistoryInv, WireOK
<1>2. ASSUME NEW c \in Conversations, OpenThread(c) PROVE HistoryInv'
  BY <1>2, Stays DEF OpenThread, store, page, wire
<1>3. CASE UNCHANGED vars
  BY <1>3, Stays DEF vars, store, page, wire
<1> QED BY <1>1, <1>2, <1>3, RunStep, HandleStep, DeliverStep, CrashStep DEF Next

\* What the page knows of messages is in the database, and what is in the
\* database is shown, or will be by what is on its way.
THEOREM HistoryInvariance == Spec => []HistoryInv
  BY HistoryInit, HistoryStep, PTL DEF Spec

\* HistoryIsWhole for every number of runs, threads and messages: at rest a
\* thread that was asked for shows every message of its conversation, whatever
\* was written while its history was on its way (useWorkspace.ts).
THEOREM HistoriesAreWhole == Spec => []HistoryIsWhole
<1>1. HistoryInv => HistoryIsWhole
  <2> SUFFICES ASSUME HistoryInv, Quiet, NEW c \in asked \cap DOMAIN shown
               PROVE shown[c] = 1 .. written[c]
    BY DEF HistoryIsWhole
  <2>1. Range(toHost) = {} /\ Range(toPage) = {} /\ host = "up"
    BY NoRange DEF Quiet
  <2>2. \A n \in 1 .. written[c] : n \in shown[c]
    BY <2>1 DEF HistoryInv, HistoryIsTold, IsAsked, IsTold, Entry
  <2> QED BY <2>2 DEF HistoryInv, ShownIsWritten
<1> QED BY <1>1, HistoryInvariance, PTL

----------------------------------------------------------------------------
\* What a sequence of events leads to.
LEMMA PairRange ==
  ASSUME NEW d, NEW e PROVE <<d, e>> \in Seq(Range(<<d, e>>)) /\ Range(<<d, e>>) = {d, e}
<1>1. <<d, e>> \in Seq({d, e}) /\ Range(<<d, e>>) = {d, e}
  BY DEF Range
<1> QED BY <1>1, OwnRange

LEMMA LeadsNone ==
  ASSUME NEW k, NEW was \in BOOLEAN PROVE Leads(<<>>, k, was) <=> was
  BY DEF Leads

LEMMA LeadsStay ==
  ASSUME NEW s, NEW k, NEW was \in BOOLEAN, was, \A e \in Range(s) : ~Against(e, k)
  PROVE  Leads(s, k, was)
  BY DEF Leads, Range

LEMMA LeadsOne ==
  ASSUME NEW e, NEW k, NEW was \in BOOLEAN, For(e, k) \/ (was /\ ~Against(e, k))
  PROVE  Leads(<<e>>, k, was)
  BY DEF Leads

LEMMA LeadsTwo ==
  ASSUME NEW d, NEW e, NEW k, NEW was \in BOOLEAN,
         For(e, k) \/ (~Against(e, k) /\ (For(d, k) \/ (was /\ ~Against(d, k))))
  PROVE  Leads(<<d, e>>, k, was)
<1>1. CASE For(e, k)
  BY <1>1 DEF Leads
<1>2. CASE ~Against(e, k) /\ For(d, k)
  BY <1>2 DEF Leads
<1>3. CASE ~Against(e, k) /\ was /\ ~Against(d, k)
  BY <1>3 DEF Leads
<1> QED BY <1>1, <1>2, <1>3

LEMMA LeadsJoin ==
  ASSUME NEW s, s \in Seq(Range(s)), NEW t, t \in Seq(Range(t)), NEW k,
         NEW was \in BOOLEAN, NEW mid \in BOOLEAN,
         Leads(t, k, mid), mid => Leads(s, k, was)
  PROVE  Leads(s \o t, k, was)
<1> DEFINE u == s \o t
<1>1. /\ DOMAIN u = 1 .. Len(s) + Len(t) /\ DOMAIN s = 1 .. Len(s) /\ DOMAIN t = 1 .. Len(t)
      /\ Len(s) \in Nat /\ Len(t) \in Nat
      /\ \A i \in DOMAIN s : u[i] = s[i]
      /\ \A i \in DOMAIN t : u[Len(s) + i] = t[i]
      /\ \A i \in DOMAIN u : i \in DOMAIN s \/ (i - Len(s) \in DOMAIN t /\ u[i] = t[i - Len(s)])
  OBVIOUS
<1> HIDE DEF u
<1>2. ASSUME NEW i \in DOMAIN t, For(t[i], k), \A j \in DOMAIN t : Against(t[j], k) => j <= i
      PROVE Leads(u, k, was)
  <2>1. Len(s) + i \in DOMAIN u /\ For(u[Len(s) + i], k)
    BY <1>1, <1>2
  <2>2. \A j \in DOMAIN u : Against(u[j], k) => j <= Len(s) + i
    BY <1>1, <1>2
  <2> QED BY <2>1, <2>2 DEF Leads
<1>3. ASSUME mid, \A j \in DOMAIN t : ~Against(t[j], k) PROVE Leads(u, k, was)
  <2>1. \A j \in DOMAIN u : Against(u[j], k) => j \in DOMAIN s
    BY <1>1, <1>3
  <2>2. CASE was /\ \A j \in DOMAIN s : ~Against(s[j], k)
    BY <1>1, <2>1, <2>2 DEF Leads
  <2>3. ASSUME NEW i \in DOMAIN s, For(s[i], k), \A j \in DOMAIN s : Against(s[j], k) => j <= i
        PROVE Leads(u, k, was)
    <3>1. i \in DOMAIN u /\ For(u[i], k)
      BY <1>1, <2>3
    <3>2. \A j \in DOMAIN u : Against(u[j], k) => j <= i
      BY <1>1, <2>1, <2>3
    <3> QED BY <3>1, <3>2 DEF Leads
  <2> QED BY <1>3, <2>2, <2>3 DEF Leads
<1> QED BY <1>2, <1>3 DEF Leads, u

LEMMA LeadsTail ==
  ASSUME NEW s, s \in Seq(Range(s)), s /= <<>>, NEW k,
         NEW was \in BOOLEAN, NEW now \in BOOLEAN, Leads(s, k, was),
         (/\ For(Head(s), k) \/ (was /\ ~Against(Head(s), k))
          /\ \A e \in Range(Tail(s)) : ~Against(e, k))
         => now \/ \E e \in Range(Tail(s)) : For(e, k)
  PROVE  Leads(Tail(s), k, now)
<1> DEFINE t == Tail(s)
<1>1. /\ DOMAIN s = 1 .. Len(s) /\ Len(s) \in Nat \ {0} /\ DOMAIN t = 1 .. Len(s) - 1
      /\ Head(s) = s[1] /\ \A i \in DOMAIN t : t[i] = s[i + 1] /\ i + 1 \in DOMAIN s
      /\ \A i \in DOMAIN s : i = 1 \/ (i - 1 \in DOMAIN t /\ t[i - 1] = s[i])
  OBVIOUS
<1>2. (/\ For(Head(s), k) \/ (was /\ ~Against(Head(s), k))
       /\ \A e \in Range(t) : ~Against(e, k))
      => now \/ \E e \in Range(t) : For(e, k)
  OBVIOUS
<1> HIDE DEF t
<1>3. ASSUME \A i \in DOMAIN t : ~Against(t[i], k) PROVE Leads(t, k, now)
  <2>1. \A e \in Range(t) : ~Against(e, k)
    BY <1>3 DEF Range
  <2>2. ASSUME NEW i \in DOMAIN t, For(t[i], k) PROVE Leads(t, k, now)
    <3>1. \A j \in DOMAIN t : Against(t[j], k) => j <= i
      BY <1>3
    <3> QED BY <2>2, <3>1 DEF Leads
  <2>3. CASE \A i \in DOMAIN t : ~For(t[i], k)
    <3>1. ~ \E e \in Range(t) : For(e, k)
      BY <2>3 DEF Range
    <3>2. \A i \in DOMAIN s : For(s[i], k) => i = 1
      BY <1>1, <2>3
    <3>3. \A i \in DOMAIN s : Against(s[i], k) => i = 1
      BY <1>1, <1>3
    <3>4. For(Head(s), k) \/ (was /\ ~Against(Head(s), k))
      <4>1. 1 \in DOMAIN s /\ Head(s) = s[1]
        BY <1>1
      <4>2. ASSUME NEW i \in DOMAIN s, For(s[i], k) PROVE For(Head(s), k)
        BY <4>1, <4>2, <3>2
      <4> QED BY <4>1, <4>2 DEF Leads
    <3>5. now
      <4> QED BY <1>2, <2>1, <3>1, <3>4, Zenon
    <3> QED BY <1>3, <3>5 DEF Leads
  <2> QED BY <2>2, <2>3
<1>4. ASSUME NEW j \in DOMAIN t, Against(t[j], k) PROVE Leads(t, k, now)
  <2>1. j + 1 \in DOMAIN s /\ Against(s[j + 1], k) /\ j \in Nat \ {0}
    BY <1>1, <1>4
  <2>2. PICK i \in DOMAIN s : For(s[i], k) /\ \A l \in DOMAIN s : Against(s[l], k) => l <= i
    BY <2>1 DEF Leads
  <2>3. j + 1 <= i
    BY <2>1, <2>2
  <2>4. i \in Nat /\ i /= 1
    BY <1>1, <2>1, <2>3
  <2>5. i - 1 \in DOMAIN t /\ For(t[i - 1], k)
    BY <1>1, <2>2, <2>4
  <2>6. ASSUME NEW l \in DOMAIN t, Against(t[l], k) PROVE l <= i - 1
    <3>1. l + 1 \in DOMAIN s /\ Against(s[l + 1], k) /\ l \in Nat
      BY <1>1, <2>6
    <3>2. l + 1 <= i
      BY <2>2, <3>1
    <3> QED BY <2>4, <3>1, <3>2
  <2> QED BY <2>5, <2>6 DEF Leads
<1> QED BY <1>3, <1>4 DEF t

LEMMA LeadsOn ==
  ASSUME NEW s, s \in Seq(Range(s)), NEW t, t \in Seq(Range(t)), NEW k,
         NEW was \in BOOLEAN, Leads(s, k, was), \A e \in Range(t) : ~Against(e, k)
  PROVE  Leads(s \o t, k, was)
<1>1. Leads(t, k, TRUE)
  BY LeadsStay
<1> QED BY <1>1, LeadsJoin

LEMMA LeadsFrom ==
  ASSUME NEW s, s \in Seq(Range(s)), NEW t, t \in Seq(Range(t)), NEW k,
         NEW was \in BOOLEAN, \A e \in Range(s) : ~Against(e, k), Leads(t, k, was)
  PROVE  Leads(s \o t, k, was)
<1>1. was => Leads(s, k, was)
  BY LeadsStay
<1> QED BY <1>1, LeadsJoin

LEMMA FourStay ==
  ASSUME NEW k, NEW d, NEW m, NEW e, NEW reply, NEW was \in BOOLEAN, was,
         NEW s, NEW t, s \in Seq(Range(s)), t \in Seq(Range(t)),
         \A f \in Range(s) : f = e, \A f \in Range(t) : f = reply,
         ~Against(d, k), ~Against(m, k), ~Against(e, k), ~Against(reply, k)
  PROVE  Leads(<<d, m>> \o s \o t, k, was)
<1>1. Leads(<<d, m>>, k, was)
  BY LeadsTwo
<1>2. <<d, m>> \in Seq(Range(<<d, m>>))
  BY PairRange
<1>3. Leads(<<d, m>> \o s, k, was)
  BY <1>1, <1>2, LeadsOn
<1>4. <<d, m>> \o s \in Seq(Range(<<d, m>> \o s))
  BY <1>2, JoinRange
<1> QED BY <1>3, <1>4, LeadsOn

----------------------------------------------------------------------------
\* What the claims say, and which events they are about.
RunClaims == {"shown", "hidden", "asked", "unasked"} \cup Waiting

LEMMA ClaimKinds ==
  ASSUME NEW k \in Claims
  PROVE  \/ k.about \in RunClaims /\ k.what \in Runs
         \/ k.about = "still" /\ k.what \in Conversations
  BY DEF Claims, RunClaims

LEMMA NowIsBoolean ==
  ASSUME NEW k \in Claims PROVE Now(k) \in BOOLEAN /\ Now(k)' \in BOOLEAN
<1>1. CASE k.about = "shown"
  BY <1>1 DEF Now
<1>2. CASE k.about = "hidden"
  BY <1>2 DEF Now
<1>3. CASE k.about = "asked"
  BY <1>3 DEF Now
<1>4. CASE k.about = "unasked"
  BY <1>4 DEF Now
<1>5. CASE k.about = "still"
  BY <1>5 DEF Now
<1>6. CASE k.about = "waiting-approval"
  BY <1>6 DEF Now
<1>7. CASE k.about = "waiting-input"
  BY <1>7 DEF Now
<1> QED BY <1>1, <1>2, <1>3, <1>4, <1>5, <1>6, <1>7, ClaimKinds DEF RunClaims, Waiting

LEMMA TruthIsBoolean ==
  ASSUME NEW k \in Claims
  PROVE  Truth(k) \in BOOLEAN /\ Now(k) \in BOOLEAN /\ Excused(k) \in BOOLEAN
<1>1. Truth(k) \in BOOLEAN
  <2>1. CASE k.about = "shown"
    BY <2>1 DEF Truth
  <2>2. CASE k.about = "hidden"
    BY <2>2 DEF Truth
  <2>3. CASE k.about = "asked"
    BY <2>3 DEF Truth
  <2>4. CASE k.about = "unasked"
    BY <2>4 DEF Truth
  <2>5. CASE k.about = "still"
    BY <2>5 DEF Truth
  <2>6. CASE k.about = "waiting-approval"
    BY <2>6 DEF Truth
  <2>7. CASE k.about = "waiting-input"
    BY <2>7 DEF Truth
  <2> QED BY <2>1, <2>2, <2>3, <2>4, <2>5, <2>6, <2>7, ClaimKinds DEF RunClaims, Waiting
<1> QED BY <1>1, NowIsBoolean DEF Excused

\* Messages and most replies are about no claim.
LEMMA Neutral ==
  ASSUME NEW k \in Claims, NEW e, e.type \in {"message-created", "refused", "history", "done"}
  PROVE  ~Against(e, k)
  BY ClaimKinds DEF RunClaims, Waiting, Against, Hides, Brought, Ends, Settles, AsksFor, Takes

\* The status of a run is told by one event.
LEMMA StatusAgainst ==
  ASSUME NEW k \in Claims, NEW r \in Runs, NEW s, Against(Status(r, s), k)
  PROVE  /\ k.what = r
         /\ \/ k.about \in {"shown", "asked"} /\ s = "ended"
            \/ k.about \in Waiting /\ s /= k.about
  BY ClaimKinds DEF RunClaims, Waiting, Against, Hides, Brought, Ends, Settles, AsksFor, Takes, Status

LEMMA StatusFor ==
  ASSUME NEW k \in Claims, NEW r \in Runs, NEW s,
         \/ k.what = r /\ k.about \in {"hidden", "unasked"} /\ s = "ended"
         \/ k.what = r /\ k.about \in Waiting /\ k.about = s
         \/ k.what = ConversationOf[r] /\ k.about = "still" /\ s = "ended"
  PROVE  For(Status(r, s), k)
<1>1. CASE k.what = r /\ k.about \in {"hidden", "unasked"} /\ s = "ended"
  BY <1>1 DEF For, Hides, Ends, Settles, Status
<1>2. CASE k.what = r /\ k.about \in Waiting /\ k.about = s
  BY <1>2 DEF For, Gives, Status, Waiting
<1>3. CASE k.what = ConversationOf[r] /\ k.about = "still" /\ s = "ended"
  <2>1. Ends(Status(r, s), r)
    BY <1>3 DEF Ends, Status
  <2> QED BY <1>3, <2>1 DEF For
<1> QED BY <1>1, <1>2, <1>3

Statuses == {"none", "queued", "running", "cancelling", "ended"} \cup Waiting

LEMMA StatusTells ==
  ASSUME NEW k \in Claims, NEW r \in OpenRuns, NEW s \in Statuses \ {"none"},
         status \in [Runs -> Statuses], status' = [status EXCEPT ![r] = s],
         k.about \in {"asked", "unasked"} =>
            pending' = (IF s = "ended" THEN pending \ {r} ELSE pending),
         Truth(k)'
  PROVE  For(Status(r, s), k) \/ (Truth(k) /\ ~Against(Status(r, s), k))
<1>0. r \in Runs /\ OpenRuns' = IF s = "ended" THEN OpenRuns \ {r} ELSE OpenRuns
  BY DEF OpenRuns, Statuses, Waiting
<1>1. CASE k.about = "shown"
  BY <1>0, <1>1, StatusAgainst DEF Truth, Waiting
<1>2. CASE k.about = "hidden"
  BY <1>0, <1>2, StatusAgainst, StatusFor DEF Truth, Waiting
<1>3. CASE k.about = "asked"
  BY <1>0, <1>3, StatusAgainst DEF Truth, Waiting
<1>4. CASE k.about = "unasked"
  BY <1>0, <1>4, StatusAgainst, StatusFor DEF Truth, Waiting
<1>5. CASE k.about = "still"
  <2>1. OpenRunOf(k.what)' = {}
    BY <1>5 DEF Truth
  <2>2. CASE k.what = ConversationOf[r]
    <3>1. s = "ended"
      BY <1>0, <2>1, <2>2 DEF OpenRunOf
    <3> QED BY <1>0, <1>5, <2>2, <3>1, StatusFor
  <2>3. CASE k.what # ConversationOf[r]
    <3>1. OpenRunOf(k.what) = {}
      BY <1>0, <2>1, <2>3 DEF OpenRunOf
    <3> QED BY <1>0, <1>5, <3>1, StatusAgainst DEF Truth, Waiting
  <2> QED BY <2>2, <2>3
<1>6. CASE k.about \in Waiting
  <2>1. status'[k.what] = k.about /\ k.what \in Runs
    BY <1>6, ClaimKinds DEF Truth, Waiting
  <2>2. CASE k.what = r
    BY <1>0, <1>6, <2>1, <2>2, StatusFor
  <2>3. CASE k.what # r
    <3>1. status[k.what] = k.about
      BY <2>1, <2>3
    <3> QED BY <1>0, <1>6, <2>3, <3>1, StatusAgainst DEF Truth, Waiting
  <2> QED BY <2>2, <2>3
<1> QED BY <1>1, <1>2, <1>3, <1>4, <1>5, <1>6, ClaimKinds DEF RunClaims

LEMMA SameTruth ==
  ASSUME NEW k, UNCHANGED <<status, pending>> PROVE Truth(k)' <=> Truth(k)
  BY DEF Truth, OpenRunOf, OpenRuns

\* Who is not informed, or waits for a refresh, stays so while nothing answers that.
LEMMA StaysExcused ==
  ASSUME NEW k, NEW events, toPage \in Seq(Range(toPage)), events \in Seq(Range(events)),
         toPage' = toPage \o events, UNCHANGED loaded,
         \A e \in Range(events) : e.type /= "snapshot",
         toHost \in Seq(Requests),
         \/ UNCHANGED toHost
         \/ /\ toHost /= <<>> /\ toHost' = Tail(toHost)
            /\ ~(Head(toHost).mine /\ Head(toHost).kind = "snapshot"),
         Excused(k)
  PROVE  Excused(k)'
<1>1. Range(toPage') = Range(toPage) \cup Range(events)
  BY JoinRange
<1>2. Informed' => Informed
  BY <1>1 DEF Informed
<1>3. Refreshes => Refreshes'
  <2>1. CASE UNCHANGED toHost
    BY <1>1, <2>1 DEF Refreshes
  <2>2. CASE /\ toHost /= <<>> /\ toHost' = Tail(toHost)
             /\ ~(Head(toHost).mine /\ Head(toHost).kind = "snapshot")
    <3>1. toHost \in Seq(Range(toHost))
      BY OwnRange
    <3>2. Range(toHost) = {Head(toHost)} \cup Range(toHost')
      BY <2>2, <3>1, TakeRange
    <3> QED BY <1>1, <2>2, <3>2 DEF Refreshes
  <2> QED BY <2>1, <2>2
<1> QED BY <1>2, <1>3 DEF Excused

----------------------------------------------------------------------------
\* The host publishes and the page is the same: the events must lead from what
\* was so to what is so, and change only runs that the page has met.
LEMMA SameSequence ==
  ASSUME NEW S, NEW a \in Seq(S), NEW b \in Seq(S), Len(a) = Len(b),
         \A i \in 1 .. Len(a) : a[i] = b[i]
  PROVE  a = b
  OBVIOUS

LEMMA JoinType ==
  ASSUME NEW S, NEW a \in Seq(S), NEW b \in Seq(S)
  PROVE  a \o b \in Seq(S) /\ Len(a \o b) = Len(a) + Len(b)
  OBVIOUS

LEMMA JoinIndex ==
  ASSUME NEW s, s \in Seq(Range(s)), NEW t, t \in Seq(Range(t))
  PROVE  /\ Len(s \o t) = Len(s) + Len(t) /\ DOMAIN (s \o t) = 1 .. Len(s) + Len(t)
         /\ \A j \in DOMAIN s : (s \o t)[j] = s[j]
         /\ \A j \in DOMAIN t : (s \o t)[Len(s) + j] = t[j]
         /\ DOMAIN s = 1 .. Len(s) /\ DOMAIN t = 1 .. Len(t) /\ Len(s) \in Nat /\ Len(t) \in Nat
  OBVIOUS

LEMMA JoinPrefix ==
  ASSUME NEW s, s \in Seq(Range(s)), NEW t, t \in Seq(Range(t)), NEW i \in DOMAIN s
  PROVE  /\ i \in DOMAIN (s \o t) /\ (s \o t)[i] = s[i]
         /\ SubSeq(s \o t, 1, i - 1) = SubSeq(s, 1, i - 1)
<1> DEFINE u == s \o t
           S == Range(s) \cup Range(t)
<1>1. s \in Seq(S) /\ t \in Seq(S)
  OBVIOUS
<1> HIDE DEF S
<1>2. /\ u \in Seq(S) /\ Len(u) = Len(s) + Len(t) /\ DOMAIN u = 1 .. Len(u)
      /\ \A j \in DOMAIN s : u[j] = s[j]
      /\ \A j \in DOMAIN t : u[Len(s) + j] = t[j]
      /\ DOMAIN s = 1 .. Len(s) /\ DOMAIN t = 1 .. Len(t) /\ Len(s) \in Nat /\ Len(t) \in Nat
  BY <1>1
<1>3. SubSeq(u, 1, i - 1) = SubSeq(s, 1, i - 1)
  <2> HIDE DEF u
  <2> QED BY <1>1, <1>2
<1> QED BY <1>2, <1>3

LEMMA JoinRest ==
  ASSUME NEW s, s \in Seq(Range(s)), NEW t, t \in Seq(Range(t)), NEW i \in DOMAIN (s \o t),
         i \notin DOMAIN s
  PROVE  /\ i - Len(s) \in DOMAIN t
         /\ (s \o t)[i] = t[i - Len(s)]
         /\ i - Len(s) - 1 \in 0 .. Len(t)
         /\ SubSeq(s \o t, 1, i - 1) = s \o SubSeq(t, 1, i - Len(s) - 1)
<1> DEFINE u == s \o t
           S == Range(s) \cup Range(t)
<1>1. s \in Seq(S) /\ t \in Seq(S)
  OBVIOUS
<1> HIDE DEF S
<1>2. /\ u \in Seq(S) /\ Len(u) = Len(s) + Len(t) /\ DOMAIN u = 1 .. Len(u)
      /\ \A j \in DOMAIN s : u[j] = s[j]
      /\ \A j \in DOMAIN t : u[Len(s) + j] = t[j]
      /\ DOMAIN s = 1 .. Len(s) /\ DOMAIN t = 1 .. Len(t) /\ Len(s) \in Nat /\ Len(t) \in Nat
  BY <1>1
<1>4. /\ i - Len(s) \in DOMAIN t /\ u[i] = t[i - Len(s)]
      /\ i - Len(s) - 1 \in 0 .. Len(t)
      /\ SubSeq(u, 1, i - 1) = s \o SubSeq(t, 1, i - Len(s) - 1)
  <2> DEFINE m == i - Len(s)
             a == SubSeq(u, 1, i - 1)
             b == SubSeq(t, 1, m - 1)
  <2>1. m \in DOMAIN t /\ m \in Nat /\ m - 1 \in 0 .. Len(t) /\ i = Len(s) + m /\ i \in Nat
    BY <1>2
  <2>2. u[i] = t[m]
    BY <1>2, <2>1
  <2>3. a \in Seq(S) /\ Len(a) = i - 1 /\ \A j \in 1 .. i - 1 : a[j] = u[j]
    <3> HIDE DEF u
    <3> QED BY <1>2, <2>1
  <2>4. b \in Seq(S) /\ Len(b) = m - 1 /\ \A j \in 1 .. m - 1 : b[j] = t[j]
    <3> HIDE DEF m
    <3> QED BY <1>1, <1>2, <2>1
  <2>5. s \o b \in Seq(S) /\ Len(s \o b) = i - 1
    <3> HIDE DEF b
    <3>1. s \o b \in Seq(S) /\ Len(s \o b) = Len(s) + Len(b)
      BY <1>1, <2>4, JoinType
    <3> QED BY <1>2, <2>1, <2>4, <3>1
  <2>6. ASSUME NEW j \in 1 .. i - 1 PROVE a[j] = (s \o b)[j]
    <3>1. CASE j \in DOMAIN s
      <4> HIDE DEF b, m, a, u
      <4> QED BY <1>1, <1>2, <2>3, <2>4, <3>1
    <3>2. CASE j \notin DOMAIN s
      <4>1. j - Len(s) \in 1 .. m - 1 /\ j = Len(s) + (j - Len(s)) /\ j - Len(s) \in DOMAIN t
        BY <1>2, <2>1, <2>6, <3>2
      <4>2. a[j] = t[j - Len(s)]
        BY <1>2, <2>3, <2>6, <4>1
      <4> HIDE DEF b, m, a, u
      <4>3. (s \o b)[j] = b[j - Len(s)]
        BY <1>1, <1>2, <2>1, <2>4, <2>5, <2>6, <3>2, <4>1
      <4> QED BY <2>4, <4>1, <4>2, <4>3
    <3> QED BY <3>1, <3>2
  <2>7. a = s \o b
    <3> DEFINE c == s \o b
    <3> HIDE DEF a, b, c, m
    <3> SUFFICES a = c
      BY DEF c
    <3>1. c \in Seq(S) /\ Len(c) = i - 1 /\ \A j \in 1 .. i - 1 : a[j] = c[j]
      BY <2>5, <2>6 DEF c
    <3> QED BY <2>3, <3>1, SameSequence
  <2> QED BY <2>1, <2>2, <2>7
<1> QED BY <1>4

LEMMA MeetsLater ==
  ASSUME ViewInv, HistoryInv, NEW events, events \in Seq(Range(events)),
         toPage' = toPage \o events, UNCHANGED <<loaded, active>>, host' = "up", host = "up",
         NEW i \in DOMAIN toPage', Concerns(toPage'[i]), NEW r, r = toPage'[i].run,
         \A e \in Range(events) : Concerns(e) /\ e.run = r =>
            r \in OpenRuns /\ \A d \in Range(events) : ~Hides(d, r) /\ d.type /= "snapshot"
  PROVE  Meets(SubSeq(toPage, 1, i - 1), r)'
<1> DEFINE k == [about |-> "shown", what |-> r]
<1>0. toPage \in Seq(Range(toPage)) /\ k.about = "shown" /\ k.what = r
  BY DEF HistoryInv, EventsAreTrue, Sound
<1>1. CASE i \in DOMAIN toPage
  <2>1. toPage'[i] = toPage[i] /\ SubSeq(toPage', 1, i - 1) = SubSeq(toPage, 1, i - 1)
    BY <1>0, <1>1, JoinPrefix
  <2>2. Meets(SubSeq(toPage, 1, i - 1), r)
    BY <1>1, <2>1 DEF ViewInv, EventsMeetTheirRun
  <2> QED BY <2>1, <2>2 DEF Meets
<1>2. CASE i \notin DOMAIN toPage
  <2> DEFINE n == Len(toPage)
             some == SubSeq(events, 1, i - n - 1)
  <2>1. /\ i - n \in DOMAIN events /\ toPage'[i] = events[i - n]
        /\ i - n - 1 \in 0 .. Len(events)
        /\ SubSeq(toPage', 1, i - 1) = toPage \o some
    <3>1. /\ i - Len(toPage) \in DOMAIN events
          /\ (toPage \o events)[i] = events[i - Len(toPage)]
          /\ i - Len(toPage) - 1 \in 0 .. Len(events)
          /\ SubSeq(toPage \o events, 1, i - 1)
                = toPage \o SubSeq(events, 1, i - Len(toPage) - 1)
      BY <1>0, <1>2, JoinRest
    <3> QED BY <3>1
  <2>2. some \in Seq(Range(some)) /\ Range(some) \subseteq Range(events)
    BY <2>1, PrefixRange
  <2>3. r \in OpenRuns /\ \A d \in Range(some) : ~Hides(d, r) /\ d.type /= "snapshot"
    BY <2>1, <2>2 DEF Range
  <2>4. CASE ~Informed
    <3>1. Range(toPage \o some) = Range(toPage) \cup Range(some)
      BY <1>0, <2>2, JoinRange
    <3>2. ~loaded' /\ \A e \in Range(SubSeq(toPage', 1, i - 1)) : e.type /= "snapshot"
      BY <2>1, <2>3, <2>4, <3>1 DEF Informed
    <3> QED BY <3>2 DEF Meets
  <2>5. CASE Informed
    <3>0. k \in Claims
      BY <2>3 DEF Claims, OpenRuns
    <3>1. Leads(toPage, k, Now(k))
      BY <1>0, <2>3, <2>5, <3>0 DEF ViewInv, ViewIsTold, Excused, Truth
    <3>2. \A d \in Range(some) : ~Against(d, k)
      BY <1>0, <2>3 DEF Against
    <3>3. Leads(toPage \o some, k, Now(k))
      BY <1>0, <2>2, <3>0, <3>1, <3>2, LeadsOn, TruthIsBoolean
    <3>4. Now(k) = (r \in DOMAIN active)
      BY DEF Now
    <3>5. Leads(SubSeq(toPage', 1, i - 1), k, r \in DOMAIN active')
      BY <2>1, <3>3, <3>4
    <3> QED BY <3>5 DEF Meets
  <2> QED BY <2>4, <2>5
<1> QED BY <1>1, <1>2

LEMMA Publishes ==
  ASSUME ViewInv, HistoryInv, NEW events, events \in Seq(Range(events)),
         toPage' = toPage \o events, UNCHANGED page, host' = "up" => host = "up",
         \/ UNCHANGED toHost
         \/ toHost /= <<>> /\ toHost' = Tail(toHost),
         status' \in [Runs -> Statuses], \A r \in Runs : status[r] /= "none" => status'[r] /= "none",
         pending' \subseteq OpenRuns',
         \A e \in Range(events) : e.type = "started" => loaded,
         \A e \in Range(events) : Brought(e) \subseteq Created',
         \A e \in Range(events) : e.type = "snapshot" =>
            /\ e.value.approvals \subseteq DOMAIN e.value.active
            /\ \A q \in Range(toHost') : q.mine,
         \A e \in Range(events) : Concerns(e) =>
            e.run \in OpenRuns /\ \A d \in Range(events) : ~Hides(d, e.run) /\ d.type /= "snapshot",
         host' = "up" => \A k \in Claims : Excused(k)' \/
            (Truth(k)' => Leads(events, k, Truth(k) /\ ~Excused(k)))
  PROVE  ViewInv'
<1>0. /\ toPage \in Seq(Range(toPage)) /\ toHost \in Seq(Requests) /\ toHost \in Seq(Range(toHost))
      /\ Range(toPage') = Range(toPage) \cup Range(events)
  BY OwnRange, JoinRange DEF HistoryInv, WireOK, EventsAreTrue, Sound
<1>1. Range(toHost') \subseteq Range(toHost)
  BY <1>0, TakeRange
<1>2. RunsAreCreated'
  <2>1. Created \subseteq Created'
    BY DEF Created
  <2> QED BY <1>0, <1>1, <2>1 DEF ViewInv, RunsAreCreated, Statuses, page
<1>3. OldRequestsFirst'
  <2>1. \A i, j \in DOMAIN toHost' : i < j /\ toHost'[i].mine => toHost'[j].mine
    <3>1. CASE UNCHANGED toHost
      BY <3>1 DEF ViewInv, OldRequestsFirst
    <3>2. CASE toHost /= <<>> /\ toHost' = Tail(toHost)
      <4> SUFFICES ASSUME NEW i \in DOMAIN toHost', NEW j \in DOMAIN toHost', i < j, toHost'[i].mine
                   PROVE toHost'[j].mine
        OBVIOUS
      <4>1. /\ i + 1 \in DOMAIN toHost /\ j + 1 \in DOMAIN toHost /\ i + 1 < j + 1
            /\ toHost[i + 1] = toHost'[i] /\ toHost[j + 1] = toHost'[j]
        BY <1>0, <3>2
      <4> QED BY <4>1 DEF ViewInv, OldRequestsFirst
    <3> QED BY <3>1, <3>2
  <2>2. Informed' => \A q \in Range(toHost') : q.mine
    BY <1>0, <1>1 DEF ViewInv, OldRequestsFirst, Informed, page
  <2> QED BY <2>1, <2>2 DEF OldRequestsFirst
<1>4. PageIsBlank'
  BY <1>0, <1>1 DEF ViewInv, PageIsBlank, page
<1>5. ApprovalsAreOfRuns'
  BY <1>0 DEF ViewInv, ApprovalsAreOfRuns, page
<1>6. EventsMeetTheirRun'
  <2> SUFFICES ASSUME host' = "up", NEW i \in DOMAIN toPage', Concerns(toPage'[i]),
                      NEW r, r = toPage'[i].run
               PROVE Meets(SubSeq(toPage, 1, i - 1), r)'
    BY DEF EventsMeetTheirRun, Concerns
  <2> QED BY MeetsLater DEF page
<1>7. ViewIsTold'
  <2> SUFFICES ASSUME host' = "up", NEW k \in Claims, ~Excused(k)', Truth(k)'
               PROVE Leads(toPage', k, Now(k)')
    BY DEF ViewIsTold
  <2>1. Leads(events, k, Truth(k) /\ ~Excused(k))
    OBVIOUS
  <2>2. Truth(k) /\ ~Excused(k) => Leads(toPage, k, Now(k))
    BY DEF ViewInv, ViewIsTold
  <2>3. Leads(toPage \o events, k, Now(k))
    <3>1. Now(k) \in BOOLEAN /\ (Truth(k) /\ ~Excused(k)) \in BOOLEAN
      BY TruthIsBoolean
    <3> HIDE DEF Leads
    <3> QED BY <1>0, <2>1, <2>2, <3>1, LeadsJoin
  <2>4. Now(k)' = Now(k)
    BY DEF Now, page
  <2> QED BY <2>3, <2>4
<1> QED BY <1>2, <1>3, <1>4, <1>5, <1>6, <1>7 DEF ViewInv
\* The page asks for one more thing.
LEMMA ViewAsks ==
  ASSUME ViewInv, HistoryInv, NEW q \in Requests, q.mine, toHost' = Append(toHost, q),
         UNCHANGED <<status, pending, host, toPage, loaded, active, approvals, streaming>>,
         q.kind = "start" => loaded,
         q.kind \in {"cancel", "approve"} => q.what \in Created
  PROVE  ViewInv'
<1>0. toHost \in Seq(Requests) /\ Range(toHost') = Range(toHost) \cup {q}
  <2>1. toHost \in Seq(Requests) /\ toHost \in Seq(Range(toHost)) /\ toHost' = toHost \o <<q>>
    BY OwnRange DEF HistoryInv, WireOK
  <2>2. Range(toHost') = Range(toHost) \cup Range(<<q>>)
    BY <2>1, OneRange, JoinRange
  <2>3. Range(<<q>>) = {q}
    BY OneRange
  <2> QED BY <2>1, <2>2, <2>3
<1>1. RunsAreCreated'
  BY <1>0 DEF ViewInv, RunsAreCreated, Created
<1>2. OldRequestsFirst'
  <2>1. \A i, j \in DOMAIN toHost' : i < j /\ toHost'[i].mine => toHost'[j].mine
    <3> SUFFICES ASSUME NEW i \in DOMAIN toHost', NEW j \in DOMAIN toHost', i < j, toHost'[i].mine
                 PROVE toHost'[j].mine
      OBVIOUS
    <3>1. \/ j = Len(toHost) + 1 /\ toHost'[j] = q
          \/ /\ i \in DOMAIN toHost /\ j \in DOMAIN toHost
             /\ toHost'[i] = toHost[i] /\ toHost'[j] = toHost[j]
      BY <1>0
    <3> QED BY <3>1 DEF ViewInv, OldRequestsFirst
  <2> QED BY <1>0, <2>1 DEF ViewInv, OldRequestsFirst, Informed
<1>3. PageIsBlank'
  BY <1>0 DEF ViewInv, PageIsBlank
<1>4. ApprovalsAreOfRuns'
  BY DEF ViewInv, ApprovalsAreOfRuns, OpenRuns
<1>5. EventsMeetTheirRun'
  BY DEF ViewInv, EventsMeetTheirRun, Meets, Concerns
<1>6. ViewIsTold'
  <2> SUFFICES ASSUME host = "up", NEW k \in Claims, ~Excused(k)', Truth(k)'
               PROVE Leads(toPage, k, Now(k)')
    BY DEF ViewIsTold
  <2>1. Excused(k) => Excused(k)'
    BY <1>0 DEF Excused, Informed, Refreshes
  <2>2. Now(k)' = Now(k)
    BY DEF Now
  <2> QED BY <2>1, <2>2, SameTruth DEF ViewInv, ViewIsTold
<1> QED BY <1>1, <1>2, <1>3, <1>4, <1>5, <1>6 DEF ViewInv

\* A run goes on or ends by itself.
LEMMA RunTells ==
  ASSUME ViewInv, HistoryInv, NEW r \in OpenRuns, NEW s \in Statuses \ {"none"},
         NEW events, events \in Seq(Range(events)), toPage' = toPage \o events,
         UNCHANGED <<page, host, toHost>>, status' = [status EXCEPT ![r] = s],
         pending' \subseteq OpenRuns',
         \A e \in Range(events) : e.type \notin {"started", "snapshot"},
         \A e \in Range(events) : Concerns(e) =>
            e.run = r /\ \A d \in Range(events) : ~Hides(d, r),
         \A k \in Claims : Truth(k)' => Leads(events, k, Truth(k))
  PROVE  ViewInv'
<1>1. /\ status \in [Runs -> Statuses] /\ status' \in [Runs -> Statuses]
      /\ \A q \in Runs : status[q] /= "none" => status'[q] /= "none"
      /\ r \in Runs
  BY DEF ViewInv, RunsAreCreated, Statuses, OpenRuns
<1>2. ASSUME NEW k \in Claims, ~Excused(k)', Truth(k)'
      PROVE Leads(events, k, Truth(k) /\ ~Excused(k))
  <2>1. ~Excused(k)
    BY <1>2, StaysExcused DEF HistoryInv, WireOK, EventsAreTrue, Sound, page
  <2>2. (Truth(k) /\ ~Excused(k)) = Truth(k)
    BY <2>1, TruthIsBoolean
  <2> QED BY <1>2, <2>2
<1>3. \A e \in Range(events) : Brought(e) = {}
  BY DEF Brought
<1>4. \A k \in Claims : Excused(k)' \/ (Truth(k)' => Leads(events, k, Truth(k) /\ ~Excused(k)))
  BY <1>2
<1>5. \A e \in Range(events) : Concerns(e) =>
         e.run \in OpenRuns /\ \A d \in Range(events) : ~Hides(d, e.run) /\ d.type /= "snapshot"
  OBVIOUS
<1>6. \A e \in Range(events) : e.type /= "started" /\ e.type /= "snapshot"
  OBVIOUS
<1> HIDE DEF Leads
<1> QED BY <1>1, <1>3, <1>4, <1>5, <1>6, Publishes

----------------------------------------------------------------------------
\* What a run does, for the view.
LEMMA OneEvent ==
  ASSUME ViewInv, HistoryInv, NEW r \in OpenRuns, NEW s \in Statuses \ {"none", "ended"},
         toPage' = toPage \o <<Status(r, s)>>, UNCHANGED <<page, host, toHost, pending>>,
         status' = [status EXCEPT ![r] = s]
  PROVE  ViewInv'
<1> DEFINE e == Status(r, s)
<1>1. OpenRuns' = OpenRuns /\ r \in Runs /\ status \in [Runs -> Statuses]
  BY DEF OpenRuns, Statuses, Waiting, ViewInv, RunsAreCreated
<1>2. pending' \subseteq OpenRuns'
  BY <1>1 DEF ViewInv, ApprovalsAreOfRuns
<1>3. <<e>> \in Seq(Range(<<e>>)) /\ Range(<<e>>) = {e}
  BY OneRange
<1>4. Concerns(e) => e.run = r /\ ~Hides(e, r)
  BY DEF Concerns, Hides, Ends, Status, Waiting
<1>5. e.type \notin {"started", "snapshot"}
  BY DEF Status
<1>6. ASSUME NEW k \in Claims, Truth(k)' PROVE Leads(<<e>>, k, Truth(k))
  <2>1. For(e, k) \/ (Truth(k) /\ ~Against(e, k))
    BY <1>1, <1>6, StatusTells
  <2> QED BY <2>1, LeadsOne, TruthIsBoolean
<1> HIDE DEF e
<1> QED BY <1>2, <1>3, <1>4, <1>5, <1>6, RunTells DEF e

LEMMA ViewRunStep ==
  ASSUME ViewInv, HistoryInv, NEW r \in Runs,
         \/ Begin(r) \/ Delta(r) \/ AskApproval(r) \/ AskInput(r)
         \/ \E role \in {"assistant", "tool"} : Say(r, role)
         \/ Send(r) \/ Cancel(r) \/ Decide(r)
  PROVE  ViewInv'
<1> DEFINE c == ConversationOf[r]
<1>0. c \in Conversations /\ status \in [Runs -> Statuses] /\ pending \subseteq OpenRuns
  BY RendererAssumption DEF ViewInv, RunsAreCreated, Statuses, ApprovalsAreOfRuns
<1>1. CASE Begin(r)
  BY <1>1, OneEvent DEF Begin, MoveRun, Publish, OpenRuns, Statuses, store, page
<1>2. CASE Delta(r)
  <2> DEFINE e == [type |-> "assistant-delta", conversation |-> c]
  <2>1. /\ toPage' = toPage \o <<e>> /\ r \in OpenRuns /\ "running" \in Statuses \ {"none"}
        /\ UNCHANGED <<page, host, toHost, status, pending>>
    BY <1>2 DEF Delta, Publish, store, OpenRuns, Statuses
  <2>2. <<e>> \in Seq(Range(<<e>>)) /\ Range(<<e>>) = {e}
    BY OneRange
  <2>3. status' = [status EXCEPT ![r] = "running"]
    BY <1>0, <1>2, <2>1 DEF Delta
  <2>4. pending' \subseteq OpenRuns'
    BY <1>0, <2>1 DEF OpenRuns
  <2>5. ASSUME NEW k \in Claims, Truth(k)' PROVE Leads(<<e>>, k, Truth(k))
    <3>1. Truth(k)
      BY <2>1, <2>5, SameTruth
    <3>2. ~Against(e, k)
      <4>1. CASE k.about = "still"
        <5>1. k.what # c
          BY <2>1, <3>1, <4>1 DEF Truth, OpenRunOf, OpenRuns
        <5> QED BY <4>1, <5>1 DEF Against
      <4>2. CASE k.about \in RunClaims
        BY <4>2 DEF RunClaims, Waiting, Against, Hides, Brought, Ends, Settles, AsksFor, Takes
      <4> QED BY <4>1, <4>2, ClaimKinds
    <3> QED BY <3>1, <3>2, LeadsOne, TruthIsBoolean
  <2>6. e.type \notin {"started", "snapshot"} /\ ~Concerns(e)
    BY DEF Concerns
  <2> HIDE DEF e
  <2> QED BY <2>1, <2>2, <2>3, <2>4, <2>5, <2>6, RunTells
<1>3. CASE AskApproval(r)
  <2> DEFINE d == Status(r, "waiting-approval")
             e == [type |-> "approval-required", run |-> r]
  <2>1. /\ toPage' = toPage \o <<d, e>> /\ r \in OpenRuns
        /\ "waiting-approval" \in Statuses \ {"none"}
        /\ UNCHANGED <<page, host, toHost>> /\ pending' = pending \cup {r}
        /\ status' = [status EXCEPT ![r] = "waiting-approval"]
    BY <1>3 DEF AskApproval, MoveRun, Publish, OpenRuns, Statuses, Waiting
  <2>2. <<d, e>> \in Seq(Range(<<d, e>>)) /\ Range(<<d, e>>) = {d, e}
    <3>1. <<d, e>> \in Seq({d, e}) /\ Range(<<d, e>>) = {d, e}
      BY DEF Range
    <3> QED BY <3>1, OwnRange
  <2>3. pending' \subseteq OpenRuns'
    BY <1>0, <2>1 DEF OpenRuns
  <2>4. /\ d.run = r /\ e.run = r /\ ~Hides(d, r) /\ ~Hides(e, r)
        /\ d.type \notin {"started", "snapshot"} /\ e.type \notin {"started", "snapshot"}
    BY DEF Concerns, Hides, Ends, Status, Waiting
  <2>5. ASSUME NEW k \in Claims, Truth(k)' PROVE Leads(<<d, e>>, k, Truth(k))
    <3>1. CASE k.about = "asked"
      <4>1. k.what = r \/ Truth(k)
        BY <2>1, <2>5, <3>1 DEF Truth
      <4>2. CASE k.what = r
        <5>1. For(e, k)
          BY <3>1, <4>2 DEF For, AsksFor
        <5> QED BY <5>1, LeadsTwo, TruthIsBoolean
      <4>3. CASE Truth(k)
        <5>1. ~Against(d, k) /\ ~Against(e, k)
          BY <3>1 DEF Against, Settles, Ends, Status
        <5> QED BY <4>3, <5>1, LeadsTwo, TruthIsBoolean
      <4> QED BY <4>1, <4>2, <4>3
    <3>2. CASE k.about = "unasked"
      <4>1. k.what # r /\ Truth(k)
        BY <2>1, <2>5, <3>2 DEF Truth
      <4>2. ~Against(d, k) /\ ~Against(e, k)
        BY <3>2, <4>1 DEF Against, AsksFor, Status
      <4> QED BY <4>1, <4>2, LeadsTwo, TruthIsBoolean
    <3>3. CASE k.about \notin {"asked", "unasked"}
      <4>1. For(d, k) \/ (Truth(k) /\ ~Against(d, k))
        BY <1>0, <2>1, <2>5, <3>3, StatusTells
      <4>2. ~Against(e, k)
        BY <3>3, ClaimKinds DEF RunClaims, Waiting, Against, Hides, Brought, Ends, Takes
      <4> QED BY <4>1, <4>2, LeadsTwo, TruthIsBoolean
    <3> QED BY <3>1, <3>2, <3>3
  <2> HIDE DEF d, e
  <2> QED BY <2>1, <2>2, <2>3, <2>4, <2>5, RunTells
<1>4. CASE AskInput(r)
  BY <1>4, OneEvent DEF AskInput, MoveRun, Publish, OpenRuns, Statuses, Waiting, store, page
<1>5. ASSUME NEW role \in {"assistant", "tool"}, Say(r, role) PROVE ViewInv'
  <2> DEFINE e == Message(c, written[c] + 1, role)
  <2>1. /\ toPage' = toPage \o <<e>> /\ r \in OpenRuns /\ "running" \in Statuses \ {"none"}
        /\ UNCHANGED <<page, host, toHost, pending>> /\ status[r] = "running"
        /\ status' = [status EXCEPT ![r] = "running"]
    BY <1>5 DEF Say, MoveRun, Publish, OpenRuns, Statuses
  <2>2. UNCHANGED status
    BY <1>0, <2>1
  <2>3. <<e>> \in Seq(Range(<<e>>)) /\ Range(<<e>>) = {e}
    BY OneRange
  <2>4. e.type = "message-created" /\ ~Concerns(e)
    BY DEF Message, Concerns
  <2>5. ASSUME NEW k \in Claims, Truth(k)' PROVE Leads(<<e>>, k, Truth(k))
    BY <2>1, <2>2, <2>4, <2>5, SameTruth, Neutral, LeadsOne, TruthIsBoolean
  <2>6. pending' \subseteq OpenRuns'
    BY <1>0, <2>1, <2>2 DEF OpenRuns
  <2> HIDE DEF e
  <2> QED BY <2>1, <2>3, <2>4, <2>5, <2>6, RunTells
<1>6. CASE Send(r)
  <2>1. Ask("start", r) \in Requests /\ Ask("start", r).mine /\ Ask("start", r).kind = "start"
    BY DEF Ask, Requests
  <2> QED BY <1>6, <2>1, ViewAsks DEF Send, Request, store
<1>7. CASE Cancel(r)
  <2>1. Ask("cancel", r) \in Requests /\ Ask("cancel", r).mine /\ Ask("cancel", r).what = r
        /\ Ask("cancel", r).kind = "cancel"
    BY DEF Ask, Requests
  <2>2. r \in Created
    BY <1>7 DEF Cancel, ViewInv, RunsAreCreated
  <2> QED BY <1>7, <2>1, <2>2, ViewAsks DEF Cancel, Request, store
<1>8. CASE Decide(r)
  <2>1. Ask("approve", r) \in Requests /\ Ask("approve", r).mine /\ Ask("approve", r).what = r
        /\ Ask("approve", r).kind = "approve"
    BY DEF Ask, Requests
  <2>2. r \in Created
    BY <1>8 DEF Decide, ViewInv, RunsAreCreated
  <2> QED BY <1>8, <2>1, <2>2, ViewAsks DEF Decide, Request, store
<1> QED BY <1>1, <1>2, <1>3, <1>4, <1>5, <1>6, <1>7, <1>8

LEMMA ViewStays ==
  ASSUME ViewInv, UNCHANGED <<status, pending, host, toHost, toPage, loaded, active, approvals,
                              streaming>>
  PROVE  ViewInv'
<1>1. ViewIsTold'
  BY DEF ViewInv, ViewIsTold, Truth, OpenRunOf, OpenRuns, Now, Excused, Informed, Refreshes
<1>2. EventsMeetTheirRun'
  BY DEF ViewInv, EventsMeetTheirRun, Meets, Concerns
<1>3. RunsAreCreated' /\ OldRequestsFirst' /\ PageIsBlank' /\ ApprovalsAreOfRuns'
  BY DEF ViewInv, RunsAreCreated, Created, OldRequestsFirst, PageIsBlank, ApprovalsAreOfRuns, Informed,
         OpenRuns
<1> QED BY <1>1, <1>2, <1>3 DEF ViewInv

LEMMA AtMostOne ==
  ASSUME NEW e, NEW s, s = <<e>> \/ s = <<>>, NEW type, e.type = type
  PROVE  s \in Seq(Range(s)) /\ \A d \in Range(s) : d.type = type
<1>1. CASE s = <<e>>
  BY <1>1, OneRange
<1>2. CASE s = <<>>
  BY <1>2, NoRange
<1> QED BY <1>1, <1>2

\* A run ends: its status is told between its last messages.
LEMMA ViewEndStep ==
  ASSUME ViewInv, HistoryInv, NEW r \in Runs, NEW before \in BOOLEAN, NEW after \in BOOLEAN,
         End(r, before, after)
  PROVE  ViewInv'
<1> DEFINE c == ConversationOf[r]
           n == written[c]
           text == IF before THEN <<Message(c, n + 1, "assistant")>> ELSE <<>>
           results == IF after THEN <<Message(c, n + Len(text) + 1, "tool")>> ELSE <<>>
           answer == IF r \in cancels THEN <<Reply("done", r, TRUE)>> ELSE <<>>
           e == Status(r, "ended")
           events == text \o <<e>> \o results \o answer
<1>0. status \in [Runs -> Statuses] /\ pending \subseteq OpenRuns
  BY DEF ViewInv, RunsAreCreated, Statuses, ApprovalsAreOfRuns
<1>1. /\ toPage' = toPage \o events /\ r \in OpenRuns /\ UNCHANGED <<page, host, toHost>>
      /\ status' = [status EXCEPT ![r] = "ended"] /\ pending' = pending \ {r}
  BY DEF End, Publish, OpenRuns
<1>2. text \in Seq(Range(text)) /\ \A d \in Range(text) : d.type = "message-created"
  <2> DEFINE d == Message(c, n + 1, "assistant")
  <2>1. (text = <<d>> \/ text = <<>>) /\ d.type = "message-created"
    BY DEF Message
  <2> HIDE DEF d, text
  <2> QED BY <2>1, AtMostOne
<1>3. results \in Seq(Range(results)) /\ \A d \in Range(results) : d.type = "message-created"
  <2> DEFINE d == Message(c, n + Len(text) + 1, "tool")
  <2>1. (results = <<d>> \/ results = <<>>) /\ d.type = "message-created"
    BY DEF Message
  <2> HIDE DEF d, results
  <2> QED BY <2>1, AtMostOne
<1>4. answer \in Seq(Range(answer)) /\ \A d \in Range(answer) : d.type = "done"
  <2> DEFINE d == Reply("done", r, TRUE)
  <2>1. (answer = <<d>> \/ answer = <<>>) /\ d.type = "done"
    BY DEF Reply
  <2> HIDE DEF d, answer
  <2> QED BY <2>1, AtMostOne
<1>5. <<e>> \in Seq(Range(<<e>>)) /\ Range(<<e>>) = {e}
  BY OneRange
<1>6. \A k \in Claims : Truth(k)' => For(e, k) \/ (Truth(k) /\ ~Against(e, k))
  BY <1>0, <1>1, StatusTells DEF Statuses
<1>7. pending' \subseteq OpenRuns'
  BY <1>0, <1>1 DEF OpenRuns
<1>8. e.type = "run-status" /\ ~Concerns(e)
  BY DEF Status, Concerns, Waiting
<1> HIDE DEF text, results, answer, e
<1>9. /\ text \o <<e>> \in Seq(Range(text \o <<e>>))
      /\ Range(text \o <<e>>) = Range(text) \cup {e}
  BY <1>2, <1>5, JoinRange
<1>10. /\ text \o <<e>> \o results \in Seq(Range(text \o <<e>> \o results))
       /\ Range(text \o <<e>> \o results) = Range(text) \cup {e} \cup Range(results)
  BY <1>3, <1>9, JoinRange
<1>11. /\ events \in Seq(Range(events))
       /\ Range(events) = Range(text) \cup {e} \cup Range(results) \cup Range(answer)
  BY <1>4, <1>10, JoinRange
<1>12. ASSUME NEW k \in Claims, Truth(k)' PROVE Leads(events, k, Truth(k))
  <2>1. /\ \A d \in Range(text) : ~Against(d, k)
        /\ \A d \in Range(results) : ~Against(d, k)
        /\ \A d \in Range(answer) : ~Against(d, k)
    BY <1>2, <1>3, <1>4, Neutral
  <2>2. Truth(k) \in BOOLEAN
    BY TruthIsBoolean
  <2>3. Leads(<<e>>, k, Truth(k))
    BY <1>6, <1>12, <2>2, LeadsOne
  <2>4. Leads(text \o <<e>>, k, Truth(k))
    BY <1>2, <1>5, <2>1, <2>2, <2>3, LeadsFrom
  <2>5. Leads(text \o <<e>> \o results, k, Truth(k))
    BY <1>3, <1>9, <2>1, <2>2, <2>4, LeadsOn
  <2> QED BY <1>4, <1>10, <2>1, <2>2, <2>5, LeadsOn
<1>13. \A d \in Range(events) : d.type \in {"message-created", "done", "run-status"}
  BY <1>2, <1>3, <1>4, <1>8, <1>11
<1>14. \A d \in Range(events) : ~Concerns(d)
  <2>1. \A d : d.type \in {"message-created", "done"} => ~Concerns(d)
    BY DEF Concerns
  <2> QED BY <1>2, <1>3, <1>4, <1>8, <1>11, <2>1
<1>15. "ended" \in Statuses \ {"none"}
  BY DEF Statuses
<1> HIDE DEF events
<1> QED BY <1>1, <1>7, <1>11, <1>12, <1>13, <1>14, <1>15, RunTells

----------------------------------------------------------------------------
\* The host dies and comes back.
LEMMA ViewCrashStep ==
  ASSUME ViewInv, HistoryInv, Crash \/ Restart \/ Reload PROVE ViewInv'
<1>0. /\ toPage \in Seq(Range(toPage)) /\ toHost \in Seq(Requests)
      /\ status \in [Runs -> Statuses] /\ pending \subseteq OpenRuns
  BY DEF HistoryInv, WireOK, EventsAreTrue, Sound, ViewInv, RunsAreCreated, Statuses,
         ApprovalsAreOfRuns
<1>1. CASE Crash
  <2>1. PICK n \in 0 .. Len(toPage) : toPage' = SubSeq(toPage, 1, n)
    BY <1>1 DEF Crash
  <2>2. Range(toPage') \subseteq Range(toPage)
    BY <1>0, <2>1, PrefixRange
  <2>3. /\ toHost' = <<>> /\ host' = "down" /\ Range(toHost') = {}
        /\ UNCHANGED <<status, pending, loaded, active, approvals>>
    BY <1>1, NoRange DEF Crash, store
  <2>4. RunsAreCreated'
    BY <2>2, <2>3 DEF ViewInv, RunsAreCreated, Created
  <2>5. OldRequestsFirst'
    BY <2>3 DEF OldRequestsFirst
  <2>6. PageIsBlank'
    BY <2>2, <2>3 DEF ViewInv, PageIsBlank
  <2>7. ApprovalsAreOfRuns'
    BY <2>2, <2>3 DEF ViewInv, ApprovalsAreOfRuns, OpenRuns
  <2> QED BY <2>3, <2>4, <2>5, <2>6, <2>7 DEF ViewInv, EventsMeetTheirRun, ViewIsTold
<1>2. CASE Restart
  <2> DEFINE told == [i \in 1 .. Cardinality(OpenRuns) |-> Status(SetToSeq(OpenRuns)[i], "ended")]
  <2>1. /\ toPage' = toPage \o told /\ host' = "back" /\ UNCHANGED <<page, toHost>>
        /\ status' = [q \in Runs |-> IF q \in OpenRuns THEN "ended" ELSE status[q]]
        /\ pending' = {}
    BY <1>2 DEF Restart, Publish
  <2>2. Cardinality(OpenRuns) \in Nat
    BY RendererAssumption, FS_Subset, FS_CardinalityType DEF OpenRuns
  <2>3. told \in Seq(Range(told))
    BY <2>2 DEF Range
  <2>4. \A e \in Range(told) : e.type = "run-status" /\ e.status = "ended"
    BY DEF Range, Status
  <2> HIDE DEF told
  <2>5. status' \in [Runs -> Statuses] /\ \A q \in Runs : status[q] # "none" => status'[q] # "none"
    BY <1>0, <2>1 DEF Statuses
  <2>6. \A e \in Range(told) : ~Concerns(e) /\ Brought(e) = {}
    BY <2>4 DEF Brought, Concerns, Waiting
  <2>7. \A e \in Range(told) : e.type # "started" /\ e.type # "snapshot"
    BY <2>4
  <2>8. pending' \subseteq OpenRuns' /\ host' # "up"
    BY <2>1
  <2> QED BY <2>1, <2>3, <2>5, <2>6, <2>7, <2>8, Publishes
<1>3. CASE Reload
  <2> DEFINE old == [i \in DOMAIN toHost |-> [toHost[i] EXCEPT !.mine = FALSE]]
             new == <<Ask("snapshot", "all")>>
  <2>1. /\ toPage' = <<>> /\ host' = "up" /\ loaded' = FALSE /\ DOMAIN active' = {}
        /\ approvals' = {} /\ streaming' = {} /\ UNCHANGED <<status, pending>>
        /\ toHost' = old \o new /\ Range(toPage') = {}
    BY <1>3, NoRange DEF Reload, store, Empty
  <2>2. /\ old \in Seq(Range(old)) /\ Len(old) = Len(toHost)
        /\ \A i \in DOMAIN old : ~old[i].mine /\ old[i].kind = toHost[i].kind
                                 /\ old[i].what = toHost[i].what /\ i \in DOMAIN toHost
    <3>1. \A p \in Requests : [p EXCEPT !.mine = FALSE].mine = FALSE
             /\ [p EXCEPT !.mine = FALSE].kind = p.kind /\ [p EXCEPT !.mine = FALSE].what = p.what
      BY DEF Requests
    <3>2. \A i \in DOMAIN toHost : toHost[i] \in Requests
      BY <1>0
    <3>3. old \in Seq(Range(old)) /\ Len(old) = Len(toHost) /\ DOMAIN old = DOMAIN toHost
      BY <1>0 DEF Range
    <3> QED BY <3>1, <3>2, <3>3
  <2>3. new \in Seq(Range(new)) /\ Range(new) = {Ask("snapshot", "all")} /\ Len(new) = 1
    BY OneRange
  <2> HIDE DEF old, new
  <2>4. Range(toHost') = Range(old) \cup {Ask("snapshot", "all")}
    BY <2>1, <2>2, <2>3, JoinRange
  <2>5. \A q \in Range(old) : ~q.mine /\ \E p \in Range(toHost) : p.kind = q.kind /\ p.what = q.what
    BY <2>2 DEF Range
  <2>6. RunsAreCreated'
    <3>1. \A q \in Range(toHost') : q.kind \in {"cancel", "approve"} =>
             \E p \in Range(toHost) : p.kind = q.kind /\ p.what = q.what
      BY <2>4, <2>5 DEF Ask
    <3> QED BY <2>1, <3>1 DEF ViewInv, RunsAreCreated, Created
  <2>7. OldRequestsFirst'
    <3>1. ~Informed'
      BY <2>1 DEF Informed
    <3>2. ASSUME NEW i \in DOMAIN toHost', NEW j \in DOMAIN toHost', i < j PROVE ~toHost'[i].mine
      <4>1. i \in DOMAIN old /\ toHost'[i] = old[i]
        <5>1. /\ DOMAIN toHost' = 1 .. Len(old) + 1 /\ Len(old) \in Nat /\ DOMAIN old = 1 .. Len(old)
              /\ \A l \in DOMAIN old : toHost'[l] = old[l]
          <6>1. /\ DOMAIN (old \o new) = 1 .. Len(old) + Len(new)
                /\ Len(old) \in Nat /\ DOMAIN old = 1 .. Len(old)
                /\ \A l \in DOMAIN old : (old \o new)[l] = old[l]
            BY <2>2, <2>3, JoinIndex
          <6> QED BY <2>1, <2>3, <6>1
        <5> QED BY <3>2, <5>1
      <4> QED BY <2>2, <4>1
    <3> QED BY <3>1, <3>2 DEF OldRequestsFirst
  <2>8. PageIsBlank'
    BY <2>1, <2>4, <2>5 DEF PageIsBlank, Ask
  <2>9. ApprovalsAreOfRuns'
    BY <1>0, <2>1 DEF ApprovalsAreOfRuns, OpenRuns
  <2>10. EventsMeetTheirRun'
    BY <2>1 DEF EventsMeetTheirRun
  <2>11. ViewIsTold'
    <3> SUFFICES ASSUME NEW k \in Claims, ~Excused(k)' PROVE Leads(toPage', k, Now(k)')
      BY DEF ViewIsTold
    <3>1. k.about = "still"
      BY <2>1 DEF Excused, Informed
    <3>2. Now(k)' = TRUE
      BY <2>1, <3>1 DEF Now
    <3> QED BY <2>1, <3>2, LeadsNone
  <2> QED BY <2>6, <2>7, <2>8, <2>9, <2>10, <2>11 DEF ViewInv
<1> QED BY <1>1, <1>2, <1>3

----------------------------------------------------------------------------
\* The host answers a request other than for a snapshot.
LEMMA HandlerTells ==
  ASSUME ViewInv, HistoryInv, toHost /= <<>>, toHost' = Tail(toHost), UNCHANGED <<page, host>>,
         ~(Head(toHost).mine /\ Head(toHost).kind = "snapshot"),
         NEW events, events \in Seq(Range(events)), toPage' = toPage \o events,
         status' \in [Runs -> Statuses], \A r \in Runs : status[r] /= "none" => status'[r] /= "none",
         pending' \subseteq OpenRuns',
         \A e \in Range(events) : e.type /= "snapshot" /\ (e.type = "started" => loaded),
         \A e \in Range(events) : Brought(e) \subseteq Created',
         \A e \in Range(events) : ~Concerns(e),
         \A k \in Claims : Truth(k)' /\ ~Excused(k) /\ ~Excused(k)' => Leads(events, k, Truth(k))
  PROVE  ViewInv'
<1>1. ASSUME NEW k \in Claims, ~Excused(k)', Truth(k)'
      PROVE Leads(events, k, Truth(k) /\ ~Excused(k))
  <2>1. ~Excused(k)
    BY <1>1, StaysExcused DEF HistoryInv, WireOK, EventsAreTrue, Sound, page
  <2>2. (Truth(k) /\ ~Excused(k)) = Truth(k)
    BY <2>1, TruthIsBoolean
  <2>3. Leads(events, k, Truth(k))
    BY <1>1, <2>1
  <2> QED BY <2>2, <2>3
<1>2. \A k \in Claims : Excused(k)' \/ (Truth(k)' => Leads(events, k, Truth(k) /\ ~Excused(k)))
  BY <1>1
<1>3. \A e \in Range(events) : e.type /= "snapshot"
  OBVIOUS
<1>4. \A e \in Range(events) : e.type = "started" => loaded
  OBVIOUS
<1> HIDE DEF Leads
<1> QED BY <1>2, <1>3, <1>4, Publishes

\* It says nothing of runs.
LEMMA HandlerSays ==
  ASSUME ViewInv, HistoryInv, toHost /= <<>>, toHost' = Tail(toHost),
         UNCHANGED <<page, host, status, pending>>,
         ~(Head(toHost).mine /\ Head(toHost).kind = "snapshot"),
         NEW events, events \in Seq(Range(events)), toPage' = toPage \o events,
         \A e \in Range(events) : e.type \in {"refused", "history", "done"}
  PROVE  ViewInv'
<1>1. status' \in [Runs -> Statuses] /\ pending' \subseteq OpenRuns'
  BY DEF ViewInv, RunsAreCreated, Statuses, ApprovalsAreOfRuns, OpenRuns
<1>2. \A e \in Range(events) : e.type /= "snapshot" /\ (e.type = "started" => loaded)
  OBVIOUS
<1>3. \A e \in Range(events) : ~Concerns(e) /\ Brought(e) = {}
  BY DEF Brought, Concerns
<1>4. ASSUME NEW k \in Claims, Truth(k)' PROVE Leads(events, k, Truth(k))
  <2>1. \A e \in Range(events) : ~Against(e, k)
    BY Neutral
  <2> QED BY <1>4, <2>1, SameTruth, LeadsStay, TruthIsBoolean
<1> QED BY <1>1, <1>2, <1>3, <1>4, HandlerTells

LEMMA ViewSnapshotStep ==
  ASSUME ViewInv, HistoryInv, toHost /= <<>>, toHost' = Tail(toHost), UNCHANGED <<page, host>>,
         HandleSnapshot(Head(toHost))
  PROVE  ViewInv'
<1> DEFINE q == Head(toHost)
           e == Reply("snapshot", "all", Snapshot)
<1>0. /\ status \in [Runs -> Statuses] /\ pending \subseteq OpenRuns
      /\ UNCHANGED <<status, pending>>
  BY DEF ViewInv, RunsAreCreated, Statuses, ApprovalsAreOfRuns, HandleSnapshot, store
<1>1. CASE ~q.mine
  <2>1. toPage' = toPage \o <<>>
    BY <1>1 DEF HandleSnapshot, Answer, Publish
  <2> QED BY <1>0, <1>1, <2>1, NoRange, HandlerSays
<1>2. CASE q.mine
  <2>1. toPage' = toPage \o <<e>>
    <3>1. <<>> \o <<e>> = <<e>>
      OBVIOUS
    <3>2. toPage' = toPage \o (<<>> \o <<e>>)
      BY <1>2 DEF HandleSnapshot, Answer, Publish
    <3> QED BY <3>1, <3>2
  <2>2. <<e>> \in Seq(Range(<<e>>)) /\ Range(<<e>>) = {e}
    BY OneRange
  <2>3. /\ e.type = "snapshot" /\ DOMAIN e.value.active = OpenRuns
        /\ e.value.approvals = pending /\ \A r \in OpenRuns : e.value.active[r] = status[r]
    BY DEF Reply, Snapshot
  <2> HIDE DEF e
  <2>4. pending' \subseteq OpenRuns' /\ status' \in [Runs -> Statuses]
    BY <1>0 DEF OpenRuns
  <2>5. Brought(e) \subseteq Created'
    BY <1>0, <2>3 DEF Brought, Created, OpenRuns
  <2>6. \A p \in Range(toHost') : p.mine
    <3> SUFFICES ASSUME NEW i \in DOMAIN toHost' PROVE toHost'[i].mine
      BY DEF Range
    <3>1. toHost \in Seq(Requests)
      BY DEF HistoryInv, WireOK
    <3>2. 1 \in DOMAIN toHost /\ i + 1 \in DOMAIN toHost /\ 1 < i + 1
          /\ toHost[1] = q /\ toHost[i + 1] = toHost'[i]
      BY <3>1
    <3>3. toHost[i + 1].mine
      BY <1>2, <3>2 DEF ViewInv, OldRequestsFirst
    <3> QED BY <3>2, <3>3
  <2>7. ~Concerns(e)
    BY <2>3 DEF Concerns
  <2>8. ASSUME NEW k \in Claims, Truth(k)' PROVE Leads(<<e>>, k, Truth(k) /\ ~Excused(k))
    <3>1. Truth(k)
      BY <1>0, <2>8, SameTruth
    <3>2. (Truth(k) /\ ~Excused(k)) \in BOOLEAN
      OBVIOUS
    <3>3. CASE k.about = "still"
      <4>1. ~Against(e, k) /\ ~Excused(k)
        BY <2>3, <3>3 DEF Against, Excused
      <4> QED BY <3>1, <3>2, <4>1, LeadsOne
    <3>4. CASE k.about = "shown"
      BY <2>3, <3>1, <3>2, <3>4, LeadsOne DEF Truth, For, Brought
    <3>5. CASE k.about = "hidden"
      BY <2>3, <3>1, <3>2, <3>5, LeadsOne DEF Truth, For, Hides
    <3>6. CASE k.about = "asked"
      BY <2>3, <3>1, <3>2, <3>6, LeadsOne DEF Truth, For, AsksFor
    <3>7. CASE k.about = "unasked"
      BY <2>3, <3>1, <3>2, <3>7, LeadsOne DEF Truth, For, Settles
    <3>8. CASE k.about \in Waiting
      <4>1. k.what \in OpenRuns /\ status[k.what] = k.about
        BY <3>1, <3>8, ClaimKinds DEF Truth, Waiting, OpenRuns
      <4>2. For(e, k)
        BY <2>3, <3>8, <4>1 DEF For, Gives, Waiting
      <4> QED BY <3>2, <4>2, LeadsOne
    <3> QED BY <3>3, <3>4, <3>5, <3>6, <3>7, <3>8, ClaimKinds DEF RunClaims
  <2>9. /\ e.type = "started" => loaded
        /\ e.value.approvals \subseteq DOMAIN e.value.active
    BY <1>0, <2>3
  <2> HIDE DEF q
  <2> QED BY <1>0, <2>1, <2>2, <2>4, <2>5, <2>6, <2>7, <2>8, <2>9, Publishes
<1> QED BY <1>1, <1>2

\* A reply that says nothing of runs, and one that goes with no change.
LEMMA ViewReplyStep ==
  ASSUME ViewInv, HistoryInv, toHost /= <<>>, toHost' = Tail(toHost), UNCHANGED <<page, host>>,
         \/ HandleHistory(Head(toHost))
         \/ Refuse(Head(toHost))
         \/ CancelRun(Head(toHost)) /\ status[Head(toHost).what] = "ended"
         \/ ResolveApproval(Head(toHost)) /\ Head(toHost).what \notin pending
  PROVE  ViewInv'
<1> DEFINE q == Head(toHost)
<1>1. ASSUME NEW e, e.type \in {"refused", "history", "done"}, Answer(q, <<>>, <<e>>),
             q.kind /= "snapshot", UNCHANGED <<status, pending>>
      PROVE ViewInv'
  <2>1. toPage' = toPage \o (IF q.mine THEN <<e>> ELSE <<>>)
    <3>1. <<>> \o <<e>> = <<e>>
      OBVIOUS
    <3> QED BY <1>1, <3>1 DEF Answer, Publish
  <2> DEFINE events == IF q.mine THEN <<e>> ELSE <<>>
  <2>2. events \in Seq(Range(events)) /\ \A d \in Range(events) : d.type = e.type
    BY AtMostOne
  <2>3. \A d \in Range(events) : d.type \in {"refused", "history", "done"}
    BY <1>1, <2>2
  <2> HIDE DEF events
  <2>4. toPage' = toPage \o events
    BY <2>1 DEF events
  <2> QED BY <1>1, <2>2, <2>3, <2>4, HandlerSays
<1>2. CASE HandleHistory(q)
  <2>1. Reply("history", q.what, 1 .. written[q.what]).type = "history"
    BY DEF Reply
  <2> QED BY <1>1, <1>2, <2>1 DEF HandleHistory, store
<1>3. CASE Refuse(q)
  <2>1. Reply("refused", q.what, TRUE).type = "refused"
    BY DEF Reply
  <2>2. /\ Answer(q, <<>>, <<Reply("refused", q.what, TRUE)>>) /\ q.kind = "start"
        /\ UNCHANGED <<status, pending>>
    BY <1>3 DEF Refuse, store
  <2> DEFINE e == Reply("refused", q.what, TRUE)
  <2>3. e.type \in {"refused", "history", "done"} /\ Answer(q, <<>>, <<e>>)
    BY <2>1, <2>2
  <2> HIDE DEF e
  <2> QED BY <1>1, <2>2, <2>3
<1>4. CASE CancelRun(q) /\ status[q.what] = "ended"
  <2>1. Reply("done", q.what, TRUE).type = "done"
    BY DEF Reply
  <2>2. /\ Answer(q, <<>>, <<Reply("done", q.what, TRUE)>>) /\ q.kind = "cancel"
        /\ UNCHANGED <<status, pending>>
    BY <1>4 DEF CancelRun
  <2> DEFINE e == Reply("done", q.what, TRUE)
  <2>3. e.type \in {"refused", "history", "done"} /\ Answer(q, <<>>, <<e>>)
    BY <2>1, <2>2
  <2> HIDE DEF e
  <2> QED BY <1>1, <2>2, <2>3
<1>5. CASE ResolveApproval(q) /\ q.what \notin pending
  <2>1. pending' = pending /\ UNCHANGED <<status, toPage>> /\ q.kind /= "snapshot"
    BY <1>5 DEF ResolveApproval
  <2>2. toPage' = toPage \o <<>>
    BY <2>1 DEF HistoryInv, EventsAreTrue, Sound
  <2> QED BY <2>1, <2>2, NoRange, HandlerSays
<1> QED BY <1>2, <1>3, <1>4, <1>5

\* What a run that goes on is told by, before a reply.
LEMMA Goes ==
  ASSUME ViewInv, NEW r \in OpenRuns, NEW s \in Statuses \ {"none", "ended"},
         status' = [status EXCEPT ![r] = s]
  PROVE  /\ OpenRuns' = OpenRuns /\ r \in Runs /\ status \in [Runs -> Statuses]
         /\ status' \in [Runs -> Statuses]
         /\ \A q \in Runs : status[q] /= "none" => status'[q] /= "none"
         /\ Brought(Status(r, s)) = {}
         /\ s \notin Waiting => ~Concerns(Status(r, s))
         /\ Status(r, s).type = "run-status"
<1>1. status \in [Runs -> Statuses] /\ r \in Runs
  BY DEF ViewInv, RunsAreCreated, Statuses, OpenRuns
<1> QED BY <1>1 DEF OpenRuns, Brought, Concerns, Status, Statuses, Waiting

LEMMA ViewCancelStep ==
  ASSUME ViewInv, HistoryInv, toHost /= <<>>, toHost' = Tail(toHost), UNCHANGED <<page, host>>,
         CancelRun(Head(toHost)), status[Head(toHost).what] /= "ended"
  PROVE  ViewInv'
<1> DEFINE q == Head(toHost)
           r == q.what
           e == Status(r, "cancelling")
           events == IF status[r] = "cancelling" THEN <<>> ELSE <<e>>
<1>1. /\ q.kind = "cancel" /\ toPage' = toPage \o events /\ pending' = pending
      /\ status' = [status EXCEPT ![r] = "cancelling"]
  BY DEF CancelRun, Publish
<1>2. r \in OpenRuns
  <2>1. q \in Requests /\ q \in Range(toHost)
    <3>1. toHost \in Seq(Requests) /\ toHost \in Seq(Range(toHost))
      BY OwnRange DEF HistoryInv, WireOK
    <3> QED BY <3>1, TakeRange
  <2>2. r \in Runs
    BY <1>1, <2>1 DEF Requests
  <2>3. status[r] # "none"
    BY <1>1, <2>1, <2>2 DEF ViewInv, RunsAreCreated, Created
  <2> QED BY <2>2, <2>3 DEF OpenRuns
<1>3. "cancelling" \in Statuses \ {"none", "ended"} /\ "cancelling" \notin Waiting
  BY DEF Statuses, Waiting
<1>4. events \in Seq(Range(events)) /\ \A d \in Range(events) : d = e
  BY NoRange, OneRange
<1> HIDE DEF events, e
<1>5. /\ OpenRuns' = OpenRuns /\ r \in Runs /\ status \in [Runs -> Statuses]
      /\ status' \in [Runs -> Statuses]
      /\ \A p \in Runs : status[p] /= "none" => status'[p] /= "none"
      /\ ~Concerns(e) /\ Brought(e) = {}
      /\ e.type = "run-status"
  BY <1>1, <1>2, <1>3, Goes DEF e
<1>6. pending' \subseteq OpenRuns'
  BY <1>1, <1>5 DEF ViewInv, ApprovalsAreOfRuns
<1>7. ASSUME NEW k \in Claims, Truth(k)' PROVE Leads(events, k, Truth(k))
  <2>1. CASE status[r] = "cancelling"
    <3>1. UNCHANGED status /\ events = <<>>
      BY <1>1, <1>5, <2>1 DEF events
    <3>2. Truth(k)
      BY <1>1, <1>7, <3>1, SameTruth
    <3> QED BY <3>1, <3>2, LeadsNone, TruthIsBoolean
  <2>2. CASE status[r] # "cancelling"
    <3>1. events = <<e>>
      BY <2>2 DEF events
    <3>2. For(e, k) \/ (Truth(k) /\ ~Against(e, k))
      BY <1>1, <1>2, <1>3, <1>5, <1>7, StatusTells DEF e
    <3> QED BY <3>1, <3>2, LeadsOne, TruthIsBoolean
  <2> QED BY <2>1, <2>2
<1>8. \A d \in Range(events) : d.type /= "snapshot" /\ (d.type = "started" => loaded)
  BY <1>4, <1>5
<1>9. \A d \in Range(events) : ~Concerns(d) /\ Brought(d) = {}
  BY <1>4, <1>5
<1>10. ~(Head(toHost).mine /\ Head(toHost).kind = "snapshot")
  BY <1>1
<1> HIDE DEF q, r
<1> QED BY <1>1, <1>4, <1>5, <1>6, <1>7, <1>8, <1>9, <1>10, HandlerTells

LEMMA ViewResolveStep ==
  ASSUME ViewInv, HistoryInv, toHost /= <<>>, toHost' = Tail(toHost), UNCHANGED <<page, host>>,
         ResolveApproval(Head(toHost)), Head(toHost).what \in pending
  PROVE  ViewInv'
<1> DEFINE q == Head(toHost)
           r == q.what
           goesOn == status[r] = "waiting-approval"
           e == Status(r, "running")
           first == IF goesOn THEN <<e>> ELSE <<>>
           done == Reply("done", r, TRUE)
           then == IF q.mine THEN <<done>> ELSE <<>>
           events == first \o then
<1>0. status \in [Runs -> Statuses] /\ r \in OpenRuns /\ r \in Runs /\ pending \subseteq OpenRuns
  BY DEF ViewInv, RunsAreCreated, Statuses, ApprovalsAreOfRuns, OpenRuns
<1>1. /\ q.kind = "approve" /\ pending' = pending \ {r} /\ toPage' = toPage \o events
      /\ status' = IF goesOn THEN [status EXCEPT ![r] = "running"] ELSE status
  <2>1. Answer(q, first, <<done>>)
    BY DEF ResolveApproval
  <2>2. first \o <<>> = first
    OBVIOUS
  <2>3. toPage' = toPage \o events
    BY <2>1, <2>2 DEF Answer, Publish
  <2> QED BY <2>3 DEF ResolveApproval
<1>2. /\ first \in Seq(Range(first)) /\ \A d \in Range(first) : d = e
  BY NoRange, OneRange
<1>3. /\ then \in Seq(Range(then)) /\ \A d \in Range(then) : d = done
      /\ q.mine => done \in Range(then)
  BY NoRange, OneRange
<1>4. done.type = "done" /\ e.type = "run-status" /\ e.status = "running"
  BY DEF Reply, Status
<1> HIDE DEF e, done, first, then
<1>5. events \in Seq(Range(events)) /\ Range(events) = Range(first) \cup Range(then)
  BY <1>2, <1>3, JoinRange
<1>6. \A d \in Range(events) : d = e \/ d = done
  BY <1>2, <1>3, <1>5
<1>7. "running" \in Statuses \ {"none", "ended"} /\ "running" \notin Waiting
  BY DEF Statuses, Waiting
<1>8. /\ OpenRuns' = OpenRuns /\ status' \in [Runs -> Statuses]
      /\ \A p \in Runs : status[p] /= "none" => status'[p] /= "none"
  <2>1. CASE goesOn
    BY <1>0, <1>1, <1>7, <2>1, Goes
  <2>2. CASE ~goesOn
    BY <1>0, <1>1, <2>2 DEF OpenRuns
  <2> QED BY <2>1, <2>2
<1>9. pending' \subseteq OpenRuns'
  BY <1>0, <1>1, <1>8
<1>10. \A d \in Range(events) : ~Concerns(d) /\ Brought(d) = {}
  <2>1. ~Concerns(done) /\ Brought(done) = {}
    BY <1>4 DEF Brought, Concerns
  <2>2. ~Concerns(e) /\ Brought(e) = {}
    BY <1>4 DEF Brought, Concerns, Waiting
  <2> QED BY <1>6, <2>1, <2>2
<1>11. \A d \in Range(events) : d.type /= "snapshot" /\ (d.type = "started" => loaded)
  BY <1>4, <1>6
<1>12. ASSUME NEW k \in Claims, Truth(k)', ~Excused(k), ~Excused(k)'
       PROVE Leads(events, k, Truth(k))
  <2>0. Truth(k) \in BOOLEAN /\ \A d \in Range(then) : ~Against(d, k)
    BY <1>3, <1>4, Neutral, TruthIsBoolean
  <2>1. k.about \notin {"asked", "unasked"}
    <3>1. CASE q.mine
      <4>1. done \in Range(toPage')
        <5>1. toPage \in Seq(Range(toPage))
          BY DEF HistoryInv, EventsAreTrue, Sound
        <5>2. Range(toPage') = Range(toPage) \cup Range(events)
          BY <1>1, <1>5, <5>1, JoinRange
        <5> QED BY <1>3, <1>5, <3>1, <5>2
      <4> QED BY <1>4, <1>12, <4>1 DEF Excused, Refreshes
    <3>2. CASE ~q.mine
      <4>1. q \in Range(toHost)
        <5>1. toHost \in Seq(Range(toHost))
          BY OwnRange DEF HistoryInv, WireOK
        <5> QED BY <5>1, TakeRange
      <4>2. ~Informed
        BY <3>2, <4>1 DEF ViewInv, OldRequestsFirst
      <4> QED BY <1>12, <4>2 DEF Excused
    <3> QED BY <3>1, <3>2
  <2>2. Leads(first, k, Truth(k))
    <3>1. CASE goesOn
      <4>1. first = <<e>> /\ status' = [status EXCEPT ![r] = "running"]
        BY <1>1, <3>1 DEF first
      <4>2. For(e, k) \/ (Truth(k) /\ ~Against(e, k))
        BY <1>0, <1>7, <1>12, <2>1, <4>1, StatusTells DEF e
      <4> QED BY <2>0, <4>1, <4>2, LeadsOne
    <3>2. CASE ~goesOn
      <4>1. first = <<>> /\ UNCHANGED status
        BY <1>1, <3>2 DEF first
      <4>2. Truth(k)
        BY <1>12, <2>1, <4>1, ClaimKinds DEF RunClaims, Truth, OpenRunOf, OpenRuns
      <4> QED BY <2>0, <4>1, <4>2, LeadsNone
    <3> QED BY <3>1, <3>2
  <2> QED BY <1>2, <1>3, <2>0, <2>2, LeadsOn
<1>13. ~(Head(toHost).mine /\ Head(toHost).kind = "snapshot")
  BY <1>1
<1> HIDE DEF q, r, events
<1> QED BY <1>1, <1>5, <1>8, <1>9, <1>10, <1>11, <1>12, <1>13, HandlerTells

\* The answer to a question wakes its run; the reply shows the run as it was.
LEMMA ViewInputStep ==
  ASSUME ViewInv, HistoryInv, toHost /= <<>>, toHost' = Tail(toHost), UNCHANGED <<page, host>>,
         ProvideRunInput(Head(toHost))
  PROVE  ViewInv'
<1> DEFINE q == Head(toHost)
           c == ConversationOf[q.what]
<1>1. /\ q.kind = "start" /\ pending' = pending
      /\ \E r \in OpenRunOf(c) :
           /\ status' = [status EXCEPT ![r] = "running"]
           /\ Answer(q, <<Message(c, written[c] + 1, "user"), Status(r, "running")>>,
                     <<Reply("started", r, "waiting-input")>>)
  BY DEF ProvideRunInput
<1>2. PICK r \in OpenRunOf(c) :
           /\ status' = [status EXCEPT ![r] = "running"]
           /\ Answer(q, <<Message(c, written[c] + 1, "user"), Status(r, "running")>>,
                     <<Reply("started", r, "waiting-input")>>)
  BY <1>1
<1> DEFINE m == Message(c, written[c] + 1, "user")
           e == Status(r, "running")
           reply == Reply("started", r, "waiting-input")
           then == IF q.mine THEN <<reply>> ELSE <<>>
           events == <<m, e>> \o then
<1>3. r \in OpenRuns /\ r \in Runs
  BY <1>2 DEF OpenRunOf, OpenRuns
<1>4. toPage' = toPage \o events
  <2>1. <<m, e>> \o <<>> = <<m, e>>
    OBVIOUS
  <2> QED BY <1>2, <2>1 DEF Answer, Publish
<1>5. q.mine => loaded
  <2>1. q \in Range(toHost)
    <3>1. toHost \in Seq(Range(toHost))
      BY OwnRange DEF HistoryInv, WireOK
    <3> QED BY <3>1, TakeRange
  <2> QED BY <1>1, <2>1 DEF ViewInv, PageIsBlank
<1>6. /\ m.type = "message-created" /\ e.type = "run-status" /\ e.status = "running"
      /\ reply.type = "started" /\ reply.what = r /\ reply.value = "waiting-input"
  BY DEF Message, Status, Reply
<1>7. <<m, e>> \in Seq(Range(<<m, e>>)) /\ Range(<<m, e>>) = {m, e}
  BY PairRange
<1>8. then \in Seq(Range(then)) /\ (\A d \in Range(then) : d = reply) /\ (~q.mine => Range(then) = {})
  BY NoRange, OneRange
<1>9. "running" \in Statuses \ {"none", "ended"} /\ "running" \notin Waiting
  BY DEF Statuses, Waiting
<1>10. /\ OpenRuns' = OpenRuns /\ status \in [Runs -> Statuses]
       /\ status' \in [Runs -> Statuses]
       /\ \A p \in Runs : status[p] /= "none" => status'[p] /= "none"
       /\ ~Concerns(e) /\ Brought(e) = {}
       /\ status'[r] = "running"
  BY <1>2, <1>3, <1>9, Goes
<1>11. ASSUME NEW k \in Claims, Truth(k)' PROVE Leads(events, k, Truth(k))
  <2>1. ~Against(reply, k)
    <3>1. CASE k.about = "hidden"
      <4>1. k.what # r
        BY <1>3, <1>10, <1>11, <3>1 DEF Truth
      <4> QED BY <1>6, <3>1, <4>1 DEF Against, Brought
    <3>2. CASE k.about \in Waiting
      <4>1. k.what # r
        BY <1>10, <1>11, <3>2, <1>9 DEF Truth, Waiting
      <4> QED BY <1>6, <3>2, <4>1 DEF Against, Takes, Waiting
    <3>3. CASE k.about \in {"shown", "asked", "unasked", "still"}
      BY <1>6, <3>3 DEF Against, Hides, Ends, Settles, AsksFor
    <3> QED BY <3>1, <3>2, <3>3, ClaimKinds DEF RunClaims
  <2>2. For(e, k) \/ (Truth(k) /\ ~Against(e, k))
    BY <1>1, <1>2, <1>3, <1>9, <1>10, <1>11, StatusTells
  <2>3. ~Against(m, k) /\ Truth(k) \in BOOLEAN
    BY <1>6, Neutral, TruthIsBoolean
  <2> HIDE DEF m, e, reply, then
  <2>4. Leads(<<m, e>>, k, Truth(k))
    BY <2>2, <2>3, LeadsTwo
  <2>5. \A d \in Range(then) : ~Against(d, k)
    BY <1>8, <2>1
  <2> QED BY <1>7, <1>8, <2>3, <2>4, <2>5, LeadsOn
<1> HIDE DEF m, e, reply, then
<1>12. events \in Seq(Range(events)) /\ Range(events) = {m, e} \cup Range(then)
  BY <1>7, <1>8, JoinRange
<1>13. \A d \in Range(events) : d = m \/ d = e \/ (d = reply /\ q.mine)
  BY <1>8, <1>12
<1>14. \A d \in Range(events) : d.type /= "snapshot" /\ (d.type = "started" => loaded)
  BY <1>5, <1>6, <1>13
<1>15. \A d \in Range(events) : ~Concerns(d) /\ Brought(d) \subseteq Created'
  <2>1. ~Concerns(m) /\ Brought(m) = {}
    BY <1>6 DEF Brought, Concerns
  <2>2. ~Concerns(reply) /\ Brought(reply) = {r}
    BY <1>6 DEF Brought, Concerns
  <2>3. r \in Created'
    BY <1>3, <1>10 DEF Created
  <2> QED BY <1>10, <1>13, <2>1, <2>2, <2>3
<1>16. pending' \subseteq OpenRuns'
  BY <1>1, <1>10 DEF ViewInv, ApprovalsAreOfRuns
<1>17. ~(Head(toHost).mine /\ Head(toHost).kind = "snapshot")
  BY <1>1
<1> HIDE DEF q, c, events
<1> QED BY <1>4, <1>10, <1>11, <1>12, <1>14, <1>15, <1>16, <1>17, HandlerTells

\* A run starts: what is told of it before the reply is dropped, the reply is not.
LEMMA ViewStartStep ==
  ASSUME ViewInv, HistoryInv, toHost /= <<>>, toHost' = Tail(toHost), UNCHANGED <<page, host>>,
         NEW keyless \in BOOLEAN, StartRun(Head(toHost), keyless)
  PROVE  ViewInv'
<1> DEFINE q == Head(toHost)
           r == q.what
           c == ConversationOf[r]
           s == IF keyless THEN "running" ELSE "queued"
           d == Status(r, "queued")
           m == Message(c, written[c] + 1, "user")
           e == Status(r, "running")
           more == IF keyless THEN <<e>> ELSE <<>>
           reply == Reply("started", r, "queued")
           then == IF q.mine THEN <<reply>> ELSE <<>>
           told == <<d, m>> \o more
           events == told \o then
<1>0. q \in Requests /\ q \in Range(toHost)
  <2>1. toHost \in Seq(Requests) /\ toHost \in Seq(Range(toHost))
    BY OwnRange DEF HistoryInv, WireOK
  <2> QED BY <2>1, TakeRange
<1>1. /\ q.kind = "start" /\ pending' = pending /\ OpenRunOf(c) = {}
      /\ status' = [status EXCEPT ![r] = s] /\ r \in Runs
      /\ status \in [Runs -> Statuses] /\ pending \subseteq OpenRuns
  BY <1>0 DEF StartRun, Requests, ViewInv, RunsAreCreated, Statuses, ApprovalsAreOfRuns
<1>3. q.mine => loaded
  BY <1>0, <1>1 DEF ViewInv, PageIsBlank
<1>4. ~q.mine => ~Informed
  BY <1>0 DEF ViewInv, OldRequestsFirst
<1>5. /\ m.type = "message-created" /\ e.type = "run-status" /\ e.status = "running"
      /\ d.type = "run-status" /\ d.status = "queued" /\ d.run = r /\ e.run = r
      /\ reply.type = "started" /\ reply.what = r /\ reply.value = "queued"
  BY DEF Message, Status, Reply
<1>6. <<d, m>> \in Seq(Range(<<d, m>>)) /\ Range(<<d, m>>) = {d, m}
  BY PairRange
<1>7. more \in Seq(Range(more)) /\ \A f \in Range(more) : f = e
  BY NoRange, OneRange
<1>8. then \in Seq(Range(then)) /\ (\A f \in Range(then) : f = reply) /\ (~q.mine => Range(then) = {})
  BY NoRange, OneRange
<1>2. toPage' = toPage \o events
  <2>1. Answer(q, told, <<reply>>)
    BY DEF StartRun
  <2> HIDE DEF told, q, reply, d, m, more
  <2>2. CASE q.mine
    BY <2>1, <2>2 DEF Answer, Publish
  <2>3. CASE ~q.mine
    <3>1. told \in Seq(Range(told))
      BY <1>6, <1>7, JoinRange DEF told
    <3>2. told \o <<>> = told
      BY <3>1
    <3> QED BY <2>1, <2>3, <3>2 DEF Answer, Publish
  <2> QED BY <2>2, <2>3
<1>9. /\ s \in Statuses \ {"none", "ended"} /\ s \notin Waiting
      /\ OpenRuns' = OpenRuns \cup {r} /\ status'[r] = s
      /\ status' \in [Runs -> Statuses]
      /\ \A p \in Runs : status[p] /= "none" => status'[p] /= "none"
  BY <1>1 DEF OpenRuns, Statuses, Waiting
<1>10. ASSUME NEW k \in Claims, Truth(k)', ~Excused(k) PROVE Leads(events, k, Truth(k))
  <2>0. Truth(k) \in BOOLEAN
    BY TruthIsBoolean
  <2>1. CASE k.about \in RunClaims /\ k.what = r
    <3>1. q.mine
      BY <1>4, <1>10, <2>1 DEF Excused, RunClaims, Waiting
    <3>2. k.about \notin Waiting \cup {"hidden"}
      BY <1>1, <1>9, <1>10, <2>1 DEF Truth, Waiting
    <3>3. CASE k.about = "shown"
      <4>1. For(reply, k)
        BY <1>5, <2>1, <3>3 DEF For, Brought
      <4>2. then = <<reply>>
        BY <3>1
      <4>3. Leads(then, k, FALSE)
        BY <4>1, <4>2, LeadsOne
      <4> HIDE DEF told, then
      <4>4. told \in Seq(Range(told))
        BY <1>6, <1>7, JoinRange DEF told
      <4> QED BY <1>8, <2>0, <4>3, <4>4, LeadsJoin
    <3>4. CASE k.about \in {"asked", "unasked"}
      <4>1. Truth(k)
        BY <1>1, <1>10, <3>4 DEF Truth
      <4>2. ~Against(d, k) /\ ~Against(m, k) /\ ~Against(e, k) /\ ~Against(reply, k)
        BY <1>5, <3>4 DEF Against, Settles, Ends, AsksFor
      <4> QED BY <1>6, <1>7, <1>8, <2>0, <4>1, <4>2, FourStay
    <3> QED BY <2>1, <3>2, <3>3, <3>4 DEF RunClaims
  <2>2. CASE ~(k.about \in RunClaims /\ k.what = r)
    <3>1. Truth(k)
      <4>1. CASE k.about = "still"
        <5>1. OpenRunOf(k.what) \subseteq OpenRunOf(k.what)'
          BY <1>9 DEF OpenRunOf
        <5> QED BY <1>10, <4>1, <5>1 DEF Truth
      <4>2. CASE k.about \in RunClaims
        BY <1>1, <1>9, <1>10, <2>2, <4>2, ClaimKinds DEF Truth, RunClaims, Waiting
      <4> QED BY <4>1, <4>2, ClaimKinds
    <3>2. ~Against(d, k) /\ ~Against(m, k) /\ ~Against(e, k) /\ ~Against(reply, k)
      <4>1. CASE k.about = "still"
        BY <1>5, <4>1 DEF Against
      <4>2. CASE k.about \in RunClaims
        BY <1>5, <2>2, <4>2 DEF Against, RunClaims, Waiting, Hides, Ends, Brought, Settles, AsksFor, Takes
      <4> QED BY <4>1, <4>2, ClaimKinds
    <3> QED BY <1>6, <1>7, <1>8, <2>0, <3>1, <3>2, FourStay
  <2> QED BY <2>1, <2>2
<1> HIDE DEF d, m, e, reply, then, more
<1>11. told \in Seq(Range(told)) /\ Range(told) = {d, m} \cup Range(more)
  BY <1>6, <1>7, JoinRange
<1> HIDE DEF told
<1>12. events \in Seq(Range(events)) /\ Range(events) = Range(told) \cup Range(then)
  BY <1>8, <1>11, JoinRange
<1>13. \A f \in Range(events) : f \in {d, m, e} \/ (f = reply /\ q.mine)
  BY <1>7, <1>8, <1>11, <1>12
<1>14. \A f \in Range(events) : f.type /= "snapshot" /\ (f.type = "started" => loaded)
  BY <1>3, <1>5, <1>13
<1>15. \A f \in Range(events) : ~Concerns(f) /\ Brought(f) \subseteq Created'
  <2>1. /\ ~Concerns(m) /\ ~Concerns(d) /\ ~Concerns(e)
        /\ Brought(m) = {} /\ Brought(d) = {} /\ Brought(e) = {}
    BY <1>5 DEF Brought, Concerns, Waiting
  <2>2. ~Concerns(reply) /\ Brought(reply) = {r}
    BY <1>5 DEF Brought, Concerns
  <2>3. r \in Created'
    BY <1>1, <1>9 DEF Created, Statuses
  <2> QED BY <1>9, <1>13, <2>1, <2>2, <2>3
<1>16. pending' \subseteq OpenRuns'
  BY <1>1, <1>9
<1>17. ~(Head(toHost).mine /\ Head(toHost).kind = "snapshot")
  BY <1>1
<1> HIDE DEF q, r, c, s, events
<1> QED BY <1>2, <1>9, <1>10, <1>12, <1>14, <1>15, <1>16, <1>17, HandlerTells

LEMMA ViewHandleStep == ViewInv /\ HistoryInv /\ Handle => ViewInv'
<1> SUFFICES ASSUME ViewInv, HistoryInv, Handle PROVE ViewInv'
  OBVIOUS
<1>1. toHost /= <<>> /\ toHost' = Tail(toHost) /\ UNCHANGED <<page, host>>
  BY DEF Handle
<1>2. CASE CancelRun(Head(toHost))
  BY <1>1, <1>2, ViewReplyStep, ViewCancelStep
<1>3. CASE ResolveApproval(Head(toHost))
  BY <1>1, <1>3, ViewReplyStep, ViewResolveStep
<1> QED BY <1>1, <1>2, <1>3, ViewSnapshotStep, ViewReplyStep, ViewInputStep, ViewStartStep DEF Handle

----------------------------------------------------------------------------
\* The page applies an event.  It knows nothing before its first snapshot.
AppliesTo(e) ==
    /\ e.type \in EventTypes
    /\ Apply(e)
    /\ loaded \/ (DOMAIN active = {} /\ approvals = {} /\ e.type /= "started")

LEMMA AppliedRuns ==
  ASSUME NEW e, AppliesTo(e), NEW r
  PROVE  r \in DOMAIN active' <=> r \in Brought(e) \/ (r \in DOMAIN active /\ ~Hides(e, r))
<1> USE DEF AppliesTo, Apply, Brought, Hides, Ends, page
<1>1. CASE e.type = "run-status"
  <2>1. ApplyStatus(e)
    BY <1>1
  <2>2. CASE e.status = "ended" /\ Known(e.run)
    BY <1>1, <2>1, <2>2 DEF ApplyStatus, Without
  <2>3. CASE ~(e.status = "ended" /\ Known(e.run))
    <3>1. DOMAIN active' = DOMAIN active
      BY <2>1, <2>3 DEF ApplyStatus
    <3> QED BY <1>1, <2>3, <3>1 DEF Known
  <2> QED BY <2>2, <2>3
<1>2. CASE e.type = "snapshot"
  BY <1>2 DEF TakeSnapshot
<1>3. CASE e.type = "started"
  BY <1>3 DEF TakeRun
<1>4. CASE e.type \in {"assistant-delta", "message-created", "approval-required", "refused",
                       "history", "done"}
  BY <1>4 DEF ApplyDelta, ApplyMessage, ApplyApproval, TakeRefusal, TakeHistory, TakeDone
<1> QED BY <1>1, <1>2, <1>3, <1>4 DEF EventTypes

LEMMA AppliedApprovals ==
  ASSUME NEW e, AppliesTo(e), approvals \subseteq DOMAIN active, NEW r
  PROVE  r \in approvals' <=> \/ AsksFor(e, r) /\ (e.type = "approval-required" => loaded)
                              \/ r \in approvals /\ ~Settles(e, r)
<1> USE DEF AppliesTo, Apply, AsksFor, Settles, Ends, page
<1>1. CASE e.type = "run-status"
  BY <1>1 DEF ApplyStatus, Known
<1>2. CASE e.type = "snapshot"
  BY <1>2 DEF TakeSnapshot
<1>3. CASE e.type = "approval-required"
  BY <1>3 DEF ApplyApproval
<1>4. CASE e.type \in {"assistant-delta", "message-created", "started", "refused", "history", "done"}
  BY <1>4 DEF ApplyDelta, ApplyMessage, TakeRun, TakeRefusal, TakeHistory, TakeDone
<1> QED BY <1>1, <1>2, <1>3, <1>4 DEF EventTypes

LEMMA AppliedStatus ==
  ASSUME NEW e, AppliesTo(e), NEW r, NEW s \in Waiting,
         \/ Gives(e, r, s) /\ (e.type = "run-status" => r \in DOMAIN active)
         \/ r \in DOMAIN active /\ active[r] = s /\ ~Takes(e, r, s)
  PROVE  r \in DOMAIN active' /\ active'[r] = s
<1> USE DEF AppliesTo, Apply, Gives, Takes, page
<1>1. CASE e.type = "run-status"
  <2>1. ApplyStatus(e) /\ s # "ended"
    BY <1>1 DEF Waiting
  <2>2. CASE e.status = "ended" /\ Known(e.run)
    BY <1>1, <2>1, <2>2 DEF ApplyStatus, Without
  <2>3. CASE ~(e.status = "ended" /\ Known(e.run))
    BY <1>1, <2>1, <2>3 DEF ApplyStatus
  <2> QED BY <2>2, <2>3
<1>2. CASE e.type = "snapshot"
  BY <1>2 DEF TakeSnapshot
<1>3. CASE e.type = "started"
  BY <1>3 DEF TakeRun
<1>4. CASE e.type \in {"assistant-delta", "message-created", "approval-required", "refused",
                       "history", "done"}
  BY <1>4 DEF ApplyDelta, ApplyMessage, ApplyApproval, TakeRefusal, TakeHistory, TakeDone
<1> QED BY <1>1, <1>2, <1>3, <1>4 DEF EventTypes

LEMMA AppliedText ==
  ASSUME NEW e, AppliesTo(e), NEW c, c \in streaming'
  PROVE  \/ e.type = "assistant-delta" /\ e.conversation = c
         \/ c \in streaming /\ \A r \in Runs : Ends(e, r) => ConversationOf[r] # c
<1> USE DEF AppliesTo, Apply, Ends, page
<1>1. CASE e.type = "run-status"
  BY <1>1 DEF ApplyStatus
<1>2. CASE e.type = "assistant-delta"
  BY <1>2 DEF ApplyDelta
<1>3. CASE e.type = "message-created"
  BY <1>3 DEF ApplyMessage
<1>4. CASE e.type \in {"snapshot", "started", "approval-required", "refused", "history", "done"}
  BY <1>4 DEF ApplyApproval, TakeSnapshot, TakeRun, TakeRefusal, TakeHistory, TakeDone
<1> QED BY <1>1, <1>2, <1>3, <1>4 DEF EventTypes

\* What it shows then is what the event says, or what it showed before.
LEMMA Applied ==
  ASSUME NEW e, AppliesTo(e), approvals \subseteq DOMAIN active, NEW k \in Claims,
         \/ For(e, k) /\ (Concerns(e) => loaded /\ e.run \in DOMAIN active)
         \/ Now(k) /\ ~Against(e, k)
  PROVE  Now(k)'
<1>1. CASE k.about = "shown"
  BY <1>1, AppliedRuns DEF For, Against, Now
<1>2. CASE k.about = "hidden"
  <2>1. k.what \notin Brought(e) /\ (Hides(e, k.what) \/ k.what \notin DOMAIN active)
    BY <1>2 DEF For, Against, Now, Hides, Brought, Ends
  <2> QED BY <1>2, <2>1, AppliedRuns DEF Now
<1>3. CASE k.about = "asked"
  <2>1. \/ AsksFor(e, k.what) /\ (e.type = "approval-required" => loaded)
        \/ k.what \in approvals /\ ~Settles(e, k.what)
    BY <1>3 DEF For, Against, Now, Concerns
  <2> QED BY <1>3, <2>1, AppliedApprovals DEF Now
<1>4. CASE k.about = "unasked"
  <2>1. ~AsksFor(e, k.what) /\ (Settles(e, k.what) \/ k.what \notin approvals)
    BY <1>4 DEF For, Against, Now, Settles, AsksFor, Ends
  <2> QED BY <1>4, <2>1, AppliedApprovals DEF Now
<1>5. CASE k.about = "still"
  <2>1. /\ ~(e.type = "assistant-delta" /\ e.conversation = k.what)
        /\ k.what \notin streaming \/ \E r \in Runs : Ends(e, r) /\ ConversationOf[r] = k.what
    BY <1>5 DEF For, Against, Now, Ends
  <2> QED BY <1>5, <2>1, AppliedText DEF Now
<1>6. CASE k.about \in Waiting
  <2>1. \/ Gives(e, k.what, k.about) /\ (e.type = "run-status" => k.what \in DOMAIN active)
        \/ k.what \in DOMAIN active /\ active[k.what] = k.about /\ ~Takes(e, k.what, k.about)
    BY <1>6 DEF For, Against, Now, Gives, Concerns, Waiting
  <2> QED BY <1>6, <2>1, AppliedStatus DEF Now, Waiting
<1> QED BY <1>1, <1>2, <1>3, <1>4, <1>5, <1>6, ClaimKinds DEF RunClaims

LEMMA SnapshotDecides ==
  ASSUME NEW e, e.type = "snapshot", NEW k \in Claims, k.about # "still"
  PROVE  For(e, k) \/ Against(e, k)
  BY ClaimKinds DEF RunClaims, Waiting, For, Against, Brought, Hides, AsksFor, Settles, Gives, Takes

LEMMA TailPrefix ==
  ASSUME NEW s, s \in Seq(Range(s)), s /= <<>>, NEW i \in DOMAIN Tail(s)
  PROVE  /\ i + 1 \in DOMAIN s /\ s[i + 1] = Tail(s)[i] /\ (i + 1) - 1 = i
         /\ i \in 0 .. Len(s) /\ SubSeq(s, 1, i) /= <<>> /\ Head(SubSeq(s, 1, i)) = Head(s)
         /\ Tail(SubSeq(s, 1, i)) = SubSeq(Tail(s), 1, i - 1)
<1> DEFINE a == Tail(SubSeq(s, 1, i))
           b == SubSeq(Tail(s), 1, i - 1)
<1>1. /\ i + 1 \in DOMAIN s /\ s[i + 1] = Tail(s)[i] /\ i \in Nat \ {0} /\ i \in 0 .. Len(s)
      /\ Len(s) \in Nat /\ DOMAIN Tail(s) = 1 .. Len(s) - 1
  OBVIOUS
<1>2. SubSeq(s, 1, i) \in Seq(Range(s)) /\ Len(SubSeq(s, 1, i)) = i
      /\ \A j \in 1 .. i : SubSeq(s, 1, i)[j] = s[j]
  BY <1>1
<1>3. a \in Seq(Range(s)) /\ Len(a) = i - 1 /\ \A j \in 1 .. i - 1 : a[j] = s[j + 1]
  <2> DEFINE u == SubSeq(s, 1, i)
  <2>1. u \in Seq(Range(s)) /\ Len(u) = i /\ \A j \in 1 .. i : u[j] = s[j]
    BY <1>2
  <2> HIDE DEF u
  <2>2. Tail(u) \in Seq(Range(s)) /\ Len(Tail(u)) = i - 1 /\ \A j \in 1 .. i - 1 : Tail(u)[j] = u[j + 1]
    BY <1>1, <2>1
  <2> QED BY <1>1, <2>1, <2>2 DEF u
<1>4. b \in Seq(Range(s)) /\ Len(b) = i - 1 /\ \A j \in 1 .. i - 1 : b[j] = s[j + 1]
  <2> DEFINE u == Tail(s)
  <2>1. u \in Seq(Range(s)) /\ Len(u) = Len(s) - 1 /\ \A j \in 1 .. Len(s) - 1 : u[j] = s[j + 1]
    OBVIOUS
  <2> HIDE DEF u
  <2>2. SubSeq(u, 1, i - 1) \in Seq(Range(s)) /\ Len(SubSeq(u, 1, i - 1)) = i - 1
        /\ \A j \in 1 .. i - 1 : SubSeq(u, 1, i - 1)[j] = u[j]
    BY <1>1, <2>1
  <2> QED BY <1>1, <2>1, <2>2 DEF u
<1> HIDE DEF a, b
<1>5. a = b
  BY <1>1, <1>3, <1>4, SameSequence
<1> QED BY <1>1, <1>2, <1>5 DEF a, b

LEMMA ViewDeliverStep == ViewInv /\ HistoryInv /\ Deliver => ViewInv'
<1> SUFFICES ASSUME ViewInv, HistoryInv, Deliver PROVE ViewInv'
  OBVIOUS
<1> DEFINE e == Head(toPage)
<1>1. /\ toPage /= <<>> /\ toPage' = Tail(toPage) /\ Apply(e)
      /\ UNCHANGED <<status, pending, host>>
  BY DEF Deliver, store
<1>2. /\ toPage \in Seq(Range(toPage)) /\ toHost \in Seq(Requests) /\ toHost \in Seq(Range(toHost))
      /\ e.type \in EventTypes /\ e \in Range(toPage)
      /\ Range(toPage) = {e} \cup Range(toPage')
  <2>1. toPage \in Seq(Range(toPage)) /\ toHost \in Seq(Requests) /\ toHost \in Seq(Range(toHost))
    BY OwnRange DEF HistoryInv, WireOK, EventsAreTrue, Sound
  <2>2. e \in Range(toPage) /\ Range(toPage) = {e} \cup Range(toPage')
    BY <1>1, <2>1, TakeRange
  <2> QED BY <2>1, <2>2 DEF HistoryInv, EventsAreTrue, Sound, IsTrue
<1> HIDE DEF e
<1>3. AppliesTo(e)
  BY <1>1, <1>2 DEF AppliesTo, ViewInv, PageIsBlank
<1>4. (loaded => loaded') /\ (loaded' => loaded \/ e.type = "snapshot")
      /\ (e.type = "snapshot" => loaded')
  BY <1>1, <1>2 DEF EventTypes, Apply, ApplyDelta, ApplyMessage, ApplyApproval, ApplyStatus,
     TakeSnapshot, TakeRun, TakeRefusal, TakeHistory, TakeDone, page
<1>5. \/ UNCHANGED toHost /\ (e.type = "done" => host = "down")
      \/ e.type = "done" /\ toHost' = Append(toHost, Ask("snapshot", "all"))
  BY <1>1, <1>2 DEF EventTypes, Apply, ApplyDelta, ApplyMessage, ApplyApproval, ApplyStatus,
     TakeSnapshot, TakeRun, TakeRefusal, TakeHistory, TakeDone
<1>6. \/ UNCHANGED toHost
      \/ /\ Range(toHost') = Range(toHost) \cup {Ask("snapshot", "all")}
         /\ toHost' = toHost \o <<Ask("snapshot", "all")>>
  <2>1. CASE toHost' = Append(toHost, Ask("snapshot", "all"))
    <3> DEFINE q == Ask("snapshot", "all")
    <3>1. toHost' = toHost \o <<q>>
      BY <1>2, <2>1
    <3>2. Range(toHost \o <<q>>) = Range(toHost) \cup Range(<<q>>) /\ Range(<<q>>) = {q}
      BY <1>2, OneRange, JoinRange
    <3> QED BY <3>1, <3>2
  <2> QED BY <1>5, <2>1
<1>7. \A r : r \in DOMAIN active' => r \in DOMAIN active \/ r \in Brought(e)
  BY <1>3, AppliedRuns
<1>8. Informed' => Informed
  BY <1>2, <1>4 DEF Informed
<1>9. \A q \in Range(toHost') : q \in Range(toHost) \/ (q.mine /\ q.kind = "snapshot")
  BY <1>6 DEF Ask
<1>10. RunsAreCreated'
  BY <1>1, <1>2, <1>7, <1>9 DEF ViewInv, RunsAreCreated, Created
<1>11. OldRequestsFirst'
  <2>1. \A i, j \in DOMAIN toHost' : i < j /\ toHost'[i].mine => toHost'[j].mine
    <3>1. CASE UNCHANGED toHost
      BY <3>1 DEF ViewInv, OldRequestsFirst
    <3>2. CASE toHost' = Append(toHost, Ask("snapshot", "all"))
      <4> SUFFICES ASSUME NEW i \in DOMAIN toHost', NEW j \in DOMAIN toHost', i < j, toHost'[i].mine
                   PROVE toHost'[j].mine
        OBVIOUS
      <4>1. \/ j = Len(toHost) + 1 /\ toHost'[j] = Ask("snapshot", "all")
            \/ /\ i \in DOMAIN toHost /\ j \in DOMAIN toHost
               /\ toHost'[i] = toHost[i] /\ toHost'[j] = toHost[j]
        BY <1>2, <3>2
      <4> QED BY <4>1 DEF ViewInv, OldRequestsFirst, Ask
    <3> QED BY <1>5, <3>1, <3>2
  <2> QED BY <1>8, <1>9, <2>1 DEF ViewInv, OldRequestsFirst
<1>12. PageIsBlank'
  <2> SUFFICES ASSUME ~loaded'
               PROVE /\ DOMAIN active' = {} /\ approvals' = {}
                     /\ \A d \in Range(toPage') : d.type /= "started"
                     /\ \A q \in Range(toHost') : ~(q.mine /\ q.kind = "start")
    BY DEF PageIsBlank
  <2>1. /\ DOMAIN active = {} /\ approvals = {} /\ ~loaded /\ e.type # "snapshot"
        /\ \A d \in Range(toPage) : d.type /= "started"
        /\ \A q \in Range(toHost) : ~(q.mine /\ q.kind = "start")
    BY <1>4 DEF ViewInv, PageIsBlank
  <2>2. DOMAIN active' = {}
    BY <1>2, <1>7, <2>1 DEF Brought
  <2>3. approvals' = {}
    <3>1. \A r : r \notin approvals'
      BY <1>3, <2>1, AppliedApprovals DEF AsksFor
    <3> QED BY <3>1
  <2> QED BY <1>2, <1>9, <2>1, <2>2, <2>3
<1>13. ASSUME host = "up", Concerns(e) PROVE loaded => e.run \in DOMAIN active
  <2>1. 1 \in DOMAIN toPage /\ e = toPage[1] /\ SubSeq(toPage, 1, 1 - 1) = <<>>
    BY <1>1, <1>2 DEF e
  <2>2. Meets(<<>>, e.run)
    BY <1>13, <2>1 DEF ViewInv, EventsMeetTheirRun
  <2>3. Leads(<<>>, [about |-> "shown", what |-> e.run], e.run \in DOMAIN active)
           <=> e.run \in DOMAIN active
    <3>1. (e.run \in DOMAIN active) \in BOOLEAN
      OBVIOUS
    <3> QED BY <3>1, LeadsNone
  <2> QED BY <2>2, <2>3 DEF Meets
<1>14. ApprovalsAreOfRuns'
  <2>1. ASSUME host = "up" PROVE approvals' \subseteq DOMAIN active'
    <3>0. approvals \subseteq DOMAIN active
      BY <2>1 DEF ViewInv, ApprovalsAreOfRuns
    <3> SUFFICES ASSUME NEW r \in approvals' PROVE r \in DOMAIN active'
      OBVIOUS
    <3>1. \/ AsksFor(e, r) /\ (e.type = "approval-required" => loaded)
          \/ r \in approvals /\ ~Settles(e, r)
      BY <1>3, <3>0, AppliedApprovals
    <3>2. r \in Brought(e) \/ (r \in DOMAIN active /\ ~Hides(e, r))
      <4>1. CASE e.type = "snapshot"
        BY <1>2, <3>1, <4>1 DEF ViewInv, ApprovalsAreOfRuns, AsksFor, Settles, Brought
      <4>2. CASE e.type = "approval-required"
        BY <1>13, <2>1, <3>0, <3>1, <4>2 DEF Concerns, AsksFor, Hides, Ends
      <4>3. CASE e.type \notin {"snapshot", "approval-required"}
        BY <3>0, <3>1, <4>3 DEF AsksFor, Settles, Hides
      <4> QED BY <4>1, <4>2, <4>3
    <3> QED BY <1>3, <3>2, AppliedRuns
  <2> QED BY <1>1, <1>2, <2>1 DEF ViewInv, ApprovalsAreOfRuns, OpenRuns
<1>15. EventsMeetTheirRun'
  <2> SUFFICES ASSUME host = "up", NEW i \in DOMAIN toPage', Concerns(toPage'[i]),
                      NEW r, r = toPage'[i].run
               PROVE Meets(SubSeq(toPage, 1, i - 1), r)'
    BY <1>1 DEF EventsMeetTheirRun, Concerns
  <2> DEFINE s == SubSeq(toPage, 1, i)
             k == [about |-> "shown", what |-> r]
  <2>1. /\ i + 1 \in DOMAIN toPage /\ toPage[i + 1] = toPage'[i] /\ (i + 1) - 1 = i
        /\ i \in 0 .. Len(toPage) /\ s /= <<>> /\ Head(s) = e
        /\ Tail(s) = SubSeq(toPage', 1, i - 1)
    BY <1>1, <1>2, TailPrefix DEF e
  <2>2. Meets(s, r)
    BY <1>1, <2>1 DEF ViewInv, EventsMeetTheirRun
  <2>3. s \in Seq(Range(s))
    BY <1>2, <2>1, PrefixRange
  <2> HIDE DEF s
  <2>4. Range(s) = {e} \cup Range(Tail(s))
    BY <2>1, <2>3, TakeRange
  <2>5. CASE ~loaded /\ \A d \in Range(s) : d.type /= "snapshot"
    <3>1. ~loaded' /\ \A d \in Range(SubSeq(toPage', 1, i - 1)) : d.type /= "snapshot"
      BY <1>4, <2>1, <2>4, <2>5
    <3> QED BY <3>1 DEF Meets
  <2>6. CASE Leads(s, k, r \in DOMAIN active)
    <3>1. For(e, k) <=> r \in Brought(e)
      BY DEF For
    <3>2. Against(e, k) <=> Hides(e, r)
      BY DEF Against
    <3>3. For(e, k) \/ (r \in DOMAIN active /\ ~Against(e, k)) => r \in DOMAIN active'
      BY <1>3, <3>1, <3>2, AppliedRuns
    <3>4. (r \in DOMAIN active) \in BOOLEAN /\ (r \in DOMAIN active') \in BOOLEAN
      OBVIOUS
    <3>5. Leads(Tail(s), k, r \in DOMAIN active')
      <4> HIDE DEF k
      <4> QED BY <2>1, <2>3, <2>6, <3>3, <3>4, LeadsTail
    <3> QED BY <2>1, <3>5 DEF Meets
  <2> QED BY <2>2, <2>5, <2>6 DEF Meets
<1>16. ViewIsTold'
  <2> SUFFICES ASSUME host = "up", NEW k \in Claims, ~Excused(k)', Truth(k)'
               PROVE Leads(toPage', k, Now(k)')
    BY <1>1 DEF ViewIsTold
  <2>1. Refreshes => Refreshes'
    <3>1. CASE e.type = "done"
      <4>1. Ask("snapshot", "all") \in Range(toHost')
        BY <1>5, <1>6, <3>1
      <4> QED BY <4>1 DEF Refreshes, Ask
    <3>2. CASE e.type # "done"
      BY <1>2, <1>5, <3>2 DEF Refreshes
    <3> QED BY <3>1, <3>2
  <2>2. ~Excused(k) /\ (Informed' \/ k.about = "still")
    BY <1>8, <2>1 DEF Excused
  <2>3. Leads(toPage, k, Now(k))
    BY <1>1, <2>2, SameTruth DEF ViewInv, ViewIsTold
  <2>4. approvals \subseteq DOMAIN active
    BY DEF ViewInv, ApprovalsAreOfRuns
  <2>5. ASSUME For(e, k) \/ (Now(k) /\ ~Against(e, k)), \A d \in Range(toPage') : ~Against(d, k)
        PROVE Now(k)' \/ \E d \in Range(toPage') : For(d, k)
    <3>1. CASE Concerns(e) => loaded /\ e.run \in DOMAIN active
      BY <1>3, <2>4, <2>5, <3>1, Applied
    <3>2. CASE ~For(e, k)
      BY <1>3, <2>4, <2>5, <3>2, Applied
    <3>3. CASE For(e, k) /\ Concerns(e) /\ ~loaded
      <4>1. k.about # "still"
        BY <3>3 DEF For, Ends, Concerns, Waiting
      <4>2. ~loaded'
        BY <1>4, <3>3 DEF Concerns
      <4>3. PICK d \in Range(toPage') : d.type = "snapshot"
        BY <2>2, <4>1, <4>2 DEF Informed
      <4> QED BY <2>5, <4>1, <4>3, SnapshotDecides
    <3> QED BY <1>13, <3>1, <3>2, <3>3
  <2>6. Now(k) \in BOOLEAN /\ Now(k)' \in BOOLEAN
    BY NowIsBoolean
  <2> QED BY <1>1, <1>2, <2>3, <2>5, <2>6, LeadsTail DEF e
<1> QED BY <1>10, <1>11, <1>12, <1>14, <1>15, <1>16 DEF ViewInv

----------------------------------------------------------------------------
LEMMA ViewInit == Init => ViewInv
<1> SUFFICES ASSUME Init PROVE ViewInv
  OBVIOUS
<1>1. /\ ~loaded /\ DOMAIN active = {} /\ approvals = {} /\ streaming = {} /\ pending = {}
      /\ toPage = <<>> /\ Range(toPage) = {} /\ toHost = <<Ask("snapshot", "all")>>
      /\ Range(toHost) = {Ask("snapshot", "all")} /\ host = "up"
      /\ status = [r \in Runs |-> "none"]
  BY NoRange, OneRange DEF Init, Empty
<1>2. RunsAreCreated /\ ApprovalsAreOfRuns
  BY <1>1 DEF RunsAreCreated, ApprovalsAreOfRuns, Ask, Created
<1>3. OldRequestsFirst /\ PageIsBlank /\ EventsMeetTheirRun
  BY <1>1 DEF OldRequestsFirst, PageIsBlank, EventsMeetTheirRun, Informed, Ask
<1>4. ViewIsTold
  <2> SUFFICES ASSUME NEW k \in Claims, ~Excused(k) PROVE Leads(toPage, k, Now(k))
    BY DEF ViewIsTold
  <2>1. k.about = "still"
    BY <1>1 DEF Excused, Informed
  <2>2. Now(k) = TRUE
    BY <1>1, <2>1 DEF Now
  <2> QED BY <1>1, <2>2, LeadsNone
<1> QED BY <1>2, <1>3, <1>4 DEF ViewInv

LEMMA ViewStep == ViewInv /\ HistoryInv /\ [Next]_vars => ViewInv'
<1> SUFFICES ASSUME ViewInv, HistoryInv, [Next]_vars PROVE ViewInv'
  OBVIOUS
<1>1. ASSUME NEW c \in Conversations, LoadThread(c) PROVE ViewInv'
  <2>1. /\ Ask("history", c) \in Requests /\ Ask("history", c).mine
        /\ Ask("history", c).kind = "history"
    BY DEF Ask, Requests
  <2> QED BY <1>1, <2>1, ViewAsks DEF LoadThread, Request, store
<1>2. ASSUME NEW c \in Conversations, OpenThread(c) PROVE ViewInv'
  BY <1>2, ViewStays DEF OpenThread, store, page, wire
<1>3. ASSUME NEW r \in Runs, CancelTimesOut(r) PROVE ViewInv'
  BY <1>3, ViewStays DEF CancelTimesOut, store, page, wire
<1>4. CASE UNCHANGED vars
  BY <1>4, ViewStays DEF vars, store, page, wire
<1> QED BY <1>1, <1>2, <1>3, <1>4, ViewRunStep, ViewEndStep, ViewHandleStep, ViewDeliverStep,
           ViewCrashStep DEF Next

\* What is so of the runs and approvals in the database is so on the page once it
\* has taken what is on its way: the last event about it says so.
THEOREM ViewInvariance == Spec => []ViewInv
  BY HistoryInvariance, ViewInit, ViewStep, PTL DEF Spec

\* ViewIsCurrent for every number of runs and threads: at rest the page shows the
\* runs that are open, the approvals that are pending, what waits for the user as
\* waiting, and no text that never ends (useWorkspace.ts, applyRunEvent).
THEOREM ViewStaysCurrent == Spec => []ViewIsCurrent
<1>1. ViewInv => ViewIsCurrent
  <2> SUFFICES ASSUME ViewInv, Quiet
               PROVE /\ DOMAIN active = OpenRuns
                     /\ approvals = pending
                     /\ \A r \in OpenRuns : status[r] \in Waiting => active[r] = status[r]
                     /\ \A c \in Conversations : OpenRunOf(c) = {} => c \notin streaming
    BY DEF ViewIsCurrent
  <2>1. ASSUME NEW k \in Claims, Truth(k) PROVE Now(k)
    <3>1. ~Excused(k) /\ toPage = <<>> /\ host = "up"
      BY NoRange DEF Quiet, Excused, Informed, Refreshes
    <3>2. Leads(<<>>, k, Now(k))
      BY <2>1, <3>1 DEF ViewInv, ViewIsTold
    <3> QED BY <3>2, LeadsNone, TruthIsBoolean
  <2>2. \A a \in RunClaims, r \in Runs : [about |-> a, what |-> r] \in Claims
    BY DEF Claims, RunClaims
  <2>3. DOMAIN active = OpenRuns
    <3> SUFFICES \A r : r \in DOMAIN active <=> r \in OpenRuns
      OBVIOUS
    <3>1. ASSUME NEW r \in Runs PROVE r \in DOMAIN active <=> r \in OpenRuns
      <4>1. r \in OpenRuns => r \in DOMAIN active
        <5> DEFINE k == [about |-> "shown", what |-> r]
        <5>1. k \in Claims /\ (Truth(k) <=> r \in OpenRuns) /\ (Now(k) <=> r \in DOMAIN active)
          BY <2>2 DEF RunClaims, Truth, Now
        <5> QED BY <2>1, <5>1
      <4>2. r \notin OpenRuns => r \notin DOMAIN active
        <5> DEFINE k == [about |-> "hidden", what |-> r]
        <5>1. k \in Claims /\ (Truth(k) <=> r \notin OpenRuns) /\ (Now(k) <=> r \notin DOMAIN active)
          BY <2>2 DEF RunClaims, Truth, Now
        <5> QED BY <2>1, <5>1
      <4> QED BY <4>1, <4>2
    <3> QED BY <3>1 DEF OpenRuns, ViewInv, RunsAreCreated, Created
  <2>4. approvals = pending
    <3>1. ASSUME NEW r \in Runs PROVE r \in approvals <=> r \in pending
      <4>1. r \in pending => r \in approvals
        <5> DEFINE k == [about |-> "asked", what |-> r]
        <5>1. k \in Claims /\ (Truth(k) <=> r \in pending) /\ (Now(k) <=> r \in approvals)
          BY <2>2 DEF RunClaims, Truth, Now
        <5> QED BY <2>1, <5>1
      <4>2. r \notin pending => r \notin approvals
        <5> DEFINE k == [about |-> "unasked", what |-> r]
        <5>1. k \in Claims /\ (Truth(k) <=> r \notin pending) /\ (Now(k) <=> r \notin approvals)
          BY <2>2 DEF RunClaims, Truth, Now
        <5> QED BY <2>1, <5>1
      <4> QED BY <4>1, <4>2
    <3>2. approvals \subseteq Runs /\ pending \subseteq Runs
      BY <2>3 DEF Quiet, ViewInv, ApprovalsAreOfRuns, OpenRuns
    <3> QED BY <3>1, <3>2
  <2>5. ASSUME NEW r \in OpenRuns, status[r] \in Waiting PROVE active[r] = status[r]
    <3> DEFINE k == [about |-> status[r], what |-> r]
    <3>1. k \in Claims /\ Truth(k) /\ (Now(k) => active[r] = status[r])
      BY <2>2, <2>5 DEF RunClaims, Waiting, OpenRuns, Truth, Now
    <3> QED BY <2>1, <3>1
  <2>6. ASSUME NEW c \in Conversations, OpenRunOf(c) = {} PROVE c \notin streaming
    <3> DEFINE k == [about |-> "still", what |-> c]
    <3>1. k \in Claims /\ Truth(k) /\ (Now(k) => c \notin streaming)
      BY <2>6 DEF Claims, Truth, Now
    <3> QED BY <2>1, <3>1
  <2> QED BY <2>3, <2>4, <2>5, <2>6
<1> QED BY <1>1, ViewInvariance, PTL
================================================================================
