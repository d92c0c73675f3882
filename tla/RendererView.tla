----------------------------- MODULE RendererView ------------------------------
(***************************************************************************)
(* What the window shows of the runs, approvals and messages the Agent     *)
(* host keeps.  The renderer never reads the database: it asks for a       *)
(* snapshot, applies the events the host publishes afterwards, puts the    *)
(* run a request returned into its picture, and loads the messages of a    *)
(* thread once.  The host may die and come back at any time; the main      *)
(* process then reloads the page.                                          *)
(*                                                                         *)
(* Replies and events travel from the host through the main process to the *)
(* page in one order (both are forwarded from the handler that received    *)
(* them, without waiting), and requests in one order the other way.  The   *)
(* host's side is the outline of RunCore that a window can tell apart:     *)
(* "queued" stands for queued and preparing, "ended" for the terminal      *)
(* statuses.  Left out: tool-call events, which no component shows, stages *)
(* of managed executions, panes (PaneLayout), texts, and requests other    *)
(* than cancelRun that time out while their host lives.  Definitions       *)
(* called X_Something are X with a plausible bug and are not part of the   *)
(* model.                                                                  *)
(***************************************************************************)
EXTENDS Naturals, Sequences, SequencesExt, FiniteSets, TLC

CONSTANTS
    Runs, Conversations,
    ConversationOf, \* the conversation each run belongs to
    MaxMessages,    \* bound: messages of a conversation
    MaxWire,        \* bound: what may be on its way to the page
    MaxRequests,    \* bound: what is under way when the page asks
    MaxCrashes      \* bound: deaths of the host

ASSUME RendererAssumption ==
    /\ ConversationOf \in [Runs -> Conversations]
    /\ IsFiniteSet(Runs)
    /\ {MaxMessages, MaxWire, MaxRequests, MaxCrashes} \subseteq Nat

VARIABLES
    status,   \* of each run, in the database
    created,  \* the runs in the order of their creation
    written,  \* how many messages each conversation has
    pending,  \* the runs with an approval that is pending
    cancels,  \* runs whose end a cancelRun of this page waits for
    host,     \* "up", "down", or "back": up again, the page not yet reloaded
    crashes,
    toHost,   \* requests, with a mark on those whose page is gone
    toPage,   \* events and replies
    loaded,   \* the page has a snapshot
    active,   \* its activeRuns: a function from runs to the status shown
    recent,   \* its recentRuns
    approvals,\* its pendingApprovals, by run
    shown,    \* its messages: a function from threads to sequence numbers
    streaming,\* the threads with streamed text
    open,     \* its open threads (they outlive the page, in localStorage)
    asked,    \* the threads whose messages it has asked for
    sending   \* the threads whose composer waits for an answer

store == <<status, created, written, pending>>
page == <<loaded, active, recent, approvals, shown, streaming, asked, sending>>
wire == <<toHost, toPage>>
vars == <<store, cancels, host, crashes, wire, page, open>>

Waiting == {"waiting-approval", "waiting-input"}
OpenRuns == {r \in Runs : status[r] \notin {"none", "ended"}}
OpenRunOf(c) == {r \in OpenRuns : ConversationOf[r] = c}
Empty == <<>>  \* the function without arguments

Ask(kind, what) == [kind |-> kind, what |-> what, mine |-> TRUE]
Status(r, s) == [type |-> "run-status", run |-> r, status |-> s]
Message(c, n, role) ==
    [type |-> "message-created", conversation |-> c, sequence |-> n, role |-> role]
Reply(kind, what, value) == [type |-> kind, what |-> what, value |-> value]

Init ==
    /\ status = [r \in Runs |-> "none"]
    /\ created = <<>>
    /\ written \in [Conversations -> {0, 1}]
    /\ pending = {}
    /\ cancels = {}
    /\ host = "up"
    /\ crashes = 0
    /\ toHost = <<Ask("snapshot", "all")>>  \* asked in the effect that subscribes
    /\ toPage = <<>>
    /\ loaded = FALSE /\ active = Empty /\ recent = <<>> /\ approvals = {}
    /\ shown = Empty /\ streaming = {} /\ asked = {} /\ sending = {}
    /\ open \in SUBSET Conversations

----------------------------------------------------------------------------
\* The host: what a run does, with the events it publishes.

Publish(events) == toPage' = toPage \o events
Room == host /= "down" /\ Len(toPage) < MaxWire
MayWrite(c, n) == written[c] + n <= MaxMessages

\* Statuses of a run that executes and waits for nobody.
MoveRun(r, from, to) ==
    /\ Room /\ status[r] = from
    /\ status' = [status EXCEPT ![r] = to]
    /\ UNCHANGED <<created, cancels, host, crashes, toHost, page, open>>

Begin(r) ==
    /\ MoveRun(r, "queued", "running")
    /\ Publish(<<Status(r, "running")>>)
    /\ UNCHANGED <<written, pending>>

Delta(r) ==
    /\ Room /\ status[r] = "running" /\ toPage = <<>>  \* bound: one at a time
    /\ Publish(<<[type |-> "assistant-delta", conversation |-> ConversationOf[r]]>>)
    /\ UNCHANGED <<store, cancels, host, crashes, toHost, page, open>>

\* An assistant's turn or the result of a tool.
Say(r, role) ==
    LET c == ConversationOf[r] IN
    /\ MoveRun(r, "running", "running")
    /\ MayWrite(c, 1)
    /\ written' = [written EXCEPT ![c] = @ + 1]
    /\ Publish(<<Message(c, written[c] + 1, role)>>)
    /\ UNCHANGED pending

AskApproval(r) ==
    /\ MoveRun(r, "running", "waiting-approval")
    /\ pending' = pending \cup {r}
    /\ Publish(<<Status(r, "waiting-approval"), [type |-> "approval-required", run |-> r]>>)
    /\ UNCHANGED written

AskInput(r) ==
    /\ MoveRun(r, "running", "waiting-input")
    /\ Publish(<<Status(r, "waiting-input")>>)
    /\ UNCHANGED <<written, pending>>

\* A run completes, fails or ends its cancellation: the interrupted text is
\* stored before the status; approvals expire and open calls get their results
\* after it, and the cancelRun that waits is answered last.
End(r, before, after) ==
    LET c == ConversationOf[r]
        n == written[c]
        text == IF before THEN <<Message(c, n + 1, "assistant")>> ELSE <<>>
        results == IF after THEN <<Message(c, n + Len(text) + 1, "tool")>> ELSE <<>>
        answer == IF r \in cancels THEN <<Reply("done", r, TRUE)>> ELSE <<>>
    IN
    /\ Room /\ status[r] \in {"queued", "running", "cancelling"}
    /\ MayWrite(c, Len(text \o results))
    /\ status' = [status EXCEPT ![r] = "ended"]
    /\ written' = [written EXCEPT ![c] = @ + Len(text \o results)]
    /\ pending' = pending \ {r}
    /\ cancels' = cancels \ {r}
    /\ Publish(text \o <<Status(r, "ended")>> \o results \o answer)
    /\ UNCHANGED <<created, host, crashes, toHost, page, open>>

----------------------------------------------------------------------------
\* The host answers requests.  What is said to a page that is gone is lost.

Answer(request, events, reply) ==
    Publish(IF request.mine THEN events \o reply ELSE events)

Snapshot == [active |-> [r \in OpenRuns |-> status[r]], recent |-> Reverse(created),
             approvals |-> pending]

HandleSnapshot(q) ==
    /\ q.kind = "snapshot"
    /\ Answer(q, <<>>, <<Reply("snapshot", "all", Snapshot)>>)
    /\ UNCHANGED <<store, cancels>>

HandleHistory(q) ==
    /\ q.kind = "history"
    /\ Answer(q, <<>>, <<Reply("history", q.what, 1 .. written[q.what])>>)
    /\ UNCHANGED <<store, cancels>>

\* startRun stores the message and the run and begins to execute it before it
\* returns the run as it was created; without a key to wait for the run is
\* already running when the reply is posted.
StartRun(q, keyless) ==
    LET r == q.what
        c == ConversationOf[r]
        reached == IF keyless THEN "running" ELSE "queued"
    IN
    /\ q.kind = "start" /\ OpenRunOf(c) = {} /\ MayWrite(c, 1)
    /\ status' = [status EXCEPT ![r] = reached]
    /\ created' = Append(created, r)
    /\ written' = [written EXCEPT ![c] = @ + 1]
    /\ Answer(q, <<Status(r, "queued"), Message(c, written[c] + 1, "user")>>
                   \o (IF keyless THEN <<Status(r, "running")>> ELSE <<>>),
              <<Reply("started", r, "queued")>>)
    /\ UNCHANGED <<pending, cancels>>

\* The run that waits for input takes the text as its answer and goes on
\* before the reply, read before it went on, is posted.
ProvideRunInput(q) ==
    LET c == ConversationOf[q.what] IN
    /\ q.kind = "start" /\ MayWrite(c, 1)
    /\ \E r \in OpenRunOf(c) :
         /\ status[r] = "waiting-input"
         /\ status' = [status EXCEPT ![r] = "running"]
         /\ written' = [written EXCEPT ![c] = @ + 1]
         /\ Answer(q, <<Message(c, written[c] + 1, "user"), Status(r, "running")>>,
                   <<Reply("started", r, "waiting-input")>>)
    /\ UNCHANGED <<created, pending, cancels>>

Refuse(q) ==
    LET c == ConversationOf[q.what] IN
    /\ q.kind = "start"
    /\ \E r \in OpenRunOf(c) : status[r] /= "waiting-input"
    /\ Answer(q, <<>>, <<Reply("refused", q.what, TRUE)>>)
    /\ UNCHANGED <<store, cancels>>

CancelRun(q) ==
    /\ q.kind = "cancel"
    /\ IF status[q.what] = "ended"
       THEN /\ Answer(q, <<>>, <<Reply("done", q.what, TRUE)>>)
            /\ UNCHANGED <<status, cancels>>
       ELSE /\ status' = [status EXCEPT ![q.what] = "cancelling"]
            /\ cancels' = IF q.mine THEN cancels \cup {q.what} ELSE cancels
            /\ Publish(IF status[q.what] = "cancelling"
                       THEN <<>> ELSE <<Status(q.what, "cancelling")>>)
    /\ UNCHANGED <<created, written, pending>>

ResolveApproval(q) ==
    LET goesOn == status[q.what] = "waiting-approval" IN
    /\ q.kind = "approve"
    /\ pending' = pending \ {q.what}
    /\ IF q.what \in pending
       THEN /\ status' = IF goesOn THEN [status EXCEPT ![q.what] = "running"] ELSE status
            /\ Answer(q, IF goesOn THEN <<Status(q.what, "running")>> ELSE <<>>,
                      <<Reply("done", q.what, TRUE)>>)
       ELSE UNCHANGED <<status, toPage>>
    /\ UNCHANGED <<created, written, cancels>>

Handle ==
    /\ host /= "down" /\ toHost /= <<>>
    /\ toHost' = Tail(toHost)
    /\ \/ HandleSnapshot(Head(toHost)) \/ HandleHistory(Head(toHost))
       \/ \E keyless \in BOOLEAN : StartRun(Head(toHost), keyless)
       \/ ProvideRunInput(Head(toHost)) \/ Refuse(Head(toHost))
       \/ CancelRun(Head(toHost)) \/ ResolveApproval(Head(toHost))
    /\ UNCHANGED <<host, crashes, page, open>>

\* The main process gives up waiting for a cancellation: the page learns of an
\* error and does not refresh.
CancelTimesOut(r) ==
    /\ r \in cancels
    /\ cancels' = cancels \ {r}
    /\ UNCHANGED <<store, host, crashes, wire, page, open>>

----------------------------------------------------------------------------
\* The host dies with what the main process has not received; every request is
\* rejected.  The next host marks its open runs as interrupted and says so, and
\* the page is reloaded once it is ready.

Crash ==
    /\ host = "up" /\ crashes < MaxCrashes
    /\ host' = "down"
    /\ crashes' = crashes + 1
    /\ \E n \in 0 .. Len(toPage) : toPage' = SubSeq(toPage, 1, n)
    /\ toHost' = <<>>
    /\ cancels' = {}
    /\ sending' = {}
    /\ UNCHANGED <<store, loaded, active, recent, approvals, shown, streaming, asked, open>>

\* The next host interrupts the open runs.  The results that its recovery adds to
\* their conversations are left out: only the page that is about to be replaced could
\* get them as events, and the page that is loaded next asks for its histories.
Restart ==
    /\ host = "down"
    /\ host' = "back"
    /\ status' = [r \in Runs |-> IF r \in OpenRuns THEN "ended" ELSE status[r]]
    /\ pending' = {}
    /\ Publish([i \in 1 .. Cardinality(OpenRuns) |-> Status(SetToSeq(OpenRuns)[i], "ended")])
    /\ UNCHANGED <<created, written, cancels, crashes, toHost, page, open>>

\* The page that has loaded again knows nothing of what was sent to the old
\* one, except its open threads.
Reload_Missing ==
    /\ host = "back"
    /\ host' = "up"
    /\ UNCHANGED <<store, cancels, crashes, wire, page, open>>

Reload ==
    /\ host = "back"
    /\ host' = "up"
    /\ loaded' = FALSE /\ active' = Empty /\ recent' = <<>> /\ approvals' = {}
    /\ shown' = Empty /\ streaming' = {} /\ asked' = {} /\ sending' = {}
    /\ toPage' = <<>>
    /\ toHost' = [i \in DOMAIN toHost |-> [toHost[i] EXCEPT !.mine = FALSE]]
                   \o <<Ask("snapshot", "all")>>
    /\ cancels' = {}
    /\ UNCHANGED <<store, crashes, open>>

----------------------------------------------------------------------------
\* The page applies an event.

ApplyDelta(e) ==
    /\ streaming' = streaming \cup {e.conversation}
    /\ UNCHANGED <<loaded, active, recent, approvals, shown, asked, sending, toHost>>

Entry(c) == IF c \in DOMAIN shown THEN shown[c] ELSE {}

Show(c, numbers) ==
    shown' = [d \in DOMAIN shown \cup {c} |-> IF d = c THEN Entry(c) \cup numbers ELSE shown[d]]

ApplyMessage(e) ==
    /\ Show(e.conversation, {e.sequence})
    /\ streaming' = IF e.role = "assistant" THEN streaming \ {e.conversation} ELSE streaming
    /\ UNCHANGED <<loaded, active, recent, approvals, asked, sending, toHost>>

ApplyApproval(e) ==
    /\ approvals' = IF loaded THEN approvals \cup {e.run} ELSE approvals
    /\ UNCHANGED <<loaded, active, recent, shown, streaming, asked, sending, toHost>>

\* A run-status event of a run the page does not know is ignored.
Known(r) == loaded /\ (r \in DOMAIN active \/ Contains(recent, r))
Without(r) == [q \in DOMAIN active \ {r} |-> active[q]]

ApplyStatus_KeepsApprovals(e) ==
    /\ IF e.status = "ended" /\ Known(e.run)
       THEN /\ active' = Without(e.run)
            /\ recent' = <<e.run>> \o Remove(recent, e.run)
       ELSE /\ active' = [r \in DOMAIN active |-> IF r = e.run THEN e.status ELSE active[r]]
            /\ UNCHANGED recent
    /\ streaming' = IF e.status = "ended"
                    THEN streaming \ {ConversationOf[e.run]} ELSE streaming
    /\ UNCHANGED <<loaded, approvals, shown, asked, sending, toHost>>

ApplyStatus(e) ==
    /\ IF e.status = "ended" /\ Known(e.run)
       THEN /\ active' = Without(e.run)
            /\ recent' = <<e.run>> \o Remove(recent, e.run)
            /\ approvals' = approvals \ {e.run}
       ELSE /\ active' = [r \in DOMAIN active |-> IF r = e.run THEN e.status ELSE active[r]]
            /\ UNCHANGED <<recent, approvals>>
    /\ streaming' = IF e.status = "ended"
                    THEN streaming \ {ConversationOf[e.run]} ELSE streaming
    /\ UNCHANGED <<loaded, shown, asked, sending, toHost>>

\* The page takes a reply: a snapshot replaces all it knew of the runs.
TakeSnapshot(e) ==
    /\ loaded' = TRUE
    /\ active' = e.value.active
    /\ recent' = e.value.recent
    /\ approvals' = e.value.approvals
    /\ UNCHANGED <<shown, streaming, asked, sending, toHost>>

TakeRun(e) ==
    /\ active' = IF loaded THEN [r \in DOMAIN active \cup {e.what} |->
                                   IF r = e.what THEN e.value ELSE active[r]]
                            ELSE active
    /\ sending' = sending \ {ConversationOf[e.what]}
    /\ UNCHANGED <<loaded, recent, approvals, shown, streaming, asked, toHost>>

TakeRefusal(e) ==
    /\ sending' = sending \ {ConversationOf[e.what]}
    /\ UNCHANGED <<loaded, active, recent, approvals, shown, streaming, asked, toHost>>

TakeHistory_KeepsEntry(e) ==
    /\ shown' = shown @@ (e.what :> e.value)
    /\ UNCHANGED <<loaded, active, recent, approvals, streaming, asked, sending, toHost>>

TakeHistory(e) ==
    /\ Show(e.what, e.value)
    /\ UNCHANGED <<loaded, active, recent, approvals, streaming, asked, sending, toHost>>

\* After a cancellation or a decision the page refreshes.
TakeDone(e) ==
    /\ toHost' = IF host = "down" THEN toHost ELSE Append(toHost, Ask("snapshot", "all"))
    /\ UNCHANGED page

Apply(e) ==
    CASE e.type = "assistant-delta"   -> ApplyDelta(e)
      [] e.type = "message-created"   -> ApplyMessage(e)
      [] e.type = "approval-required" -> ApplyApproval(e)
      [] e.type = "run-status"        -> ApplyStatus(e)
      [] e.type = "snapshot"          -> TakeSnapshot(e)
      [] e.type = "started"           -> TakeRun(e)
      [] e.type = "refused"           -> TakeRefusal(e)
      [] e.type = "history"           -> TakeHistory(e)
      [] e.type = "done"              -> TakeDone(e)

Deliver ==
    /\ toPage /= <<>>
    /\ toPage' = Tail(toPage)
    /\ Apply(Head(toPage))
    /\ UNCHANGED <<store, cancels, host, crashes, open>>

----------------------------------------------------------------------------
\* The page asks.

Request(q) ==
    /\ host /= "down" /\ Len(toHost) + Len(toPage) < MaxRequests
    /\ toHost' = Append(toHost, q)
    /\ UNCHANGED <<store, cancels, host, crashes, toPage, loaded, active, recent, approvals,
                   shown, streaming, open>>

\* The effect that loads an open thread skips the threads that have messages.
Unloaded == IF loaded THEN open \ (DOMAIN shown \cup asked) ELSE {}

LoadThread(c) ==
    /\ c \in Unloaded
    /\ Request(Ask("history", c))
    /\ asked' = asked \cup {c}
    /\ UNCHANGED sending

\* The composer of an open thread sends unless a run is shown that does not
\* wait for input; so does Retry.
Send(r) ==
    LET c == ConversationOf[r] IN
    /\ loaded /\ c \in open \ sending /\ status[r] = "none"
    /\ \A q \in DOMAIN active : ConversationOf[q] = c => active[q] = "waiting-input"
    /\ \A i \in DOMAIN toHost : toHost[i].what /= r
    /\ MayWrite(c, 1)
    /\ Request(Ask("start", r))
    /\ sending' = sending \cup {c}
    /\ UNCHANGED asked

\* The stop button takes the place of the send button.
Cancel(r) ==
    /\ r \in DOMAIN active \ cancels /\ ConversationOf[r] \in open  \* bound: one at a time
    /\ active[r] /= "waiting-input"
    /\ Request(Ask("cancel", r))
    /\ UNCHANGED <<asked, sending>>

Decide(r) ==
    /\ r \in approvals \cap DOMAIN active /\ ConversationOf[r] \in open
    /\ Request(Ask("approve", r))
    /\ UNCHANGED <<asked, sending>>

\* Opening a thread adds it; selecting another project closes all but one.
OpenThread(c) ==
    /\ loaded
    /\ open' \in {open \cup {c}, open \cap {c}, open \ {c}} \ {open}
    /\ UNCHANGED <<store, cancels, host, crashes, wire, page>>

Next ==
    \/ \E r \in Runs :
         \/ Begin(r) \/ Delta(r) \/ AskApproval(r) \/ AskInput(r)
         \/ \E role \in {"assistant", "tool"} : Say(r, role)
         \/ \E before, after \in BOOLEAN : End(r, before, after)
         \/ CancelTimesOut(r)
         \/ Send(r) \/ Cancel(r) \/ Decide(r)
    \/ \E c \in Conversations : LoadThread(c) \/ OpenThread(c)
    \/ Handle \/ Deliver \/ Crash \/ Restart \/ Reload

Spec == Init /\ [][Next]_vars

\* The event loops of the three processes go on, and a host that died is forked
\* anew (HostSupervisor); runs and users may take for ever.
Fairness == WF_vars(Handle) /\ WF_vars(Deliver) /\ WF_vars(Restart) /\ WF_vars(Reload)

FairSpec == Spec /\ Fairness

----------------------------------------------------------------------------
\* Nothing is under way between the page and the host.
Quiet == host = "up" /\ loaded /\ toPage = <<>> /\ toHost = <<>>

FirstOf(runs, c) == SelectSeq(runs, LAMBDA r : ConversationOf[r] = c)

\* At rest the page shows exactly the runs that are open and the approvals that
\* are pending; what waits for the user is shown as waiting; a thread without a
\* run shows no streamed text that never ends.  Events of runs the page does not
\* know yet are dropped, snapshots replace everything, and a run may end while
\* its reply is on its way.
ViewIsCurrent ==
    Quiet =>
      /\ DOMAIN active = OpenRuns
      /\ approvals = pending
      /\ \A r \in OpenRuns : status[r] \in Waiting => active[r] = status[r]
      /\ \A c \in Conversations : OpenRunOf(c) = {} => c \notin streaming

\* At rest a thread whose messages were asked for shows every message of the
\* conversation, whatever was written while the history was on its way.
HistoryIsWhole ==
    Quiet => \A c \in asked \cap DOMAIN shown : shown[c] = 1 .. written[c]

\* At rest Retry, in a thread without a run, is about this run only if it was the
\* last one: the page puts a run that ends before the others, and a snapshot
\* lists them anew.
IsLastIfRetried(r) ==
    LET c == ConversationOf[r]
        mine == FirstOf(recent, c)
    IN  Quiet /\ OpenRunOf(c) = {} /\ mine /= <<>> /\ Head(mine) = r
          => r = Last(FirstOf(created, c))

\* A run that has ended leaves the active runs of the page, also when the host
\* died with the event that said so, and never stands before a later one.
EndedRunIsLeft ==
    \A r \in Runs : /\ status[r] = "ended" ~> r \notin DOMAIN active
                    /\ []IsLastIfRetried(r)
==============================================================================
