-------------------------------- MODULE ViewInv --------------------------------
(***************************************************************************)
(* What the page will show once it has taken what is on its way to it.     *)
(* The property is cut into claims, each about one run or thread; of an    *)
(* event or a reply one says whether it makes a claim true, makes it       *)
(* false, or leaves it, and the last one that does not leave it decides.   *)
(***************************************************************************)
EXTENDS RendererInv

Claims ==
    [about : {"shown", "hidden", "asked", "unasked"} \cup Waiting, what : Runs] \cup
    [about : {"still"}, what : Conversations]

\* The claim of the database, and of the page.
Truth(k) ==
    CASE k.about = "shown"   -> k.what \in OpenRuns
      [] k.about = "hidden"  -> k.what \notin OpenRuns
      [] k.about = "asked"   -> k.what \in pending
      [] k.about = "unasked" -> k.what \notin pending
      [] k.about = "still"   -> OpenRunOf(k.what) = {}
      [] OTHER               -> status[k.what] = k.about

Now(k) ==
    CASE k.about = "shown"   -> k.what \in DOMAIN active
      [] k.about = "hidden"  -> k.what \notin DOMAIN active
      [] k.about = "asked"   -> k.what \in approvals
      [] k.about = "unasked" -> k.what \notin approvals
      [] k.about = "still"   -> k.what \notin streaming
      [] OTHER               -> k.what \in DOMAIN active /\ active[k.what] = k.about

\* What an event makes of runs and approvals.
Brought(e) ==
    IF e.type = "snapshot" THEN DOMAIN e.value.active
    ELSE IF e.type = "started" THEN {e.what} ELSE {}
Ends(e, r) == e.type = "run-status" /\ e.run = r /\ e.status = "ended"
Hides(e, r) == Ends(e, r) \/ (e.type = "snapshot" /\ r \notin DOMAIN e.value.active)

AsksFor(e, r) ==
    \/ e.type = "snapshot" /\ r \in e.value.approvals
    \/ e.type = "approval-required" /\ e.run = r
Settles(e, r) == Ends(e, r) \/ (e.type = "snapshot" /\ r \notin e.value.approvals)

\* The status that an event gives a run.
Gives(e, r, s) ==
    \/ e.type = "snapshot" /\ r \in DOMAIN e.value.active /\ e.value.active[r] = s
    \/ e.type = "started" /\ e.what = r /\ e.value = s
    \/ e.type = "run-status" /\ e.run = r /\ e.status = s
Takes(e, r, s) ==
    \/ e.type = "snapshot" /\ (r \in DOMAIN e.value.active => e.value.active[r] /= s)
    \/ e.type = "started" /\ e.what = r /\ e.value /= s
    \/ e.type = "run-status" /\ e.run = r /\ e.status /= s

For(e, k) ==
    CASE k.about = "shown"   -> k.what \in Brought(e)
      [] k.about = "hidden"  -> Hides(e, k.what)
      [] k.about = "asked"   -> AsksFor(e, k.what)
      [] k.about = "unasked" -> Settles(e, k.what)
      [] k.about = "still"   -> \E r \in Runs : Ends(e, r) /\ ConversationOf[r] = k.what
      [] OTHER               -> Gives(e, k.what, k.about)

Against(e, k) ==
    CASE k.about = "shown"   -> Hides(e, k.what)
      [] k.about = "hidden"  -> k.what \in Brought(e)
      [] k.about = "asked"   -> Settles(e, k.what)
      [] k.about = "unasked" -> AsksFor(e, k.what)
      [] k.about = "still"   -> e.type = "assistant-delta" /\ e.conversation = k.what
      [] OTHER               -> Takes(e, k.what, k.about)

\* Events lead from a page of which the claim is so or not to one of which it is so.
Leads(events, k, was) ==
    \/ \E i \in DOMAIN events : /\ For(events[i], k)
                                /\ \A j \in DOMAIN events : Against(events[j], k) => j <= i
    \/ was /\ \A j \in DOMAIN events : ~Against(events[j], k)

\* The page has a snapshot, or will have one.
Informed == loaded \/ \E e \in Range(toPage) : e.type = "snapshot"

\* It is going to have another.
Refreshes ==
    \/ \E e \in Range(toPage) : e.type = "done"
    \/ \E q \in Range(toHost) : q.mine /\ q.kind = "snapshot"

Excused(k) == k.about /= "still" /\ (~Informed \/ (Refreshes /\ k.about \in {"asked", "unasked"}))

\* What is so of the database is so of the page, when it has taken everything.
ViewIsTold == host = "up" => \A k \in Claims : Excused(k) \/ (Truth(k) => Leads(toPage, k, Now(k)))

\* An event that changes a run on the page meets a page that shows the run, or
\* one without a snapshot yet.
Concerns(e) ==
    \/ e.type = "approval-required"
    \/ e.type = "run-status" /\ e.status \in Waiting

Meets(events, r) ==
    \/ ~loaded /\ \A e \in Range(events) : e.type /= "snapshot"
    \/ Leads(events, [about |-> "shown", what |-> r], r \in DOMAIN active)

EventsMeetTheirRun ==
    host = "up" => \A i \in DOMAIN toPage :
                     Concerns(toPage[i]) => Meets(SubSeq(toPage, 1, i - 1), toPage[i].run)

\* No approval is shown without its run.
ApprovalsAreOfRuns ==
    /\ pending \subseteq OpenRuns
    /\ \A e \in Range(toPage) : e.type = "snapshot" => e.value.approvals \subseteq DOMAIN e.value.active
    /\ host = "up" => approvals \subseteq DOMAIN active

\* What a page without a snapshot shows, and has not asked for.
PageIsBlank ==
    loaded \/ /\ DOMAIN active = {} /\ approvals = {}
              /\ \A e \in Range(toPage) : e.type /= "started"
              /\ \A q \in Range(toHost) : ~(q.mine /\ q.kind = "start")

\* Requests of a page that is gone come before those of the next one.
OldRequestsFirst ==
    /\ \A i, j \in DOMAIN toHost : i < j /\ toHost[i].mine => toHost[j].mine
    /\ Informed => \A q \in Range(toHost) : q.mine

Created == {r \in Runs : status[r] /= "none"}

\* The page knows, and asks to cancel, what was created.
RunsAreCreated ==
    /\ status \in [Runs -> {"none", "queued", "running", "cancelling", "ended"} \cup Waiting]
    /\ DOMAIN active \subseteq Created
    /\ \A e \in Range(toPage) : Brought(e) \subseteq Created
    /\ \A q \in Range(toHost) : q.kind \in {"cancel", "approve"} => q.what \in Created

ViewInv ==
    /\ RunsAreCreated
    /\ OldRequestsFirst
    /\ PageIsBlank
    /\ ApprovalsAreOfRuns
    /\ EventsMeetTheirRun
    /\ ViewIsTold
==============================================================================
