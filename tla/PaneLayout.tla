------------------------------ MODULE PaneLayout -------------------------------
(***************************************************************************)
(* Which workspace, threads and panes the window shows.  The layout        *)
(* outlives the page in localStorage and is corrected whenever a snapshot  *)
(* of the database arrives; creating a workspace or a thread takes several *)
(* requests, each followed by a refresh, while the user goes on clicking   *)
(* (a dialog may be closed while its request is under way).  Any request   *)
(* may be rejected, when its host dies or is too slow; a function whose    *)
(* refresh fails goes on without the snapshot.                             *)
(*                                                                         *)
(* Replies arrive in the order the host posts them.  Left out: sidebar and *)
(* professional mode, approvals' focus (no component sets it), messages.   *)
(* Definitions called X_Something are X with a plausible bug and are not   *)
(* part of the model.                                                      *)
(***************************************************************************)
EXTENDS Workspaces, Selection

CONSTANTS
    Nothing,   \* null
    MaxPanes,  \* bound: panes asked for or fitting the window (4 in the code)
    MaxCalls   \* bound: asynchronous functions at a time

Calls == {"folder", "workspace", "conversation", "agent", "refresh"}

ASSUME LayoutAssumption ==
    /\ Nothing \notin Nat \cup [workspaces : Nat, threads : Nat]
    /\ {MaxPanes, MaxCalls} \subseteq Nat \ {0}

VARIABLES
    call,     \* where each asynchronous function of the page is
    subject,  \* what it is about: a folder, a workspace or a thread
    mail,     \* replies on their way to the page
    late,     \* calls that were given up and that the host may still serve
    snapshot, \* the page's lists of workspaces and threads, or Nothing
    error,    \* whether the page says that its last refresh failed
    layout,   \* PersistedUiState
    capacity  \* how many panes fit the window

calls == <<call, subject, mail, late>>
vars == <<tables, authorizer, calls, snapshot, error, layout, capacity>>

Init ==
    /\ StoreInit
    /\ call = [k \in Calls |-> IF k = "refresh" THEN "snapshot" ELSE "idle"]
    /\ subject = [k \in Calls |-> Nothing]
    /\ mail = <<>> /\ late = {}
    /\ snapshot = Nothing /\ error = FALSE
    /\ layout = [selected |-> Nothing, active |-> Nothing, open |-> <<>>, panes |-> <<>>,
                 requested |-> 1]
    /\ capacity \in 1 .. MaxPanes

----------------------------------------------------------------------------
\* The pure functions of the layout.

Smaller(m, n) == IF m < n THEN m ELSE n
Larger(m, n) == IF m < n THEN n ELSE m

\* Open threads, the first in their panes, then others in the order of opening.
NormalizePaneIds(panes, open, count) ==
    LET target == Smaller(Larger(1, count), Larger(1, Len(open)))
        new == {i \in DOMAIN panes :
                  Contains(open, panes[i]) /\ \A j \in 1 .. i - 1 : panes[j] /= panes[i]}
        first == Keep([i \in DOMAIN panes |-> i], new)
        unique == [i \in DOMAIN first |-> panes[first[i]]]
        filled == unique \o Keep(open, ToSet(open) \ ToSet(unique))
    IN SubSeq(filled, 1, Smaller(target, Len(filled)))

AssignToPane_Last(panes, id, index) == Append(Keep(panes, ToSet(panes) \ {id}), id)

AssignToPane(panes, id, index) ==
    LET others == Keep(panes, ToSet(panes) \ {id})
    IN InsertAt(others, Smaller(index, Len(others)) + 1, id)

\* A snapshot is the numbers of workspaces and threads it lists; the first of a
\* list is any of them.
ThreadsOf(shot, w) == {c \in 1 .. shot.threads : threads[c] = w}
FirstOf(list) == IF list = {} THEN {Nothing} ELSE list
Only(c) == IF c = Nothing THEN <<>> ELSE <<c>>

\* The first thread of the workspace, alone.
SelectWorkspace(l, shot, w) ==
    {[l EXCEPT !.selected = w, !.active = c, !.open = Only(c), !.panes = Only(c)] :
        c \in FirstOf(IF shot = Nothing THEN {} ELSE ThreadsOf(shot, w))}

\* The thread takes the place of the active pane, which moves to the right.
ActivateConversation(l, c) ==
    LET open == IF Contains(l.open, c) THEN l.open ELSE Append(l.open, c)
        at == SelectInSeq(l.panes, LAMBDA id : id = l.active)
        index == Smaller(IF at = 0 THEN 0 ELSE at - 1, l.requested - 1)
    IN [l EXCEPT !.selected = threads[c], !.active = c, !.open = open,
                 !.panes = AssignToPane(NormalizePaneIds(l.panes, open, l.requested), c, index)]

\* What a new snapshot leaves of the layout: the threads of one workspace.
SelectedIn(l, shot) ==
    IF l.selected \in 1 .. shot.workspaces THEN {l.selected} ELSE FirstOf(1 .. shot.workspaces)

OpenIn_Stale(l, shot, w) ==
    LET known == IF snapshot = Nothing THEN shot ELSE snapshot
        kept == Keep(l.open, ThreadsOf(known, w))
    IN IF kept /= <<>> THEN {kept} ELSE {Only(c) : c \in FirstOf(ThreadsOf(shot, w))}

OpenIn(l, shot, w) ==
    LET kept == Keep(l.open, ThreadsOf(shot, w))
    IN IF kept /= <<>> THEN {kept} ELSE {Only(c) : c \in FirstOf(ThreadsOf(shot, w))}

NormalizeUi_KeepsActive(l, shot) ==
    UNION {{[l EXCEPT !.selected = w, !.open = open,
                      !.panes = NormalizePaneIds(l.panes, open, l.requested)] :
               open \in OpenIn(l, shot, w)} : w \in SelectedIn(l, shot)}

NormalizeUi(l, shot) ==
    UNION {{[l EXCEPT !.selected = w,
                      !.active = CASE Contains(open, l.active) -> l.active
                                   [] open = <<>>              -> Nothing
                                   [] OTHER                    -> Head(open),
                      !.open = open,
                      !.panes = NormalizePaneIds(l.panes, open, l.requested)] :
               open \in OpenIn(l, shot, w)} : w \in SelectedIn(l, shot)}

\* What the window shows of a layout, with room for so many panes.
OpenThreads(l, shot) == IF shot = Nothing THEN <<>> ELSE Keep(l.open, 1 .. shot.threads)
MaxSplitCount(l, shot, room) == Smaller(room, Larger(1, Len(OpenThreads(l, shot))))
PaneIds(l, shot, room) ==
    NormalizePaneIds(l.panes, l.open, Smaller(l.requested, MaxSplitCount(l, shot, room)))
VisibleThreads(l, shot, room) == Keep(PaneIds(l, shot, room), ToSet(OpenThreads(l, shot)))
SelectedWorkspaces == IF snapshot = Nothing THEN {} ELSE SelectedIn(layout, snapshot)

----------------------------------------------------------------------------
\* The user's clicks, on a page that has a snapshot.

Click(layouts) ==
    /\ snapshot /= Nothing
    /\ layout' \in layouts
    /\ UNCHANGED <<tables, authorizer, calls, snapshot, error, capacity>>

SelectProject(w) ==
    /\ Click(SelectWorkspace(layout, snapshot, w))
    /\ w <= snapshot.workspaces

\* The sidebar lists the threads of the selected workspace.
OpenThread(c) ==
    /\ Click({ActivateConversation(layout, c)})
    /\ c <= snapshot.threads /\ threads[c] \in SelectedWorkspaces

SelectPane(i) ==
    LET panes == NormalizePaneIds(layout.panes, layout.open, layout.requested) IN
    /\ i \in DOMAIN VisibleThreads(layout, snapshot, capacity) \cap DOMAIN panes
    /\ Click({[layout EXCEPT !.active = panes[i]]})

SetRequestedSplitCount(n) ==
    /\ n \in 1 .. MaxSplitCount(layout, snapshot, capacity)
    /\ Click({[layout EXCEPT !.requested = n,
                             !.panes = NormalizePaneIds(layout.panes, layout.open, n)]})

Resize(n) ==
    /\ capacity' = n
    /\ UNCHANGED <<tables, authorizer, calls, snapshot, error, layout>>

\* The host was restarted and is ready: the page forgets all but the layout.  A
\* dialog of the main process stays open.
Reload ==
    /\ call' = [k \in Calls |-> CASE k = "refresh"                      -> "snapshot"
                                  [] call[k] \in {"dialog", "orphaned"} -> "orphaned"
                                  [] OTHER                             -> "idle"]
    /\ subject' = [k \in Calls |-> Nothing]
    /\ mail' = <<>> /\ late' = {}
    /\ snapshot' = Nothing /\ error' = FALSE
    /\ UNCHANGED <<tables, authorizer, layout, capacity>>

----------------------------------------------------------------------------
\* Asynchronous functions: a call goes from "idle" to what it asks the main
\* process or the host for, and back.

Goes(k, step, about) ==
    /\ call' = [call EXCEPT ![k] = step]
    /\ subject' = [subject EXCEPT ![k] = about]

\* The page shows nothing to click at until its first refresh is over.
Ask(k, step, about) ==
    /\ snapshot /= Nothing \/ error
    /\ call[k] = "idle"
    /\ Cardinality({j \in Calls : call[j] /= "idle"}) < MaxCalls
    /\ Goes(k, step, about)
    /\ UNCHANGED <<tables, mail, late, snapshot, error, layout, capacity>>

NewRefresh == Ask("refresh", "snapshot", Nothing) /\ UNCHANGED authorizer
NewWorkspace == Ask("workspace", "workspace", NoFolder) /\ UNCHANGED authorizer
NewFolder == Ask("folder", "dialog", Nothing) /\ Revoke
\* The page asks for a folder without a dialog: the handler trusts no page.
NewRequest == \E f \in Folders : Ask("folder", "chosen", f) /\ UNCHANGED authorizer
NewThread(k) ==
    /\ \E w \in SelectedWorkspaces \ {Nothing} : Ask(k, k, w)
    /\ UNCHANGED authorizer

\* The dialog closes with or without a folder; the page that asked sends the
\* path back.
DialogEnds ==
    /\ call["folder"] \in {"dialog", "orphaned"}
    /\ \/ \E f \in Folders :
            /\ Authorize(f)
            /\ IF call["folder"] = "dialog" THEN Goes("folder", "chosen", f)
                                           ELSE Goes("folder", "idle", Nothing)
       \/ Goes("folder", "idle", Nothing) /\ UNCHANGED authorizer
    /\ UNCHANGED <<tables, mail, late, snapshot, error, layout, capacity>>

\* createWorkspace with a folder: the main process takes the authorization and
\* looks at the path again, or refuses.
TakeChoice ==
    /\ call["folder"] = "chosen"
    /\ \/ Consume(subject["folder"]) /\ Goes("folder", "workspace", subject["folder"])
       \/ Revoke /\ Goes("folder", "idle", Nothing)
    /\ UNCHANGED <<tables, mail, late, snapshot, error, layout, capacity>>

\* The host answers a call; an answer carries what the page goes on with.  To a
\* request that was given up it means nothing.
Post(k, next, about, shot) ==
    /\ IF k \in late THEN Goes(k, "idle", Nothing) /\ UNCHANGED mail
       ELSE /\ Goes(k, "posted", subject[k])
            /\ mail' = Append(mail, [call |-> k, next |-> next, about |-> about, shot |-> shot])
    /\ late' = late \ {k}
    /\ UNCHANGED <<authorizer, snapshot, error, layout, capacity>>

AnswerWorkspace(k) ==
    /\ call[k] = "workspace"
    /\ \E w \in 1 .. MaxWorkspaces :
         CreateWorkspace(subject[k], w) /\ Post(k, "snapshot", w, Nothing)

\* createAgentConversation asks for the agent first.
AnswerAgent(k) ==
    /\ call[k] = "agent"
    /\ Len(homes) < MaxWorkspaces
    /\ CreateAgent(subject[k])
    /\ Post(k, "conversation", subject[k], Nothing)

AnswerConversation(k) ==
    /\ call[k] = "conversation"
    /\ \E agent \in DOMAIN homes : CreateConversation(subject[k], agent)
    /\ Post(k, "snapshot", Len(threads) + 1, Nothing)

AnswerSnapshot(k) ==
    /\ call[k] = "snapshot"
    /\ Post(k, "idle", subject[k], [workspaces |-> Len(folders), threads |-> Len(threads)])
    /\ UNCHANGED tables

Answer(k) == AnswerWorkspace(k) \/ AnswerAgent(k) \/ AnswerConversation(k) \/ AnswerSnapshot(k)

\* The last step of a call, on the layout that its refresh has corrected, or has
\* not if it failed.  A new workspace is selected from the lists of before the
\* refresh, in which it has no threads.
Finished(k, about, l) ==
    CASE k = "workspace" -> SelectWorkspace(l, snapshot, about)
      [] k = "folder" -> {[l EXCEPT !.selected = about]}
      [] k \in {"conversation", "agent"} -> {ActivateConversation(l, about)}
      [] k = "refresh" -> {l}

Receive ==
    /\ mail /= <<>>
    /\ mail' = Tail(mail)
    /\ LET m == Head(mail) IN
       /\ Goes(m.call, m.next, IF m.next = "idle" THEN Nothing ELSE m.about)
       /\ IF m.next = "idle"
          THEN /\ snapshot' = m.shot /\ error' = FALSE
               /\ \E l \in NormalizeUi(layout, m.shot) :
                    layout' \in Finished(m.call, m.about, l)
          ELSE UNCHANGED <<snapshot, error, layout>>
    /\ UNCHANGED <<tables, authorizer, late, capacity>>

\* A request is rejected: the host died, or did not answer in time and may serve
\* it later.  That ends the call, but refresh() keeps the failure to itself, and
\* the call it is a part of goes on with the lists it has.  (A request whose
\* reply is on its way is rejected before the host answers it: nothing that the
\* page sees tells the two apart.)
Fail_Silent(k) ==
    /\ call[k] = "snapshot"
    /\ layout' \in Finished(k, subject[k], layout)
    /\ Goes(k, "idle", Nothing)
    /\ UNCHANGED <<tables, authorizer, mail, late, snapshot, error, capacity>>

Fail(k) ==
    /\ k \notin late
    /\ \/ /\ call[k] = "snapshot"
          /\ error' = TRUE
          /\ layout' \in Finished(k, subject[k], layout)
          /\ Goes(k, "idle", Nothing) /\ UNCHANGED late
       \/ /\ call[k] \in {"workspace", "agent", "conversation"}
          /\ \/ Goes(k, "idle", Nothing) /\ UNCHANGED late
             \/ late' = late \cup {k} /\ UNCHANGED <<call, subject>>
          /\ UNCHANGED <<error, layout>>
    /\ UNCHANGED <<tables, authorizer, mail, snapshot, capacity>>

Next ==
    \/ \E w \in DOMAIN folders : SelectProject(w)
    \/ \E c \in DOMAIN threads : OpenThread(c)
    \/ \E n \in 1 .. MaxPanes : SelectPane(n) \/ SetRequestedSplitCount(n) \/ Resize(n)
    \/ NewRefresh \/ NewWorkspace \/ NewFolder \/ NewRequest
    \/ NewThread("conversation") \/ NewThread("agent") \/ DialogEnds \/ TakeChoice \/ Receive \/ Reload
    \/ Expire /\ UNCHANGED <<calls, snapshot, error, layout, capacity>>
    \/ \E k \in Calls : Answer(k) \/ Fail(k)

Spec == Init /\ [][Next]_vars

----------------------------------------------------------------------------
\* The layout fits what is open: the active thread is an open one, none is open
\* or shown twice; also when clicks, reloads, failures and replies to calls begun
\* elsewhere mix.  Unless the page says that its refresh failed, it knows every
\* open thread, and the panes show open threads, none of them empty while there
\* is one to show.  (After a refresh that failed, a thread may be the active one
\* and open that the page does not list and no pane shows.)
LayoutIsSound ==
    LET visible == VisibleThreads(layout, snapshot, capacity) IN
    /\ IF layout.open = <<>> THEN layout.active = Nothing
       ELSE Contains(layout.open, layout.active)
    /\ IsInjective(layout.open) /\ IsInjective(layout.panes)
    /\ snapshot /= Nothing /\ ~error =>
         /\ OpenThreads(layout, snapshot) = layout.open
         /\ visible = PaneIds(layout, snapshot, capacity)
         /\ Len(visible) = Smaller(Smaller(layout.requested, capacity), Len(layout.open))

\* The active thread of a layout is in a pane that the window shows.
Shows(l, shot, room) == Contains(VisibleThreads(l, shot, room), l.active)

\* The active thread has one of the panes asked for, in its own workspace.
HasPane ==
    /\ \E i \in DOMAIN layout.panes : i <= layout.requested /\ layout.panes[i] = layout.active
    /\ threads[layout.active] = layout.selected

\* If the window has room for the panes asked for, and the last refresh did not
\* fail, a thread that becomes the active one is shown in a pane, whichever panes
\* the layout has kept.  (Not so if a snapshot takes the active thread away: the
\* first open thread becomes the active one, and may be in no pane.)  And what
\* was opened while a refresh failed is not lost: the refresh that succeeds in
\* the end leaves the active thread the active one and shows it.
ActiveThreadIsShown ==
    [][ capacity >= layout.requested /\ ~error' =>
        /\ /\ layout'.active \notin {layout.active, Nothing}
           /\ mail' = mail \/ Contains(layout'.open, layout.active)
           => Shows(layout', snapshot', capacity')
        /\ error /\ snapshot' /= Nothing /\ Head(mail).call = "refresh" /\ HasPane
           => layout'.active = layout.active /\ Shows(layout', snapshot', capacity') ]_vars
==============================================================================
