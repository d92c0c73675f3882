------------------------------- MODULE LayoutInv -------------------------------
(***************************************************************************)
(* Where a folder comes from: what each asynchronous function of the page  *)
(* is about, and what the recorded choice of the user stands for.  And how *)
(* the layout keeps to the threads that the page knows: what a function    *)
(* that opens a thread is about, and in which order snapshots arrive.      *)
(***************************************************************************)
EXTENDS PaneLayout

Steps == {"idle", "snapshot", "workspace", "conversation", "agent", "dialog", "orphaned",
          "chosen", "posted"}
Folder == Folders \cup {NoFolder}
Subjects == Nat \cup Folder \cup {Nothing}
Snapshots == [workspaces : Nat, threads : Nat] \cup {Nothing}
Replies == [call : Calls, next : {"snapshot", "conversation", "idle"},
            about : Subjects, shot : Snapshots]

TablesOK ==
    /\ folders \in Seq(Folder)
    /\ homes \in Seq(Nat) /\ threads \in Seq(Nat)
    /\ \A c \in DOMAIN threads : threads[c] \in DOMAIN folders
    /\ choices \in [Folders -> 0 .. MaxChoices]

\* Two calls ask for a workspace, with a folder or without; no reply makes one
\* ask for another.
CallsOK ==
    /\ call \in [Calls -> Steps]
    /\ subject \in [Calls -> Subjects]
    /\ mail \in Seq(Replies)
    /\ snapshot \in Snapshots
    /\ error \in BOOLEAN
    /\ \A k \in Calls : call[k] = "workspace" => subject[k] \in Folder
    /\ call["folder"] = "chosen" => subject["folder"] \in Folders

\* The choice that is recorded has not been used.
ChoiceIsUnused == \A f \in Folders : authorized = f => choices[f] > 0

FolderInv == TablesOK /\ CallsOK /\ ChoiceIsUnused /\ FoldersAreChosen

----------------------------------------------------------------------------
\* No thread is open twice or shown twice, and none is shown that is not open.
Layouts == [selected : Subjects, active : Nat \cup {Nothing}, open : Seq(Nat),
            panes : Seq(Nat), requested : Nat \ {0}]
Fits(l) ==
    /\ l \in Layouts
    /\ IsInjective(l.open) /\ IsInjective(l.panes)
    /\ ToSet(l.panes) \subseteq ToSet(l.open)
    /\ l.active \in IF l.open = <<>> THEN {Nothing} ELSE ToSet(l.open)

LayoutOK == Fits(layout) /\ capacity \in Nat \ {0}

\* Threads that the page may open exist.  The snapshot it has knows the open ones,
\* unless a refresh failed since it came.
ThreadsAreKnown ==
    /\ ToSet(layout.open) \subseteq 1 .. Len(threads)
    /\ snapshot /= Nothing =>
         /\ snapshot.threads <= Len(threads)
         /\ ~error => ToSet(layout.open) \subseteq 1 .. snapshot.threads

\* The calls that open a thread in the end, and the replies that a thread was
\* created.
ThreadCalls == {"conversation", "agent"}
IsCreated(m) == m.next = "snapshot" /\ m.call \in ThreadCalls
IsSnapshot(m) == m.next = "idle"

ThreadIsCreated ==
    \A k \in ThreadCalls :
      /\ call[k] /= "workspace"
      /\ call[k] = "snapshot" => subject[k] \in 1 .. Len(threads)

\* A snapshot on its way knows all threads that earlier ones know, and those that
\* are open or wait to be, and the workspaces of its threads.
ReplyIsSound(m) ==
    /\ IsSnapshot(m) =>
         /\ m.shot /= Nothing /\ m.shot.threads <= Len(threads)
         /\ \A c \in 1 .. m.shot.threads : threads[c] \in 1 .. m.shot.workspaces
         /\ snapshot /= Nothing => snapshot.threads <= m.shot.threads
         /\ ToSet(layout.open) \subseteq 1 .. m.shot.threads
         /\ \A k \in ThreadCalls : call[k] = "snapshot" => subject[k] <= m.shot.threads
         /\ m.call \in ThreadCalls => m.about \in 1 .. m.shot.threads
    /\ IsCreated(m) => m.about \in 1 .. Len(threads)

MailIsOrdered ==
    /\ \A i \in DOMAIN mail : ReplyIsSound(mail[i])
    /\ \A i, j \in DOMAIN mail :
         i < j /\ IsSnapshot(mail[j]) =>
           /\ IsSnapshot(mail[i]) => mail[i].shot.threads <= mail[j].shot.threads
           /\ IsCreated(mail[i]) => mail[i].about <= mail[j].shot.threads

PageOK == LayoutOK /\ ThreadsAreKnown /\ ThreadIsCreated /\ MailIsOrdered
==============================================================================
