----------------------------- MODULE CredentialsInv ----------------------------
(***************************************************************************)
(* The inductive invariant behind the safety properties of Credentials:    *)
(* what the requests and answers that are on their way mean for the rows   *)
(* and the file.                                                           *)
(***************************************************************************)
EXTENDS Credentials

Waits == {"putting", "dropping", "undoing", "clearing", "deleting", "reading"}
Removing == {"dropping", "clearing", "deleting"}
Requests == {Request(w, r, o) : w \in Waits, r \in Operations, o \in Operations}
Replies == [from : Operations, wait : Waits, answer : {"ok", "null", "failed"}]

\* Requests in the queue, requests that the vault works on, and answers.
Queued == Range(queue)
Worked == {j.request : j \in jobs}
Waiting == Queued \cup Worked
Answered == Range(answers)

StateTypes ==
    /\ row \in [Providers -> Operations \cup {Absent, NoKey}]
    /\ inUse \in SUBSET Providers
    /\ step \in [Operations -> Waits \cup {"new", "over"}]
    /\ provider \in [Operations -> Providers \cup {Absent}]
    /\ existing \in [Operations -> Operations \cup {Absent, NoKey}]
    /\ result \in [Operations -> {"none", "ok", "failed", "key", "null"}]
    /\ vault \in SUBSET Operations
    /\ spoiled \in SUBSET Providers
    /\ abandoned \in SUBSET Operations

MessageTypes ==
    /\ queue \in Seq(Requests)
    /\ jobs \in SUBSET [request : Requests, file : SUBSET Operations]
    /\ answers \in Seq(Replies)

TypeOK == StateTypes /\ MessageTypes

\* A key that a row names, or that an operation found there, was put by an
\* operation on that profile which is past that.
Origin(r, p) == r \in Operations => provider[r] = p /\ step[r] \notin {"new", "putting"}

RowsAndSteps ==
    /\ \A p \in Providers : Origin(row[p], p)
    /\ \A p \in inUse : row[p] # Absent
    /\ \A o \in Operations :
        /\ step[o] # "new" => provider[o] \in Providers
        /\ Origin(existing[o], provider[o]) /\ existing[o] # o
        /\ step[o] \in Removing => existing[o] \in Operations
        /\ step[o] = "new" => o \notin vault \cup abandoned /\ result[o] = "none"

\* The vault works on one request at a time, on the file as it is.
OneJob == \A j \in jobs : j.file = vault /\ \A k \in jobs : k = j

\* An operation sends a request once per wait, and moves on when it is
\* answered, times out or dies.
Same(x, y) == x.from = y.from /\ x.wait = y.wait
OnceOnly(s) == \A i, k \in DOMAIN s : Same(s[i], s[k]) => i = k
Sent(x) ==
    \/ x.wait = step[x.from] \/ step[x.from] = "over"
    \/ x.wait = "dropping" /\ step[x.from] = "undoing"

OneEach == OnceOnly(queue) /\ OnceOnly(answers)

MessagesOfStep ==
    /\ \A x \in Queued, y \in Worked : ~Same(x, y)
    /\ \A x \in Waiting, a \in Answered : ~Same(x, a)
    /\ \A x \in Waiting \cup Answered : Sent(x)
    /\ \A x \in Waiting :
        x.reference = IF x.wait \in {"putting", "undoing"} THEN x.from ELSE existing[x.from]

\* What is put was not there before, and nobody knows of it yet.
PutsOfStep ==
    \A x \in Waiting :
        x.wait = "putting" =>
            /\ x.from \notin vault
            /\ \A p \in Providers : row[p] # x.from
            /\ \A o \in Operations : existing[o] # x.from
            /\ step[x.from] = "putting" \/ x.from \in abandoned \/ provider[x.from] \in spoiled

AnsweredPuts ==
    \A a \in Answered :
        /\ a.wait = "putting" /\ a.answer = "failed" => a.from \notin vault
        /\ a.wait = "putting" /\ a.answer = "ok" /\ step[a.from] = "putting" => a.from \in vault

\* One operation at a time changes an unspoiled profile, and where it is says
\* what is in the row.
Changing(o) == step[o] \notin {"new", "reading", "over"}

RowOfStep ==
    \A o \in Operations :
        Changing(o) /\ provider[o] \notin spoiled =>
            /\ \A q \in Operations : Changing(q) /\ provider[q] = provider[o] => q = o
            /\ row[provider[o]] = CASE step[o] = "dropping" -> o
                                    [] step[o] = "clearing" -> NoKey
                                    [] step[o] = "deleting" -> Absent
                                    [] OTHER -> existing[o]

\* A key is removed once its row does not name it any more, and by one
\* operation; it is in the file until that has been done.
RemovalsOfRow ==
    \A x \in Waiting :
        x.type = "delete" /\ provider[x.reference] \notin spoiled =>
            row[provider[x.reference]] # x.reference

RemovalsOfStep ==
    \A o \in Operations :
        step[o] \in Removing /\ provider[o] \notin spoiled =>
            /\ \A x \in Waiting : x.type = "delete" /\ x.reference = existing[o] => x.from = o
            /\ \/ existing[o] \in vault
               \/ [from |-> o, wait |-> step[o], answer |-> "ok"] \in Answered

AnsweredRemovals ==
    \A a \in Answered :
        a.answer = "ok" /\ a.wait = step[a.from] =>
            /\ a.wait \in Removing => existing[a.from] \notin vault
            /\ a.wait = "undoing" => a.from \notin vault

\* A key that is asked for is there until it is read: its removal comes later.
Ahead(q, r) ==
    \A i, k \in DOMAIN q :
        /\ q[i].type = "get" /\ q[i].reference = r
        /\ q[k].type = "delete" /\ q[k].reference = r
        => i < k

InOrder == \A r \in Operations : provider[r] \notin spoiled => Ahead(queue, r)

ReadsOfStep ==
    /\ \A x \in Waiting :
        x.type = "get" /\ provider[x.reference] \notin spoiled => x.reference \in vault
    /\ \A x \in Queued, y \in Worked :
        x.type = "get" /\ y.type = "delete" /\ provider[x.reference] \notin spoiled =>
            x.reference # y.reference

AnsweredReads ==
    \A a \in Answered :
        a.answer = "null" => a.wait = "reading" /\ provider[a.from] \in spoiled

\* Whoever is about to remove a key that no row names.
KeysOfStep ==
    \A o \in vault :
        \/ row[provider[o]] = o
        \/ provider[o] \in spoiled
        \/ o \in abandoned \/ step[o] \in {"putting", "undoing"}
        \/ \E q \in Operations :
             existing[q] = o /\ (q \in abandoned \/ step[q] \in Removing)

CredInv ==
    /\ TypeOK
    /\ RowsAndSteps
    /\ OneJob
    /\ OneEach
    /\ MessagesOfStep
    /\ PutsOfStep
    /\ AnsweredPuts
    /\ RowOfStep
    /\ RemovalsOfRow
    /\ RemovalsOfStep
    /\ AnsweredRemovals
    /\ InOrder
    /\ ReadsOfStep
    /\ AnsweredReads
    /\ KeysOfStep
    /\ KeyIsThere
    /\ RunFindsItsKey
==============================================================================
