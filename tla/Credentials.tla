----------------------------- MODULE Credentials -------------------------------
(***************************************************************************)
(* Provider profiles, whose rows the Agent host keeps, and their keys,     *)
(* which the main process keeps in an encrypted file.  Saving, clearing    *)
(* and deleting write both, one after the other, without a transaction;    *)
(* what fails half-way is taken back.  Runs and connection tests read a    *)
(* row and ask for its key.                                                *)
(*                                                                         *)
(* A key's reference is the operation that put it: references are never    *)
(* used twice.  Left out: encryption, the secrets themselves, the other    *)
(* fields of a profile and its validation.  Definitions called             *)
(* X_Something are X with a plausible bug and are not part of the model.   *)
(***************************************************************************)
EXTENDS Naturals, Sequences, SequencesExt, FiniteSets

CONSTANTS
    Providers, \* ids of provider profiles
    Operations,\* calls of the application's methods, and the references they put
    Absent,    \* the row of no profile
    NoKey      \* the apiKeyRef of a profile without a key

ASSUME CredentialsAssumption ==
    Absent \notin Operations /\ NoKey \notin Operations \cup {Absent}

VARIABLES
    row,      \* each profile's apiKeyRef
    inUse,    \* the profiles that agents refer to
    step,     \* where each operation is
    provider, \* the profile it is about
    existing, \* the row it has read
    result,   \* "ok" or "failed", of a read "key", "null" or "failed"
    queue,    \* requests on their way to the vault or in its operation queue
    jobs,     \* what the vault works on, with the file it has read
    vault,    \* the references in the file
    answers,  \* on their way back
    spoiled,  \* profiles with two operations at a time, or one that timed out
    abandoned \* operations that a crash or a second failure left unfinished

rows == <<row, inUse>>
ops == <<step, provider, existing, result>>
main == <<jobs, vault>>
vars == <<rows, ops, queue, main, answers, spoiled, abandoned>>

Init ==
    /\ row = [p \in Providers |-> Absent]
    /\ inUse = {}
    /\ step = [o \in Operations |-> "new"]
    /\ provider = [o \in Operations |-> Absent]
    /\ existing = [o \in Operations |-> Absent]
    /\ result = [o \in Operations |-> "none"]
    /\ queue = <<>>
    /\ jobs = {}
    /\ vault = {}
    /\ answers = <<>>
    /\ spoiled = {}
    /\ abandoned = {}

Active(o) == step[o] \notin {"new", "over"}
HasKey(p) == row[p] \in Operations

\* What o asks the vault for when it goes to wait at "wait": the answer must
\* find it there (#pending has the request until then).
Request(wait, reference, o) ==
    [type |-> CASE wait = "putting" -> "put" [] wait = "reading" -> "get" [] OTHER -> "delete",
     reference |-> reference, from |-> o, wait |-> wait]
Post(wait, reference, o) == queue' = Append(queue, Request(wait, reference, o))

\* saveProviderProfile of the store
WriteRow(p, reference) == row' = [row EXCEPT ![p] = reference] /\ UNCHANGED inUse

------------------------------------------------------------------------------
(* The beginning of an operation, up to its first wait.                    *)

\* o reads the row of p and goes on at "where".
Start(o, p, where) ==
    /\ step[o] = "new"
    /\ step' = [step EXCEPT ![o] = where]
    /\ provider' = [provider EXCEPT ![o] = p]
    /\ existing' = [existing EXCEPT ![o] = row[p]]
    /\ spoiled' = spoiled \cup
         {q \in {p} : where # "reading" /\
            \E other \in Operations \ {o} :
               provider[other] = p /\ step[other] \notin {"new", "reading", "over"}}
    /\ UNCHANGED <<main, answers, abandoned>>

\* saveProviderProfile with a key, of a profile that may not be there yet.
Save(o, p) ==
    /\ Start(o, p, "putting")
    /\ Post("putting", o, o)
    /\ UNCHANGED <<rows, result>>

\* Without a key: one statement.
Edit(o, p) ==
    /\ Start(o, p, "over")
    /\ WriteRow(p, IF HasKey(p) THEN row[p] ELSE NoKey)
    /\ result' = [result EXCEPT ![o] = "ok"]
    /\ UNCHANGED queue

\* With clearApiKey: the row first.
Clear_KeyFirst(o, p) ==
    /\ HasKey(p)
    /\ Start(o, p, "clearing")
    /\ Post("clearing", row[p], o)
    /\ UNCHANGED <<rows, result>>

Clear(o, p) ==
    /\ HasKey(p)
    /\ Start(o, p, "clearing")
    /\ Post("clearing", row[p], o)
    /\ WriteRow(p, NoKey)
    /\ UNCHANGED result

\* deleteProviderProfile; the foreign key keeps a profile that an agent uses.
Delete(o, p) ==
    /\ row[p] # Absent
    /\ p \notin inUse
    /\ WriteRow(p, Absent)
    /\ IF HasKey(p)
       THEN Start(o, p, "deleting") /\ Post("deleting", row[p], o) /\ UNCHANGED result
       ELSE Start(o, p, "over") /\ UNCHANGED queue /\ result' = [result EXCEPT ![o] = "ok"]

\* A run, or testProviderConnection: the row is read and its key asked for
\* before anything else happens.
AskKey(o, p) ==
    /\ HasKey(p)
    /\ Start(o, p, "reading")
    /\ Post("reading", row[p], o)
    /\ UNCHANGED <<rows, result>>

\* createAgent
CreateAgent(p) ==
    /\ row[p] # Absent
    /\ inUse' = inUse \cup {p}
    /\ UNCHANGED <<row, ops, queue, main, answers, spoiled, abandoned>>

------------------------------------------------------------------------------
(* The rest of an operation, once the vault has answered.                  *)

AwaitRemoval(o, wait, reference) ==
    /\ step' = [step EXCEPT ![o] = wait]
    /\ Post(wait, reference, o)
    /\ UNCHANGED result

End(o, how) ==
    /\ step' = [step EXCEPT ![o] = "over"]
    /\ result' = [result EXCEPT ![o] = how]
    /\ UNCHANGED queue

KeyPut_OldStays(o) == WriteRow(provider[o], o) /\ End(o, "ok")

\* The key is there: the row is written, or that fails and the key goes
\* again; then the key it replaces is removed.
KeyPut(o) ==
    \/ /\ WriteRow(provider[o], o)
       /\ IF existing[o] \in Operations
          THEN AwaitRemoval(o, "dropping", existing[o])
          ELSE End(o, "ok")
    \/ AwaitRemoval(o, "undoing", o) /\ UNCHANGED rows

\* The old key could not be removed: back to it, and the new one goes.
Rollback(o) ==
    /\ WriteRow(provider[o], existing[o])
    /\ AwaitRemoval(o, "undoing", o)

\* The row is restored as it was read.
Restore(o) == WriteRow(provider[o], existing[o]) /\ End(o, "failed")

\* Or the row cannot be written either: it stays, and so does the key that was to
\* be removed.
RollbackFails(o) ==
    /\ End(o, "failed") /\ UNCHANGED rows
    /\ abandoned' = abandoned \cup {o}

\* How the wait of o ends: "ok", "null" or "failed".
Continue(o, answer) ==
    /\ \/ /\ LET failed == answer # "ok" IN
             CASE step[o] = "reading" ->
                    End(o, IF failed THEN answer ELSE "key") /\ UNCHANGED rows
               [] step[o] = "undoing" -> End(o, "failed") /\ UNCHANGED rows
               [] step[o] = "putting" ->
                    IF failed THEN End(o, "failed") /\ UNCHANGED rows ELSE KeyPut(o)
               [] step[o] \in {"dropping", "clearing", "deleting"} /\ ~failed ->
                    End(o, "ok") /\ UNCHANGED rows
               [] step[o] = "dropping" /\ failed -> Rollback(o)
               [] step[o] \in {"clearing", "deleting"} /\ failed -> Restore(o)
          /\ abandoned' = IF step[o] = "undoing" /\ answer = "failed"
                          THEN abandoned \cup {o} ELSE abandoned
       \/ /\ step[o] \in {"dropping", "clearing", "deleting"} /\ answer # "ok"
          /\ RollbackFails(o)
    /\ UNCHANGED <<provider, existing>>

\* An answer whose request has timed out, or whose host is gone, finds nobody.
Answer ==
    /\ answers # <<>>
    /\ LET a == Head(answers) IN
         IF a.wait = step[a.from] THEN Continue(a.from, a.answer)
         ELSE UNCHANGED <<rows, ops, queue, abandoned>>
    /\ answers' = Tail(answers)
    /\ UNCHANGED <<main, spoiled>>

\* 15 seconds are over; what was asked for may still happen.
Timeout(o) ==
    /\ Active(o)
    /\ Continue(o, "failed")
    /\ spoiled' = spoiled \cup {provider[o]}
    /\ UNCHANGED <<main, answers>>

\* The host dies, perhaps with the main process; the last requests may be
\* lost with it.
Crash ==
    /\ \E o \in Operations : Active(o)
    /\ step' = [o \in Operations |-> IF Active(o) THEN "over" ELSE step[o]]
    /\ abandoned' = abandoned \cup {o \in Operations : Active(o)}
    /\ \E n \in 0 .. Len(queue) : queue' = SubSeq(queue, 1, n)
    /\ answers' = <<>>
    /\ jobs' \in {jobs, {}}
    /\ UNCHANGED <<rows, provider, existing, result, vault, spoiled>>

------------------------------------------------------------------------------
(* EncryptedSecretVault: each operation reads the file and writes it anew. *)

\* #enqueue: one at a time.
Idle_Always == TRUE

Idle == jobs = {}

VaultReads ==
    /\ Idle
    /\ queue # <<>>
    /\ jobs' = jobs \cup {[request |-> Head(queue), file |-> vault]}
    /\ queue' = Tail(queue)
    /\ UNCHANGED <<rows, ops, vault, answers, spoiled, abandoned>>

Respond(j, answer) ==
    /\ answers' = Append(answers, [from |-> j.request.from, wait |-> j.request.wait, answer |-> answer])
    /\ jobs' = jobs \ {j}
    /\ UNCHANGED <<rows, ops, queue, spoiled, abandoned>>

VaultDone(j) ==
    LET r == j.request IN
    /\ vault' = CASE r.type = "put"    -> j.file \cup {r.reference}
                  [] r.type = "delete" -> IF r.reference \in j.file THEN j.file \ {r.reference} ELSE vault
                  [] r.type = "get"    -> vault
    /\ Respond(j, IF r.type = "get" /\ r.reference \notin j.file THEN "null" ELSE "ok")

\* The file cannot be read or written, or secure storage is not available.
VaultFails(j) == UNCHANGED vault /\ Respond(j, "failed")

Next ==
    \/ \E o \in Operations, p \in Providers :
         Save(o, p) \/ Edit(o, p) \/ Clear(o, p) \/ Delete(o, p) \/ AskKey(o, p)
    \/ \E p \in Providers : CreateAgent(p)
    \/ Answer \/ \E o \in Operations : Timeout(o)
    \/ Crash
    \/ VaultReads \/ \E j \in jobs : VaultDone(j) \/ VaultFails(j)

Spec == Init /\ [][Next]_vars

------------------------------------------------------------------------------
(* Safety.                                                                 *)

\* A row's key is in the file, at every moment, across failures and crashes,
\* as long as a profile is not changed twice at a time and the vault answers
\* in time; and the profile of an agent is there.
KeyIsThere ==
    \A p \in Providers :
        /\ HasKey(p) /\ p \notin spoiled => row[p] \in vault
        /\ p \in inUse => row[p] # Absent

\* The key of a profile that was deleted, cleared or given another one does
\* not stay in the file, nor does one that was taken back: beside what the
\* rows name there is only what an operation is about to remove, or what a
\* crash or two failures kept it from removing.
NoKeyIsLeft ==
    \A o \in vault :
        LET p == provider[o] IN
        \/ row[p] = o
        \/ p \in spoiled
        \/ \E q \in Operations :
             /\ provider[q] = p
             /\ step[q] \notin {"new", "reading", "over"} \/ q \in abandoned

\* A run that starts while its profile has a key gets that key, though the
\* profile is changed or deleted while it waits: it never goes on without.
RunFindsItsKey ==
    \A o \in Operations : result[o] = "null" => provider[o] \in spoiled
==============================================================================
