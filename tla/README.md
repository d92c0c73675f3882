# A verification project for ScopeGuard

ScopeGuard is a desktop workspace (Electron, TypeScript) in which one person
runs several AI conversations side by side. An agent of a conversation asks a
model provider for turns, executes tools on the local machine under a policy,
and keeps everything in SQLite. This directory holds TLA+ modules of the parts
of it whose correctness depends on order, concurrency and failure, the TLC
configurations that check them, and TLAPS proofs of what matters most.

Line numbers refer to `src/`. `PROJECT.json` maps every definition to the lines
it stands for, lists the hazards the properties are for, and names for every
property a plausible bug that makes it fail.

## The system

| Component | Keeps | Operations |
|---|---|---|
| Domain (`packages/domain`) | nothing | status tables, policy and URL helpers |
| Application (`packages/application`) | `#activeRuns`, approval and input waiters | startRun, answer to an input request, cancelRun, resolveApproval, initialize, shutdown; workspaces, agents, conversations, providers, context |
| Native runtime (`packages/agent-runtime`) | the messages, round and call cursor of one run | `run`: rounds of provider turn and tool calls |
| Store (`packages/storage-sqlite`) | the database | one commit per statement, a few transactions |
| Tools (`packages/tool-runtime`) | nothing | read_file, write_file, run_command, path confinement |
| Managed execution (`packages/managed-execution`) | running commands; profile intents on disk | execute, shutdown, startup recovery (Windows LPAC) |
| Provisioner, launcher, lifetime broker, installer (`native/windows`) | ledgers, ACLs, AppContainer profiles | prepare, cleanup, recover |
| Provider adapters (`packages/provider-adapters`) | one stream | requests, SSE parsing, accumulation of turns |
| Agent host (`apps/desktop/src/agent-host.ts`) | the application; pending secret and execution requests | initialize, dispatch, shutdown |
| Agent host client (`main/agent-host-client.ts`, `main.ts`) | child, ready promise, timers, pending requests, managed executions | start, request, stop, restart |
| Secret vault (`main/encrypted-secret-vault.ts`) | one encrypted file, an operation queue | put, get, delete |
| Folder authoriser (`main/project-directory-authorizer.ts`) | the folder chosen last | authorize, consume, revoke |
| Renderer (`renderer/useWorkspace.ts`) | snapshot, messages, active runs, approvals; the layout in localStorage | refresh, run events, commands, panes |

The renderer calls the main process over IPC; the main process forwards
requests to the Agent host, a utility process with the only SQLite connection,
and answers its requests for secrets and for managed execution. The host sends
run events back. A run crosses all of them: the renderer starts, answers,
approves and cancels; the application and the runtime execute; the store
records; the main process holds the keys and executes commands.

What is hard here:

* one thread, many waits: cancellation, approval, input, shutdown and the
  answers of providers and tools arrive between any two waits of a run;
* one commit per statement: a crash may fall between two rows that belong
  together, and the next start has only the rows;
* effects: a tool may have acted although nothing says so, and must not act
  twice, unapproved, or after a cancel;
* processes: a host may hang, die or be replaced while it is owed answers and
  owes some, and a command may ignore its signals or outlive its shell;
* several stores: database, vault, profile intents and the provisioner's
  ledgers are updated in turn, without a common transaction;
* views: the page has a snapshot, events, replies and a stored layout that
  reach it on different ways, and the user clicks in between.

What makes each part correct: the run machinery keeps the promise of
`RunLedger` (below); the host client never loses or mixes up a request, a host
or an execution; the history sent to a provider tells what happened; a turn is
taken only whole; a profile's key is in the vault as long as the row names it,
and no longer; a file is whole; a command is reported truthfully, after its
processes are gone; no access or profile outlives the record that would clean
it up; the page converges to the database, and its layout to what it shows.

## Modules

| Module | Models |
|---|---|
| `RunDomain` | run and tool-call statuses and their transition tables |
| `RunCore` | application, runtime, store and host process: the life of native runs |
| `RunLedger` | what `RunCore` promises the user, without process or database |
| `RunCoreInv`, `RunLedgerInv`, `RunRowsInv`, `RunEndInv`, `RunCoreProofs` | the inductive invariants of `RunCore` (the places of its runs; what the refinement of `RunLedger` needs; what a place says of the rows; how calls end), their proofs |
| `ModelHistory` | the transcript of a conversation and its projection for the provider |
| `HistoryInv`, `HistoryProofs` | what a transcript says of its calls, the inductive invariant, its proofs |
| `ProviderStream` | a provider's answer: SSE parser, adapters, the runtime's turn |
| `HostSupervisor` | AgentHostClient and the host processes |
| `HostInv`, `HostProofs` | its inductive invariant, its proofs |
| `Credentials` | provider profiles and the secret vault |
| `CredentialsInv`, `CredentialsProofs` | its inductive invariant, its proofs |
| `FileTools` | read_file and write_file |
| `CommandTools` | run_command in the host beside them: full access and bounded, with the host's shutdown |
| `ToolInv`, `ToolProofs` | the inductive invariant of the two, their proofs |
| `AclProvisioner` | the service that grants sandboxed commands access, with its ledgers |
| `LpacExecution` | WindowsLpacManagedExecutionAdapter over it: sandboxed commands, their profiles and intents |
| `LpacInv`, `LpacProofs` | the inductive invariants of the two, their proofs |
| `RendererView` | what the page shows of runs, approvals and messages |
| `RendererInv`, `ViewInv`, `RendererProofs` | what the page knows of messages, what it will show of runs, their proofs |
| `Workspaces` | workspaces, agents, conversations and the folder authoriser |
| `PaneLayout` | the page's workspace, threads and panes over it |
| `LayoutInv`, `LayoutProofs` | where the folder of a workspace comes from and how the layout keeps to its threads, their proofs |
| `Selection` | what a filter leaves of a list, as a function (`Array.filter`) |
| `MCRunCore`, `MCLpacExecution`, `MCProviderStream`, `MCRendererView` | instances for TLC |

`CommandTools` extends `FileTools`, `LpacExecution` extends `AclProvisioner`,
and `PaneLayout` extends `Workspaces`: each of these composes two components
that share variables. The modules meet at outlines: `RunCore` sees a tool as
something that returns or is cancelled, `CommandTools` sees the main process as
something that starts and stops a bounded command, `HostSupervisor` and
`LpacExecution` are what is behind it; `RendererView` sees of `RunCore` what a
window can tell apart.

In every module a definition called `X_Something` is `X` with a plausible bug.
It is used nowhere but in the mutants of `PROJECT.json`.

### RunCore

State: the rows (`status`, `kind`, `callStatus`, `approval`, `result`,
`partial`, `kept`), the memory of the host (`active`, `pc`, `cur`, `last`,
`rounds`, `abort`, `waiter`, `finished`, `host`, `closing`, `recovering`) and
one history variable, `executed`, the calls whose `tool.execute` was entered.

The host is one JavaScript thread. A handler, or a continuation resumed by
I/O, runs to its next wait for I/O before any other handler; `await` of an
already settled promise lets nothing in. So `pc[r]` distinguishes `AwaitPoints`
(idle, secret, stream, approval, input, tool) from `SyncPoints`, and requests
and answers are only taken when no run is at a sync point (`~Busy`). A stretch
between waits is nevertheless cut at every commit, because a crash may fall
there. `CrashPoints` selects where: at waits, between commits, in recovery.

Each action is one step of the code between two commits, with its guard and
every call it makes. Cancelling is `AbortRuns`, the abort together with the
rejection of the waiter, whose continuation is the run's next step. The
`finally` of `startRun` is `ExpireApprovals`, `FinishUncertainCall`,
`SyntheticResult`, `Settle`. `Boot` to `Ready` is `initialize`.

Abstracted: what messages say (a result is `actual`, `cancelled` or
`unknown`), manifests, usage, events to the renderer. Not modelled: a store
that fails to write.

### ModelHistory

State: the transcript (`conversation_messages`), the messages the runtime sends
(`sent`), and of the open run only what it still has to append: the calls
without a result (`todo`) and, when it has ended, the results it owes
(`owed`). `Project` is `toModelMessages`, `TakeRecent` the window. A run is cut
down to its appends; `RunCore` has the control that leads to them, and
`OneOpenRunPerConversation` is why one run at a time appends. `Crash` chooses
what the row of the current call says, as `RunCore` allows all three; a crash
between the rows of a turn's calls and its message leaves results of calls that
no message names, which the projection drops.

### ProviderStream

State: what the provider sends (`turn`), what arrives of it (`wire`: whole or
cut off anywhere), the parser's buffer with its pending carriage return, the
events it has yielded, the adapter's gathered text and calls (`reply`). `Read`
takes a chunk of any size, so that chunks end between the characters of a line
end, inside an event and behind the last one; `ReadDone` flushes; `ReadFails` is
a broken connection or an abort. `Answer` is a provider that answers with JSON
instead of a stream. A line is one token, whole or torn: inside it the code only
concatenates. Text and arguments are parts with lengths, so that limits show:
every string of text and of arguments is cut where `redactCredentialText` cuts it.
`Lines`, `Body` and `Arrivals` are the provider's and the network's side.

### HostSupervisor

State: the fields of AgentHostClient, the host processes with what they were
told (`dismissed`), and the application. Every handler of the main process is
one action. A host may get ready, answer, ask for executions, hang or exit at
any time. The number of `Hosts` bounds the processes that exist at a time; a
name is used again when nothing refers to it.

### Credentials

State: the rows, the file of the vault, the operation queue of
`EncryptedSecretVault`, messages and answers between host and main process, and
for each call of the application's methods where it is. Saving with a new key,
without one, or with the key cleared, deleting, testing and starting a run are
operations; the vault may refuse any of them, answer late, or not at all within
the 15 seconds of `agent-host.ts` 110. What an operation takes back may fail as
well (`RollbackFails`). `Crash` ends the host between any two
steps, with the rows and the file as they are. A reference is named by the
operation that put it, because references are random and never used twice.

The code does lose keys in two ways, which the properties except explicitly:
two saves, or a save and a delete, of one profile that overlap (the later
rollback may restore a row whose key the other removed), and a vault operation
that times out for the host and works later. `spoiled` is the set of profiles to
which one of the two happened; `abandoned` are operations that a crash, the
failure of a removal whose error the code swallows, or a rollback that failed
itself left half-way: their key may
stay in the file. `NoKeyIsLeft` says so of every moment, not only of rest: a key
that no row names has somebody who is about to remove it.

### FileTools and CommandTools

`FileTools` has one file, whose content is a version in two halves, and
inodes, so that a reader may hold the old file while a writer renames a new one
over it. A call is aborted at any wait; each `throwIfAborted` of
`write_file` is where the code has it, and a failing write or rename runs the
`catch` that removes the temporary file.

`CommandTools` adds commands. Under full access the host spawns a shell that
leads a process group: its processes are the `shell`, a `child` that holds the
pipes and a `daemon` that does not; `exit` comes when the shell ends and `close`
when the pipes do. `Terminate` sends both signals with their grace periods; a
group may obey the first, the second or none. On Windows only the shell's tree
is known. Bounded commands are request, cancel and response messages by id
(`agent-host-managed-execution.ts`), and an outline of the main process that
keeps their order. `Shutdown` with `Exit`, and `Crash`, end the host.

### AclProvisioner and LpacExecution

`AclProvisioner` has what is on disk (the ledger of each execution, the access
that its paths really carry) and the one worker that the service lets work at a
time. Every write of the ledger and every `icacls` is an action, and a worker
may die between two of them or in the middle of a write. `LpacExecution`
extends it with the Electron main process: for each execution the place in
`#execute`, its intent file, its profile and its process tree, and
`#recoverProfileIntents`, which visits one intent at a time. The two share
`client`, the client process that carries a request: the adapter starts it and
takes its answer, or gives it up at any time; the service accepts it and
answers it. An abort is not a variable: all it can do to a helper is what a
timeout does.

`Die` is the death of the main process with the start of the next one; its
executions are lost, its commands are ended by the lifetime broker. Assumed,
not modelled: a helper process that was killed, or whose main process died,
does nothing any more.

### RendererView

State: the outline of the database and the host that a window can tell apart,
the two channels, and the page: `active`, `recent`, `approvals`, `shown`
messages, `streaming`, open threads, and the threads whose history it asked for
or whose composer waits. The host's steps publish events behind their commits;
the page asks for snapshots, histories, starts, answers, approvals and cancels,
and applies what arrives in `Deliver`. `Crash` loses what was on its way from the
host, `Restart` starts the next one, `Reload` is the page that the main process
loads again. The results that a recovery adds to conversations are left out (the
page that could get them as events is about to be replaced), and so are requests
that time out while their host lives, except cancelRun.

Assumed: events and replies travel host, main process, page in one order, and
requests in one order the other way. Every hop forwards them from the handler
that received them, without waiting, over channels that keep order.

### Workspaces and PaneLayout

`Workspaces` has the three tables, as sequences of which only parents matter,
and `ProjectDirectoryAuthorizer`: the folder chosen last, which expires, is
revoked by another choice and is used once. `PaneLayout` has the page: the
asynchronous functions of `useWorkspace` that take several requests (`call`),
replies on their way (`mail`), the last `snapshot`, and `layout`, the
`PersistedUiState` in localStorage. A snapshot, the corrections of `normalizeUi`
and the last step of the function that waited for it belong to one action
(`Receive`), as in the code; clicks, dialogs, reloads and a change of the window's
width come between any two. `Fail` rejects a request: because the host died, or
because it was too slow, and then it may still serve the request (`late`). The
function ends with that, unless the request was its refresh: `refresh` keeps the
failure to itself (`error`), and the function goes on with the old snapshot. `Earlier` threads are there
from an earlier session, with a layout that refers to them.

## Runs

| Run | Instance | Shows |
|---|---|---|
| `MCCoreOneConversation` | two runs of one conversation, one call each of all five kinds, crashes at waits, fair | one open run per conversation; open rows are executed and settled runs are closed; effects are reported; aborts end; approved calls go on |
| `MCCoreTwoConversations` | two runs side by side, crashes anywhere | prompts agree with waiters; executions are authorised; legal transitions; aborts and checkpoints; `RunCore` implements `RunLedger` |
| `MCCoreLongTurn` | one run, three calls, two rounds, crashes anywhere | the inductive invariant of the proofs, no call entered twice |
| `MCHistory` | two ids, turns of up to two calls, windows of five messages, two sizes | the projection pairs calls with results and ends with the prompt; unless input was asked for, it agrees with the runtime's own messages and loses no stored result |
| `MCStream` | six turns, three line ends or JSON, chunks of up to three tokens, cut anywhere | events are the payloads sent; a turn completes only whole, but for what the filter of credentials cuts |
| `MCStreamFinding` | the same | arguments are not complete (see Findings) |
| `MCHost` | three hosts, two requests, one execution, fair | promise, timers, requests and executions agree with the processes; requests settle, a lost host returns, quitting ends |
| `MCCredentials` | two profiles, three operations, refusals, timeouts, failing rollbacks, crashes | keys are there, none is left, a run never goes on without its key |
| `MCTools` | two calls of any tool, fair | files are whole; reports are true; nothing is left running; commands end |
| `MCLpac` | two executions, one grant each, one worker that dies | access and profiles are on record; the recovery spares running commands; results are true |
| `MCRenderer` | two runs in one thread, one crash, two messages, fair | at rest the page shows the database; histories are whole; ended runs leave, and Retry is about the last |
| `MCLayout` | two workspaces, two threads, two panes, two calls at a time, failing requests, one folder that may be chosen twice | folders are chosen by the user; the layout is sound; the active thread is shown |

Why the bounds suffice. Runs of different conversations share only the thread,
the host and the list of open runs; two of them meet in every way two can, and
the proofs do not bound their number. One call per run reaches every
path of a call; three calls in two rounds reach a turn with several calls, a
turn with none left, a call denied or abandoned before others, and the round
limit. In `HostSupervisor` three processes allow a child, one it replaced and
one before that; a fourth would only repeat the second's steps, all of which
ignore it. In `LpacExecution` two executions are one to be recovered and one
that runs, or two that run; deaths of the main process are not bounded, those
of workers are by `MaxDeaths`, a second one meeting only ledgers that the first
could have left. One grant tells a path with access from one without; the
proofs bound none of the three.

Eight messages of `ModelHistory` hold two runs with a call each, the first cut
short, or four without; a window of five cuts each of their turns in two. The
turns of `MCStream` have interleaved calls, equal ids, an error, too much text,
comments and something behind the end; a chunk of three tokens holds the end of
an event and the begin of the next. In `Credentials` three operations are a save,
what follows it, and what reads or rolls back meanwhile; profiles meet only in
the vault's queue and its file, which two do. Two calls of `CommandTools` are two that touch the
file, or one beside whatever the host does to it. In `RendererView` one thread
suffices, because the page keeps what it shows by run or by thread; two runs are
the open one and the last. `MCLayout` has two functions of
the page that overlap, a refresh that fails beside one that succeeds, a reply that
is late, a second workspace, whose threads a snapshot drops from the layout, and a
folder whose first choice is used, revoked or expired before the second. With one
pane asked for, one of its two threads has none; instances with a third thread and
one call at a time, or one workspace, hold as well.

Deadlock is checked in `RunCore`: a host that is down can always boot. The
application of `HostSupervisor` ends, a stream, a conversation, and the
operations of `Credentials` and `RendererView` are used up, so their runs do not
check it. In `LpacExecution`, `CommandTools` and `PaneLayout` some step of the
environment is possible in every state, so the check of deadlock says little
there.

### Fairness

* `RunCore`: the thread takes its next step, a secret request is answered or
  times out (`agent-host.ts` 46-120), and a provider or tool whose signal is
  aborted lets go, as fetch and managed execution do. A host that is down boots
  again only if somebody starts it. Users, and providers that nobody aborted,
  owe nothing.
* `HostSupervisor`: timers fire, a killed process ends, the adapter's shutdown
  ends, and a fork succeeds at last. Hosts owe nothing.
* `CommandTools`: the timers and continuations of the host (`FullStep`), the
  main process's answers (`MainStep`), and the delivery of its messages
  (`BoundedStep`). Processes owe nothing: a command that is never aborted and
  never ends runs into its timeout, which is a timer of the host.
* `RendererView`: the host handles what it got (`Handle`), messages arrive
  (`Deliver`), the host client restarts a host that died (`Restart`, which
  `HostReturns` of `HostSupervisor` shows), and the main process reloads the page
  then (`Reload`). Runs and users owe nothing.

## Proofs

`RunCoreProofs` proves, for any sets of runs, conversations and calls, any
round limit and crashes anywhere (assumption `RunCoreAssumption`, which only
types the constants):

* `Invariance`: `IInv` of `RunCoreInv` is an invariant;
* `TypeCorrect`, `OneOpenRun`, `Authorised`, `ToolEnteredOnce`;
* `AbortIsRespected`: no tool of an aborted run is entered.

None of these is inductive alone. That an aborted run enters no tool rests on
the fact that nothing lies between the runtime's look at the signal and the
entry but steps of the same thread and waits that the abort itself takes the
run out of: `AbortOfPlace`. That startRun finds every open run rests on the
open rows of a live host being those of executing runs, and a booting host
interrupting the others: `StatusOfPlace`, `PlaceOfHost`. That an execution is
authorised, and happens once, rests on what the place of a run says of its
current call: `GrantOfPlace`, `CallsOfPlace`. `WaiterOfPlace` ties the waiters
to the places. The step of the invariant is cut into four lemmas (`TypeStep`,
`PlaceStep`, `CallsStep`, `LedgerStep`), each with one step per action, so that
each expands only what its conjuncts need.

Its second part proves `Refinement`: `Spec => ImplementsLedger`, under the same
assumption. `LedgerInv` adds what the mapping needs: a run starts and begins
unaborted (`StartOfPlace`), so that a stopping run never looks open again; a call
that is not reached has neither policy nor decision (`GrantsAhead`), so that a
grant is never overwritten; and what is pending in a serving host is the current
call's approval of a run that still stands before its last step
(`PendingOfPlace`), so that the user cannot grant anything in a run that ended.
`LedgerStands`, `PhaseMoves` and `GrantMoves` say which changes of `RunCore` are
which steps of the ledger; `RefinementStep` has one step per action.

Its third part adds `RowsInv`, the status that the run and its current call
have at each place (`RowOfPlace`, `CallOfPlace`) and the text that is in a message
where its checkpoint is about to be cleared (`TextOfPlace`), and proves

* `LegalTransitions`: every move of a row is in its table, and a cancelling run is
  never completed;
* `PromptsAwaited`: prompts of the database and waiters of the host agree between
  handlers;
* `CheckpointKept`: no checkpointed text is lost.

`LedgerInv` and `RowsInv` were checked by TLC on an instance with one run before
they were proved; `MCRunCore` extends their modules and `RunEndInv`, so each can be
added to its configurations.

`LpacProofs` proves all safety properties of `LpacExecution` for any number of
executions, of granted paths and of dying workers (assumption
`AclProvisionerAssumption`: types, and at least one path):

* `GrantsRecorded`: access that exists is in a ledger that is not "cleaned";
* `RecoverySpares`: the recovery visits no execution of its own main process;
* `EffectsTrue`: reported effect and termination are the command's;
* `LeftoversKnown`: profiles have intents, and what an execution that reports a
  clean end leaves is in a ledger of the service; the types among it.

The invariant `LInv` of `LpacInv` has five parts. `GrantsInv` says what the
worker's place means for the ledger it works on: a removal goes on until
nothing is left but entries that resisted. `RecoveryInv` says that an execution
gets an intent only when the recovery is resolved, so that what is visited is of
an earlier life. `ProfileInv` orders intent, profile and command, `EffectInv` the
command and what the adapter remembers of it. `CleanupInv` is about both
processes: a cleanup that is answered "ok" has been served to its end or found no
ledger, and nobody grants to that execution any more, because its prepare
request was withdrawn before the cleanup was asked for and a worker serves one
request at a time. `AdapterAsks` says that the adapter touches nothing of the
provisioner but the clients; with it each part needs the steps of one side only,
but the last.

The last part of `RunCoreProofs` proves how calls end. `EndInv` says that a recovering host is the
only one with something to recover, that a running call is the current call of an
executing run (`RunningOfPlace`), and what a result in the conversation says of
its call (`ResultOfCall`); it holds with crashes between any two commits and gives
`ExecutionsRecorded`. `SettledInv` says that a run which has ended has no open call
and every effect of it told. It needs the steps of the epilogue in their order and
an uninterrupted recovery, so it is proved, with `RowsAreClosed` and
`EffectsReported`, for `CrashPoints \subseteq {"await"}`. With crashes elsewhere it
is false of the code (see Known divergences).

`HostProofs` proves `ClientKnowsItsChild` and `NothingIsOrphaned` for any number of
processes, requests and executions (`HostSupervisorAssumption`: `NoHost` is no
host). `HostInv` ties the ready promise, its timer and the requests to the child
(`PromiseOfChild`, `RequestsOfPromise`), and says that what `#stop` waits for lives
and was told to go (`StopOfChild`), so that the exit of any other process changes
nothing for it.

`ToolProofs` proves `FilesStayWhole`, `ReportsStayTrue` and `NothingStaysRunning` for
any finite set of calls. A call's place says which inodes it has written how far
(`WritesOfStep`) and what it has read (`ReadsOfStep`): an inode that a name or a
reader refers to is never written again. `CommandOfStep` relates the stages of a
termination to the processes left. `MessagesOfCall` and `CancelsOfCall` are about
the three channels to the main process: at most one request and one cancel of a
call, the cancel behind the request, nothing of a call that has not asked; so a
cancel never overtakes what it cancels. `ExitOfHost` says what the shutdown still
waits for. The lemmas on sequences at the beginning (what appending and taking do
to the range, the order and the uniqueness of messages) carry these parts.

`CredentialsProofs` proves `KeyStays`, `NoKeyStays` and `RunsFindTheirKeys` for any
sets of profiles and operations (`CredentialsAssumption`: the two special values
are different and no operations). Its lemmas are not about the actions but about
`Move`, the steps with messages as sets (waiting for the vault, in its hands,
answered); `StepMoves` shows every action to be one, and only `OneEach` and
`InOrder`, which are about positions, go back to the queue. `MessagesOfStep` says
that a request or an answer belongs to the wait its operation is at, or to one that
ended without it. `RowOfStep` is why one change at a time matters: the row of an
unspoiled profile is what its one changing operation wrote, so a rollback puts back
a key that nobody else removes. `RemovalsOfStep` is why it is still there: the only
removal of it is that operation's, and has not been answered "ok". `InOrder` and
`ReadsOfStep` are why a run gets a key that is deleted meanwhile: the removal was
sent behind its request, and the vault works on one at a time. `PutsOfStep` and
`KeysOfStep` account for every key in the file.

`RendererProofs` proves `HistoriesAreWhole` for any number of runs, threads, messages
and deaths of the host (`RendererAssumption`: finitely many runs). `HistoryInv` says
that nothing is shown or on its way that is not in the database, and that while the
host is up every message of a thread that was asked for is shown, on its way in an
event or a reply, or still to be sent with the history. It treats what is on its way
as a set, so that the order in which history and events arrive does not matter;
`Grows`, `Shows` and `Asks` say what publishing, taking and asking do to it.

`ViewStaysCurrent` needs the order. `ViewInv` cuts `ViewIsCurrent` into claims about one
run or thread (it is open, it is not, it asks the user, it does not, it has this
status, it streams nothing): of an event or reply one says whether it makes a claim
true of the page, makes it false, or leaves it. While the host is up, a claim that is
true of the database is true of the page when the last thing on its way that does not
leave it makes it true, or none is left and the page has it already (`Leads`). A page
that was just loaded is excused until a snapshot is on its way, and approvals are
excused while the reply to a decision or a request for a snapshot still brings a new
one (`Excused`): the event of a new status does not take an answered prompt away. The
rest of `ViewInv` is why events are not dropped where they matter: what asks for an
approval or an input meets a page that shows the run (`EventsMeetTheirRun`), no
approval is shown without its run, a page without a snapshot shows nothing, and the
requests of a page that is gone come before those of its successor.
`LeadsJoin` and `LeadsTail` say what sending and taking do to the last
that speaks.

`LayoutProofs` proves `FoldersStayChosen` for any folders, workspaces and threads. The
choice that the main process has recorded is one that was not used yet
(`ChoiceIsUnused`), and a request for a workspace carries a folder that was taken
from there or none. `LayoutAssumption` types the constants and keeps the value for
"no thread" apart from threads.

`LayoutStaysSound` and `ActiveThreadStaysShown` are about panes. `LayoutOK` says that
no thread is open or shown twice, that only open threads are shown and that the
active thread is open. The corrections of `normalizeUi` keep the open threads that
the snapshot lists, so this rests on what a snapshot may say. As long as no refresh
has failed, the page knows every thread that is open (`ThreadsAreKnown`). A snapshot
that is on its way knows every thread that is open or waits to be, with or without a
failure (`ThreadIsCreated`, `ReplyIsSound`), and snapshots reach the page in the
order of what they know (`MailIsOrdered`); so the next one that arrives takes no
thread away, and a thread that was opened while a refresh failed keeps its pane or
moves to the left (`PanesStay`, `StillShown`). The lemmas on
`AssignToPane` and `NormalizePaneIds` (`Assigned`, `Filled`, `NormalizedPanes`) say which threads are in the panes
afterwards, each once, and how many.

`HistoryProofs` proves `CallsAnswered`, `HistoriesStayEqual` and `ResultsStayTold` for
any ids, sizes, windows and numbers of messages and calls (`ModelHistoryAssumption`).
The last two are about results that are stored; what a crash or an abort keeps from
being stored is told as cancelled (see Known divergences).
The first is about the projection alone: of any transcript whose turns repeat no id,
whatever the window cuts off, the projection has answered the calls of each turn
once (`Paired`), except for those it still waits for, and the end cancels these.
`PromptIsTold` shows that the prompt survives every window. That results are told
needs the runs: `HistInv` says that every result in the transcript that is no
cancellation answers a call which is open there, in a turn with nothing behind it
but results of other calls, unless that turn asked the user (`ResultsHaveCalls`,
`IsOpenAt`). It is inductive because the calls that a run has still to answer are
open (`TodoIsOpen`), and so is the one that a recovery calls unknown, which it
answers before it cancels the others (`OwedIsOpen`): after a cancellation of a
later call it would still be open, after another turn it would not. `Pends` then
follows the projection through the window: what it waits for behind a turn is
what the transcript has open there, so that no such result finds its call
closed. `RunAgrees` says that while a run goes on, its own messages are the
projection of the transcript and what that waits for is what the run has to do.

Both proofs go over lists of any length. Where the model uses recursive functions
(`SizeOf`, `Projected`, and `Keep` for `Array.filter`), a set stands for the induction
hypothesis and the well-foundedness of the numbers does the rest (`Induction`):
`FoldExists` and `FoldUnique` give such a function its values, and the `...Laws` say what
it makes of a list that grows by one element. Each claim about a whole transcript
(`SuffixSize`, `ProjectionPaired`, `NewsTold`) is an induction of that kind. The first part of both
modules has these lemmas.

`HostInv`, `EndInv`, `SettledInv`, `ToolInv`, `CredInv`, `HistoryInv`, `ViewInv`,
`FolderInv`, `PageOK` and `HistInv` were
checked by TLC on the instances of their components' runs before they were proved.

Only model-checked:

* liveness, everything under fairness: out of the prover's reach;
* `EventsAreThePayloads` and `TurnIsWhole` of `ProviderStream`: its parser and its turns
  are made with `FoldLeft` over chunks, whose operator no lemma can take as a
  parameter;
* `IsLastIfRetried` of `RendererView`, a part of `EndedRunIsLeft`: its order of runs is made with `SelectSeq`
  and `Remove`, for the same reason.

## Findings

1. `ArgumentsAreComplete` (`MCStreamFinding`). `redactCredentialText`
   (`provider-adapters/src/shared.ts` 88-129), meant to take credentials out of
   messages, also keeps only the first 500 characters, and the adapters apply
   it to every string of a tool call's arguments. A longer file that the model
   writes with write_file is cut, silently, although the tool's schema asks for
   "Complete UTF-8 file contents." (`tool-runtime/src/index.ts` 224). The same
   function cuts text: each streamed delta (`openai.ts` 150, `anthropic.ts` 147),
   where few are so long, and the text of a JSON answer (`openai.ts` 269,
   `anthropic.ts` 288), of which it keeps the first 500 characters of the message
   or of each block. No document says what is kept of text, so `TurnIsWhole` takes that cut as given
   (`SentText`): it says that nothing else is missing.

### Known divergences

Other places where the models show the code and a document or a test, or the
code and a reader's expectation, to differ. The properties of the passing runs
are stated around them, and say so.

* `initialize` commits the status interrupted for all open runs and only then
  closes their calls (`application/src/index.ts` 216). If the host dies in
  between, the next start finds no open run, and a call stays running for ever,
  its effect never reported as unknown (`docs/V2_ARCHITECTURE.md` 111). The
  properties about settled runs are checked with crashes at waits.
* A tool that throws because its run is cancelled is recorded as cancelled
  (`native-agent-runtime.ts` 361); its unconfirmed effect is not reported as
  unknown (`docs/SECURITY.md` 44). `EffectsAreReported` is about crashes.
* A request during `stop()` resets `#stopping` and forks a host, or sets a
  restart, that nobody ends (`agent-host-client.ts` 110, 168; compare
  `agent-host-client.test.ts` 88). `QuitEnds` holds all the same.
* The service answers a cleanup that could not remove an ACE with `ok`, and
  says so only in the result, which the adapter does not look at
  (`windows-lpac-adapter.ts` 254): it deletes profile and intent and reports
  `clean` (`docs/MANAGED_EXECUTION.md` 13-16, 67). `LeftoversAreKnown` says what
  is left to rely on, the ledger: the service tries again at its next start, and
  does not start if that fails too.
* The user's answer is stored as a message before the results of the turn that
  asked for it; `toModelMessages` (`application/src/index.ts` 1315) then tells
  every call of that turn as cancelled and drops its results, an unknown effect
  among them (`docs/SECURITY.md` 44). `HistoriesAgree` and `ResultsAreTold`
  except requests for input (`NobodyAsks`).
* A result that was not stored is told as cancelled although the call may have
  acted: of a call that was executing when its run was cancelled and that did not
  stop by itself (`Abandon(TRUE)` in `ModelHistory`), of one that had returned when
  the host died between its row and its message (`application/src/index.ts` 871),
  and of one whose result a run that ends still owed when the host died.
  `ResultsAreTold` is about stored results.
* Text of a stopped run that is only white space is dropped with its checkpoint
  (`application/src/index.ts` 1016); `RunCore` keeps every partial text.
* Overlapping saves of one profile, and vault operations that time out and work
  later, lose keys (`spoiled` in `Credentials`).
* A command that begins while the host shuts down is not among those that the
  shutdown stops, and outlives it: `NothingIsLeftRunning` is about `awaited`.
* An event that reaches a reloaded page before its first snapshot makes an entry
  for its thread, so that the history of the thread is never asked for
  (`useWorkspace.ts` 198). `HistoryIsWhole` is about threads that were asked for.
* The reply to an answer carries the run as it was before the answer woke it
  (`application/src/index.ts` 561): the page shows waiting-input until the next
  status arrives.
* A request that is given up after 60 seconds while the host lives
  (`agent-host-client.ts` 183) may be a decision on an approval or the refresh
  behind it (`useWorkspace.ts` 384): the page shows the old prompt until its next
  snapshot. `RendererView` has no such timeouts, except of cancelRun.
* `refresh` keeps its failure to itself (`useWorkspace.ts` 132), and what called it
  goes on: a new thread becomes the active one and is open (332, 341) although the
  page does not list it and no pane shows it, until a refresh succeeds.
  `LayoutIsSound` and `ActiveThreadIsShown` say what holds meanwhile, and that the
  thread is shown then.
* A smaller number of panes, a narrow window, or a snapshot that takes the
  active thread away may leave an active thread that no pane shows
  (`useWorkspace.ts` 267, 528). `ActiveThreadIsShown` is about the user's own
  clicks and calls.
* A worker killed between the temporary file of a ledger and its move leaves a
  directory that the recovery refuses; the service then never starts again
  (`lifecycle.ps1` 18). A recovery of intents that failed stays rejected until
  the application restarts (`windows-lpac-adapter.ts` 143).

## Plan

Done: all modules above, in the order run machinery, host, sandbox, history;
then tools, streams, credentials, renderer, workspaces and layout; the proofs of
every safety property of `RunCore` and of its refinement of `RunLedger`, and of all
safety invariants of `LpacExecution`, `HostSupervisor`, `FileTools`, `CommandTools`,
`Credentials`, `ModelHistory` and `PaneLayout`, of `ViewIsCurrent` and `HistoryIsWhole`.

Left, in this order:

1. Proofs: the parser of `ProviderStream`, rewritten as a recursive function as in
   `ModelHistory`.
2. Two hosts on one database for the moment between a kill and its effect.
3. The context of a workspace: revisions, manifests and what a run is shown.
4. A store that fails to write.

## Not modelled

* Validation of single values (IPC contracts, URLs, headers, file names),
  renderer security, path confinement: functions of one value that keep no state
  two actors share; unit tests reach them.
* The context of workspaces: a chain of revisions that one transaction extends,
  with nothing in between.
* Presentation: components, styles, texts, the provider dialog's form.
* The Windows security API, authentication of the pipe, runtime packs,
  installation, packaging and probe scripts: the behaviour of another system, or
  no part of the running program.

`PROJECT.json` lists every component with what is left out of it.
