# EDITH-Harness in TLA+

Specifications, model checking and proofs kept beside EDITH-Harness, a local
workbench in which several agents work on a code base. Paths are relative to
`src/`. Every module is translated from the Go code; the definition-to-lines
table is `PROJECT.json` ("map").

    tlasany Runner.tla
    tlc -workers 2 -config Runner_turns.cfg MCRunner.tla
    tlc -workers 2 -config Services.cfg MCServices.tla
    for m in Runner ReactLoop Subagents Conversations Tools Sessions ToolServices SessionServices
    do tlapm ${m}_proofs.tla; done

## 1. The system

`cmd` assembles `internal/backend`, which opens everything in order and closes
it in reverse. `clients/web` and `clients/desktop` carry JSON-RPC to
`internal/appserver`; `conversations` orchestrates; `runner` runs one turn of a
session at a time; `loops/react` alternates model requests and tool batches;
messages go to the session ledger first, then through `events` to the
subscribers. `subagents` builds a tree of sessions on top of the same runner.
Tools reach files and processes through `machine/local`, servers through
`tools/mcp`, and people through `approvals`. There is no database and no
transaction: what a component keeps is a handful of files, each replaced as a
whole, and what has to agree is two or three of them.

| component | state | operations | talks to | hard because | correct when |
|---|---|---|---|---|---|
| `runner` run.go, steer.go, collaboration.go | live run per session, held inputs, admission state, records | Start, Compact, Steer, Receive, Stop, StopRun, Close | session ledger, records file, listeners, loop | five kinds of goroutine meet in the same run; five locks, none held while publishing | one live run; an input is recorded once, in order, or refused; every caller is answered; Close is final |
| `runner` emit.go, snapshot.go | update numbers, drafts | emit, SessionView | `events`, appserver | numbers are drawn under locks, published without | snapshot plus updates = the session, without gap or repetition |
| `runner` diff_store.go, diff_tracker.go, records.go | runs.json, diff bodies, the net change of a run | StoreDiff, reconcile, RevertRunDiffFile, interrupt stale | `machine/local`, `persist` | two files, a stop in between; a tracker fed by patches that fail half way | what clients see of a diff is what a revert works with; a revert undoes its run and nothing else |
| `loops/react`, `runner/compact.go` | history of the loop, batch under way, drafts | request, execute, checkpoint, compact, recover | model, tools, runner | cancellation, failure or a crash at any step | every call has its result, right after it; the model is asked what the ledger says |
| `session`, `reading`, `conversations` | meta, settings, ledger, records, position; intents; operation locks | Create, Send, Fork, Archive, MarkRead, Delete, Recover | runner, subagents | several files per operation; a steer racing the end of its run; replay of a deletion from any point | nothing comes back; a listed conversation is whole; reading never goes back |
| `subagents` | task relations, family admission, pending reports | Spawn, Send, Wait, Stop, StopFamily, deliver | runner, session | retries until the ledger holds a report, stop while spawning | a report reaches its parent once and in time; a stopped family starts nothing |
| `approvals`, `permissions` | pending requests, listeners, confirmed configurations | Authorize, Respond, Subscribe, Close | reviewers, tools, appserver | a decision racing a stop and Close | what somebody was told is decided is what happens |
| `appserver` `clientconn`, `rpc` | gate, queues, subscriptions, order of writes | Run, Notify, Subscribe, Schedule | clients | a slow or vanishing client while a request still adds a subscription | nothing lost without the client knowing; nothing heard after the end; a call given up has no effect |
| `machine/local`, `tools/exec`, `applypatch`, `command_exec.go` | processes, buffers, terminals; path locks | AgentExec, AgentInteract, StartTerminal, AgentApplyChanges, WriteFileIfUnchanged, Close | operating system, clients | exits racing reads and Close; several locks at once; a helper killed half way | exit means all output; a clean Close leaves nothing; no write is lost |
| `tools/mcp` | versions of the configuration, connections per run, credentials, a login | state, Save, Close, login, logout, refresh, retire | servers | replaced under use, built once for many, refreshed while replaced | a run keeps its version; nothing leaks; a newer login is not undone |
| `agents`, `llm`, `hooks` | an agent's file and the settings naming it; two files of providers and models; hooks and confirmed versions | list, save, delete; reload, Pin; View, Save, Trust, Check | conversations, runner, tools | two files that must agree; files edited by hand | a choice exists; a model fits its provider; what runs was confirmed |
| `skills`, `commands`, `persist`, `tools` | small files, a registry | read, write, call | - | little | last write wins as intended |
| `clients`, `clients/ui` | windows, view state | render, resubscribe | appserver | gaps and reconnects | the view follows the snapshot and the updates |

What is hard to test in each of them is listed, at its line, in `PROJECT.json`
("hazards"), with the properties that would catch it going wrong.

## 2. Modules

One module per component; each names the code of its actions. The modules meet
where the code does: what one leaves open (when a loop reaches a checkpoint,
who offers inputs, what an update says) is decided in the other.

| module | models | state ↔ code | actions ↔ code |
|---|---|---|---|
| `Runner` | admission, inputs and ending of runs | `live` = Runner.live; `steering`, `pending`, `cancelled` = fields of liveRun; `pc` = the point the goroutine of the run has reached; `ledger`, `record` = files; `call`, `answer` = a Steer and its result channel; `offer` = a collaboration message; `admitted`, `told` are history | one action per critical section (handoff + mu, Runner.mu, recordsMu) or publication |
| `InputLog` | what `Runner` promises, in three variables: log, queue, fate | - | Open, Offer, Settle |
| `ReactLoop` | one session's turns | `ledger` = entries; `history`, `batch` = locals of the loop; `draft` = a draft with text; `lastHead` = liveRun.lastCompactHead | one action per step of the loop, plus Offer (Steer), Cancel (Stop), Crash |
| `Updates` | numbers, publication, snapshot, subscription | `clock` = Runner.clocks; `seq` = liveRun.updateSeq; `outbox`, `copied` = a goroutine between drawing a number and calling the listeners; `through`, `buffer` = runListener; `issued`, `sent`, `view` are history | release in its two halves, RevertRunDiffFile in three, Publish in two, handleSubscribe in three |
| `RunDiffs` | diffs of runs and their reverts | `body`, `summary`, `status` = the two files; `shown`, `net`, `exact` = liveRun; `reconciled`, `holder` = session state and recordsMu; `view` = what the client looks at; `torn`, `before` are history | StoreDiff as body and record, each of which may fail with or without effect; `Look` compares; a revert checks, changes the file, stores |
| `FileChanges` | files changed by patches, the editor and reverts | `locks` = fileLocks; `seen` = expectedHash and oldContent; `wrote`, `completed`, `exact` = the helper and FileCommit; `diff` = turnDiffTracker; `own` is history: what a run left at a path, and what it had found there (`Found`) | Read, approval, one Lock per path, Check, one Write and Report per change, Stop |
| `Subagents` | delegation and its stop | `parent` = the relations; `admission`, `stopRequested`, `stopGeneration`, `lock` = taskCoord; `generation`, `stoppedRun` = familyState; `permit` = admission and sendAdmission; `live`, `phase`, `cancelled` = a run as the service sees it; `saved`, `created` = files; `doomed`, `entered` are history | one action per critical section of `s.mu`, file, or call of the Runner |
| `Delivery` | reports of children, and Wait | `loop`, `loopWoken` = deliverLoop and the channel it captured; `scan` = deliverTasks under deliveryMu; `retry`, `confirmed` = Subagents.pending, .confirmed; `wait` = a Wait; `inbox` = liveRun.pendingInputs; `due` is history | the loop's select, one step per task and result of a scan, Receive before and under handoff, Wait's look and sleep, the parent's run, Restart |
| `Conversations` | the life of a conversation on disk | `files` = meta, settings, ledger, records, position; `intents` = deletions/; `holder`, `creating`, `viewing` = locks; `call` = a handler between two files; `replay` = Recover | one action per file written, with its failure; Crash, Recover |
| `Approvals` | asking, deciding, closing; confirmation of a project's MCP configuration | `pending`, `listening`, `unread` = Service; `answer` = the channel of a request; `ctxDone` = the derived context; `trusted` = mcp-trust.json; `said` is history | one action per stretch under Service.mu or between two looks at a context |
| `McpRuntime` | connections pinned to runs | `states` = workspaceState with its references; `current`, `runs` = Provider | one action per use of Provider.mu or read of a file |
| `Credentials` | OAuth credential of a server | `memory`, `revoked`, `generation`, `epoch`, `lock` = oauthStore; `conn` = a token source; `task` = the login | one action per use of oauthStore.mu or wait for the server |
| `Connections` | a client of the server, and Scheduler | `gate`, `queue`, `phase` = Connection; `active`, `pending`, `hooked` = Subscription; `scheduled`, `waiter` = scheduledCall and who waits for it; `scheduler` = the queues, of which one at most is named; `runner` = the goroutines of Scheduler.run | a subscription's request step by step, Notify, Send, Drain, CloseAll; Schedule, Abandon, Return; of run one action per stretch under the lock (Take, Pop) and per operation between (CheckCtx, Claim, BodyEnds, Answer) |
| `Processes` | processes and terminals | `pipe`, `held`, `exited` = localProcess; `table` = Local's tables; `exec`, `call` = AgentExec, AgentInteract; `session` = commandSession | output, exit, the reader, take, remove and cancel; the loop of a terminal; Close |
| `AgentSettings` | agents and who refers to them | `agents`, `chosen` = files; one record per call under way | one action per file under or outside the lock `references` |
| `ModelSettings` | providers and models | `config`, `models` = the two files; `current` = Client.current; `pinned` = Pin; `byHand` is history | Read, Save and Delete in their writes, with routes and the catalogue's entries, Reload, Pin, edits of both files by hand, Restart |
| `HookSettings` | hooks and confirmed versions | `global`, `project`, `trust` = files; `mu`; `page`, `check` = calls; `forget` = the deletion of a project; `confirmed`, `kept`, `mixed` are history | Save, Trust with read and write of the file, Check with its two reads, ForgetProjectTrust (read and write, without the lock), Edit, Restart with the replay of deletions |
| `Runner_proofs`, `ReactLoop_proofs`, `Subagents_proofs`, `Conversations_proofs` | theorems about the module they extend | | |
| `Tools_proofs`, `Sessions_proofs` | theorems about the smaller modules, each an instance in a section of its own | | |
| `ToolServices_proofs`, `SessionServices_proofs` | the invariants and action properties of `MCServices` as theorems | | |
| `MC*` | model values and definitions for TLC | | |

Composition. `Runner` leaves open when its loop reaches a checkpoint or
returns; `ReactLoop` says when, and leaves open who offers inputs. They meet in
the checkpoint: `CheckpointCommit` there, `Checkpoint` here. `Updates`,
`RunDiffs` and `Conversations` take from `Runner` that a session has one live
run after the other (`OneActiveRun`, proved). `Subagents` and `Delivery` keep
of `Runner` what their service can see: a session is occupied from begin to
release and active until RunEnded has its number, a stop cancels the run it
names, a cancelled run takes no steered input, and an input that is held is
either in the ledger after the next checkpoint or gone (`AcknowledgedIsRecorded`,
`NothingStranded`). `RunDiffs` takes from `FileChanges` that a net change
called exact is the truth (`ExactIsTrue`).

`MCServices` checks the modules around the runner in one state space: a
behaviour chooses its `part` in its first state and is then one of that module
alone; the variables of the module are `x1`, `x2`, ... in the order of their
declaration. Nothing is composed this way. It only spares a run per module,
and a step, an invariant and a fairness condition belong to one part each.
`MCReactLoop` has two scenes for the same reason: instances of `ReactLoop` with
the same variables and other constants.

Abstractions. Texts, tokens and budgets are not modelled: whether a context is
over its budget, which cut compaction takes and when the model refuses are
choices of the environment. Messages, versions, digests, hashes and contents
are identities; an entry of the ledger is its kind and the calls it issues or
answers. A file is replaced as a whole, but a write or a removal that reports a
failure may have taken effect: `persist` renames first and synchronises the
directory afterwards (`persist/files.go:156-160`, `200-204`).
`RunDiffs`, `HookSettings` and `ModelSettings` leave that open. A ledger is the
one the process holds in memory: an append that fails adds nothing there, while
the file may keep the line, whole or torn, since nothing truncates it
(`persist/files.go:164-190`, `session/jsonl.go:199-219`). What the theorems of
`Runner` say of a refused input they say within one process; after a restart
such a line may be read back, and a torn one makes Load fail
(`session/jsonl.go:59-61`). In `Subagents` an identity that a call
draws carries the name of the call: the task of a Spawn and the child session
are one, a run is named after the Spawn or Send that starts it. The user's Send
is the one without a run of the parent. In `Conversations` a ledger is its
number of turns. In `ModelSettings` an entry of a model is the protocol that its
options were made for and the one it is routed to; built-in providers, whose
protocol is fixed, are left out. In `FileChanges` a helper that is killed is
dead when its locks are given back; the code waits five seconds for that
(`agent_files.go:105-107`) and then goes on. In `Processes` a call that is
cancelled drops the output it has taken with everything else of its process
(`process.go:127-135`). Histories (`said`, `due`, `doomed`, `promised`,
`confirmed`, `before`, ...) are written and never read by an action.

Operators named `Op_Fault` are faulty variants of `Op` and unused; putting one
in the place of `Op` must break the property it is listed with
(`PROJECT.json`, "mutants"), which shows that the property says something about
the code.

## 3. Runs

Passing runs:

| run | instance | shows |
|---|---|---|
| `Runner_turns` | 2 runs (turns or compactions) of a session, 1 Steer, 1 collaboration message, disk and RunStarted may fail | `TypeOK`, `OneActiveRun`, `NothingStranded`, `RefusedNeverRecorded`, `RunsAreBlocks`, `ClosedIsQuiet` |
| `Runner_inputs` | 1 run, 2 Steers, 1 message; disk and every listener may fail; fairness | `AcknowledgedIsRecorded`, `RecordedInOrder` (in order, without gap, once), `StartedIsEnded`, `AnswersHold` (one answer to each caller, and `Runner` implements `InputLog`), `WaiterReturns`, `ClosedRunEnds`, `CloseReturns` |
| `ReactLoop` | scene "turns": 1 turn, 3 calls in batches of up to 2, 1 input, compaction, cancellation, fairness; scene "faults": 2 turns, 2 calls, every write may fail and the process stop anywhere | `TypeOK`, `ResultsFollowCalls`, `RequestsTheLedger`, `ContextIsWhole`, `TurnsHold` (no call left open, nothing compacted twice), `StopEnds` |
| `Subagents_stop` | 1 conversation with 2 turns, 2 Spawns (two children, or a child and a grandchild), 2 messages; stops, deletion, Close; files and runs may fail | `TypeOK`, `StopsHold`, `FamiliesApart`, `EndsAreFinal` |
| `Conversations` | 2 conversations, one with a child; 3 requests, 2 at a time; 2 turns; 1 stop of the process; every removal may fail | `TypeOK`, `NothingComesBack`, `WholeConversations`, `ReadOnlyForward`, `StartsOnlyInOpen` |
| `Services` | the parts below, without fairness | one invariant or action property for each group of parts |
| `Endings` | the parts in which something waits, under the fairness of each module | `EverythingEnds`: subscribers catch up, Close of approvals and of MCP connections returns, a client that is gone is let go of (unless the process has ended by a panic), patches end, terminals end |

The parts of `MCServices`:

| part | instance | properties |
|---|---|---|
| updates | 2 runs, 5 updates, 2 may wait, usage records may fail | `UpdatesHold`: the number of an idle session is the last one issued (without reverts), a subscriber sees what its snapshot lacks, in order and once |
| reverts | 1 run, 2 reverts, 4 updates | `UpdatesHold`: nothing waits for a number that never comes (when nothing fails) |
| between | 2 runs, 1 revert during the first or between the two, 4 updates; the second run keeps working | `UpdatesHold` |
| approvals | a call for a configuration and one for an MCP tool, 1 project, 1 subscriber | `DecisionsHold`, `StepsHold`: what was told is what happens; snapshots are current; a closed service grants nothing and is empty |
| tools | 2 calls of tools that a model reviews, in two modes, 1 project, 1 subscriber | `DecisionsHold`, `StepsHold` |
| mcp | 2 runs, 3 sets of connections, an edit, a save, Close | `RuntimesHold`: pinned stays open, nothing leaks, references are counted |
| logins | 2 connections, 2 logins, logout, retirement | `LoginsHold`: a newer login is not undone, a logged-out connection stops |
| withdrawals | 1 connection, 2 logins, up to 4 changes of the epoch | `LoginsHold` |
| connections | 1 subscription with 3 events (1 pending, 2 queued at most), 1 write of this client | `NotificationsHold` |
| writes | 3 writes of one session (2 in `Endings`), one of a client that may go | `WritesHold`: what was given up does not run, nothing runs twice, the queue does not stall, who is gone waits for nothing |
| files | 2 runs and an editor, 2 paths; patches of 1 or 2 paths, also in reverse order; 3 patches, 2 writers at a time | `FilesHold` (`ExactIsTrue`), `StepsHold` (`NoLostWrite`) |
| diffs | 2 runs, 2 files, a failed write or restart | `FilesHold` (`ShownUnlessTorn`), `StepsHold` (`UndoesItsRun`) |
| edits | 1 run, 1 file, 3 contents: the user edits what the run wrote and the run goes on | `FilesHold`, `StepsHold` |
| processes | 2 processes of runs at a limit of one, one with a terminal, 1 AgentInteract; Close | `ProcessesHold` |
| terminals | 1 client terminal that writes more than is read | `ProcessesHold` |
| reports | a task of 2 turns, 2 runs of the parent, stops, waits | `ReportsHold`: recorded once, a run starts informed, a Wait misses nothing |
| restarts | a task of 1 turn, 2 runs, 2 failures or restarts | `ReportsHold` |
| agents | 2 agents and the default, 3 sessions | `SettingsHold` |
| models | a provider of the user and one of the catalogue, each with a model, 2 protocols, 2 forms, a fault | `SettingsHold`: a model is asked in the protocol its options were made for (`ModelsFit`), what is current is on the disk (`CurrentIsDisk`) |
| handedits | the same with 1 form and an edit of either file by hand | `SettingsHold` |
| hooks | 2 projects, 2 pages, 1 call, 3 versions, the deletion of a project, an edit, a fault | `SettingsHold`: what runs was confirmed, a confirmation stays (`ConfirmedStaysApart`), no unread settings are replaced |

Runs that show a disagreement between the code and what is said about it
(`PROJECT.json`, "findings"):

| run | violated | what happens |
|---|---|---|
| `Updates_clock` | `ClockKept` | A revert passes its idle check; a run begins and ends; between `release` reading the run's number and writing it to `clocks`, the revert draws the next one. The write loses it: the next update of the idle session gets the same number and subscribers drop it. |
| `Conversations_fork` | `RecordsStay` | The metadata of a fork is published before its records are copied; a turn sent to the copy in between has its record replaced by the copied ones. |
| `Delivery_lost` | `Delivered` | The change signalled by a result and the tick of deliverLoop are ready together; the select may take the tick, whose scan looks at pending tasks only, and the captured signal is forgotten: the result waits for another change or the parent's next start. |
| `Agents_dangling` | `NothingDangles` | Spawn looks its agent up under the lock and writes the child's settings without it: a deletion in between leaves a reference to nothing. |
| `Connections_writes` | `OneByOne` | `Scheduler.run` removes the call it has answered, gives the lock back and then looks whether the queue is empty. A write scheduled in between starts a second goroutine on the same queue. Both take it; the one that loses the CompareAndSwap answers nil while the body runs. |

Other disagreements met while modelling, which no run repeats:

- A revert is accepted while another run of the session works, when it passed
  its idle check before (`runner/diff_store.go:154`;
  `docs/AGENTS/WEB_UI.md:29` says a revert needs an idle session and a revision).
- The revision of a diff restarts with a new tracker, so an old page may hold
  a number that is valid again (`runner/diff_store.go:39-42`).
- `publishUsage` may draw a number and publish nothing when its write fails
  (`runner/emit.go:69-84`). The server holds back what follows, and the client
  never sees the gap at which it would subscribe again
  (`docs/AGENTS/WEB_UI.md:11`). Here it ends when 128 updates wait; `UpdatesInOrder`
  is not affected, `QuietIsCaughtUp` is, which is why that one
  is checked where no write fails: no property covers this hazard.
- After a stop of the process in the middle of a batch nothing supplies the
  missing results (`runner/compact.go:155`, `runner/README.md:21`): the session
  can no longer be compacted. `CallsAreAnswered` is checked without crashes, and
  `ResultsFollowCalls` permits results that are missing: no property covers this
  hazard either.
- Forgetting a project's confirmed MCP configuration reads and writes the file
  without the lock, so a confirmation of another project in between is lost
  (`approvals/mcp.go:16` says other workspaces are not affected).
- The body of a diff may be on the disk although its write failed (after the
  rename, `persist/files.go:156-160`; the repository says so itself in
  `conversations/deletion.go:55`). `storeDiffLocked` then returns and
  leaves `reconciled` set, unlike after a failure of a record
  (`runner/diff_store.go:70-106`), so clients see a diff whose revert is refused for its revision until the
  session is opened by the next process. `ShownUnlessTorn` leaves that run out.
- `hooks.ForgetProjectTrust` (called by the deletion of a project,
  `conversations/deletion.go:147`) reads and writes the list of confirmed hooks
  without the lock (`hooks/service.go:37-56`): what a page was told is confirmed
  for another project in between is lost, though `hooks/README.md:25` says that
  saving confirms. `ConfirmedStaysApart` leaves such a project out.
- A second goroutine of the scheduler may also remove a write that nobody has
  run, whose caller then waits until it leaves, wait for ever to leave a second
  answer, or panic on a queue that the first has emptied
  (`rpc/scheduler.go:87-91`). `WritesHold` says what is left.
- A provider of the catalogue may be saved with another protocol than the
  catalogue's while no model of it is listed; entries of the catalogue that
  come back later are made for the catalogue's (`llm/settings.go:376-378`,
  `477-481`). `ModelsFit` leaves such providers out.
- A run that is stopped while it builds MCP connections fails everybody who
  waits for the same build (`FailsForItself` in `McpRuntime`).
- Retiring a server deletes the lock that serialises refreshes of its
  credential (`tools/mcp/oauth_store.go:240`, `oauth_credential.go:127`), and a
  login that was under way may store a credential for a retired server again
  (`oauth_store.go:218`).
- A view or a fork may write runs.json of a conversation after its deletion
  has removed it; the file belongs to nothing. Create stopped between its two
  files leaves an empty conversation without settings.
- An agent that was deleted while a page had it open comes back with Save;
  Fork copies a reference to an agent whose deletion has passed that session
  in its scan.
- The output of a terminal that is in its pipe when the process is killed may
  be lost (`machine/local/process.go:348-351`); a write of AgentInteract to a
  full pipe does not see its context (`process.go:172`).

Bounds. Two runs of one session are enough for everything that compares a run
with the next (sessions share no variable of these modules but `closing`); two
Steers and a message give batches in which the head, the middle or the tail
fails, and a message that overtakes or is overtaken. A caller waits for one run
and Close for the one that is live, so one run is enough for their liveness. `MaxUpdates` lets a
subscriber come before, between and after the updates of two publishers with
more waiting than `BufferLimit` allows (2 stands for 128). Batches of two calls
distinguish the call that runs from the ones that wait, three calls allow a
second batch; the second turn in the scene "faults" reads what the first left.
In `Subagents_stop` five calls of any kind (`MaxCalls`) are enough for a turn, a
Spawn, a message to the child, a stop and a call after it, or for a grandchild,
a stop two levels above it and a message that follows; two messages race for a
task's lock; conversations share nothing but `closing`, so one is enough. That
the limit of the depth holds is not checked: it takes a third Spawn. Three
requests in `Conversations` give a fork or a deletion, a request beside it and
one after it. A limit of one process, a queue of two and a pending limit of one
are reached with one event, process or notification more. One edit by hand and
one failed write can be placed between any two steps of two forms. Three saves or
deletions of settings add a provider, add its model and change or remove it. Three writes
let a goroutine of the scheduler that came second meet a call behind the one
both took; `Endings` has two, enough for a second goroutine. Two paths
are enough for the opposite orders of two patches.
Runs say CHECK_DEADLOCK FALSE because identities and bounds are used up.

Fairness. `Runner`: the goroutine of a run continues (its steps do not block
but on locks that are always given back); model requests and tools end, so a
loop reaches a checkpoint while something is held, and returns once it is
cancelled: the code passes the context to each. Callers of Steer take their
answer, Close continues. No one is obliged to call, stop or close.
`Updates`: publishing goroutines and the subscribing request continue.
`ReactLoop`: steps of the loop continue; a tool that never returns is out of
scope (tools get the context and are interrupted). `Approvals`: a call goes on
when it has something to go on with; nobody has to answer or stop. A review
ends, by its timeout. `McpRuntime`: a build ends, by the timeout of its
connections. `Connections`: handlers, who waits for a write and each goroutine of the
scheduler go on (a goroutine that has no room for its answer has no step), and a connection
whose context is cancelled loses its transport. `FileChanges`: locks are taken
in the order of the paths, each as soon as it is free; approvals are answered.
`Processes`: goroutines go on and a killed group ends; a process that is not
killed may run for ever. `Delivery`: goroutines go on, the ticker ticks; the
scans of three callers take turns at deliveryMu, hence strong fairness.

## 4. Proofs

`Runner_proofs` proves for every number of sessions, runs, calls and messages,
from `RunnerAssumption` alone (disjoint identities, every run and message has
a home):

| theorem | states |
|---|---|
| `TypeCorrect` | `Spec => []TypeOK` |
| `OneActiveRunHolds` | a run that may still write occupies its session |
| `NothingStrandedHolds` | inputs are held only while admission is open; it is closed once the session is given back |
| `RefusedNeverRecordedHolds` | a refused Steer is neither recorded nor held, nor will be |
| `SteersInOnePlaceHolds` | a Steer is nowhere, held by the run it was addressed to, or recorded, never two of these |

`OneActiveRun` is inductive with `TypeOK`: a run enters the active phases only
through `Begin`, which needs the session free, and leaves them in the step that
frees it. `NothingStranded` is inductive as it stands, but only with its middle
conjunct (admission is not open before the prompt is published). For
`RefusedNeverRecorded` the strengthening is `SteersInOnePlace`: a call that has
not been admitted is nowhere; one that is held is held by its own run, has not
been refused and is in no ledger. Then a checkpoint records only calls that
were not refused, and what `FinishInputs` refuses is held nowhere else. Lemmas
of the module say what each kind of step does to one run or call (others stay,
entries are only added), so that each action has short obligations. That each
step keeps `TypeOK` is a lemma (`TypeKept`), used where a proof needs the types
of the next state.

The second part of `Runner_proofs` goes on from there:

| theorem | states |
|---|---|
| `StartedIsEndedHolds` | RunEnded follows every RunStarted before the session is free; the record is final unless it could not be written |
| `ClosedIsQuietHolds` | once Close has returned nothing is written any more |
| `RunsAreBlocksHolds` | the entries of a run are one block behind its prompt |
| `AcknowledgedIsRecordedHolds` | nil means recorded; after another answer of a checkpoint the run takes no more inputs |

`EndsWell` says of each phase what is owed there: nothing was announced before
the record was written, the announcement of the end is behind the last write of
the record, answers are given while the run is in "answer" only. `ClosedIsDone`
follows from wg: with every run new or done and `closing` set there is nobody
to write. `Blocks` adds to `RunsAreBlocks` that the last entry of a session is
of the run that may add inputs to it (`Headed`); with `OneActiveRun` no other
run can put one in between. `Answers` follows a checkpoint through its answers:
those of the first `good` inputs of the batch are in the ledger when the batch
is formed, and stay there because ledgers only grow (`LedgersGrow`); whoever is
answered otherwise finds `faulty` set, which only another checkpoint could
reset, and that one needs an open admission, which a run that failed has given
up (`NothingStranded`).

Its second half speaks of whole ledgers, from the same assumption:

| theorem | states |
|---|---|
| `RecordedOnceHolds` | an input is in the ledgers at most once |
| `AnsweredOnceHolds` | a caller of Steer is answered at most once |
| `RunnerImplementsInputLog` | `Spec => KeepsPromise`, the refinement |
| `AnswersHoldHolds` | the last two together, as the run checks them |
| `RecordedInOrderHolds` | the jth entry behind a run's prompt is the jth input it admitted, and none is recorded twice |

`RecordedOnce` is not inductive: `Fresh` adds that what is held is held once, by
a run of its session (`AtHome`), and recorded nowhere. Then what a checkpoint
appends is new, and what `Receive` admits is new because it reads the ledger
and the held inputs under handoff. `Waits` adds that a Steer without answer is
in one place, held or in the batch of a checkpoint, so nobody answers it again.

The refinement sorts the steps by what they do to inputs (`WhoHolds`): nothing
(`Rests`, a stutter), a prompt or summary (`Opens` is Open), one more held
(`Admits` is Offer), a checkpoint (Settle of the first `good` inputs), or a run
that lets go of what it held (`Drops` is Settle of none). The mapping to queues
and fates is `Queue` and `Fates`. Two facts come in besides: an input that was
admitted and is neither held nor recorded was refused (`Refusable`), and a
compaction never opens its admission (`Closed`), so its summary overtakes
nothing.

For the order, `Follows` says of a run that takes inputs: what is behind its
prompt in the ledger and then what it holds are all that it has admitted. A
checkpoint that fails breaks this, and from there to the end of the run nothing
more is recorded (`Taking`). A second opening of a run would have to be one of
its inputs (`OneOpening`), so the place of the prompt is the same in every step.

`Subagents_proofs` proves for every number of conversations, operations and
stops, for trees of any depth, from `SubagentsAssumption` alone (disjoint
identities):

| theorem | states |
|---|---|
| `SubagentsTypeCorrect` | `Spec => []TypeOK` |
| `StopsAreFinal` | `Spec => []StopsHold`: what was under way below a stopped session does no work uncancelled |
| `FamiliesStayApart` | `Spec => []FamiliesApart`: a stop cancels nothing asked for later, no message crosses it, a child on disk is known as one |
| `EndsStayFinal` | `Spec => []EndsAreFinal`: nothing is at work in or below a deleted session, nor after Close |

`StopsHold` speaks only of runs that have reached their first request; `IInv`
follows each operation there. What was under way at a stop meets a closed door
wherever it is (`DoomInv`): before its last test under `s.mu` its permit is
outdated or it has crossed the stop; until its run works its task is shut out,
or the run is cancelled; after that the run is cancelled. A door stays closed
because permits are never ahead of the generation they were taken from
(`GenInv`), and a deletion, which forgets generations, marks its sessions
deleted. Only a Send that is not outdated reopens a task, and while a run is
being started the task is locked by whoever starts it (`LockInv`), so a later
Send cannot open the door for an earlier operation. `RunInv` ties a run to the
session it occupies, and `TargetInv` an operation to its task and parent. What
a stop reaches is the smallest set closed under the relations; the proof uses
that it contains the stopped session, is closed, and contains the parent of
each other member (`DescendantsSelf`, `DescendantsClosed`, `DescendantsParent`).
TLC agrees that `IInv` is an invariant of the instance above.

The last two theorems rest on `EndInv`, which is inductive together with
`IInv`. That a stop is precise is the converse of `DoomInv`: as long as an
operation is on its way or its turn is, and no stop has found it, nothing bars
its task (`CleanInv`), so neither of the checks of startTurn cancels it, and
only what a stop has found is marked (`MarkInv`). A message that waits for its
task and names its run is doomed whenever the run it names is (`SteerInv`).
`QuietInv` keeps deleted sessions out of all relations, as a parent and as a
child, and a Spawn that has not registered its child has none that is deleted.
`WorkInv` is the promise of the wait group: who has left a run behind is still
counted.

`Conversations_proofs`, for every set of conversations, children and requests
and all bounds, from `ConversationsAssumption` (disjoint identities, at least
one turn):

| theorem | states |
|---|---|
| `TypeOKHolds` | `Spec => []TypeOK` |
| `NothingComesBackHolds` | what was deleted has no file but perhaps records, and is not listed |
| `WholeConversationsHolds` | a listed conversation has its settings, its copied history and no record of a turn it lacks |
| `StartsOnlyInOpenHolds` | a run begins only in an open conversation that is there |
| `ReadOnlyForwardHolds` | a reading position never goes back, and never to a run at work |

Requests interleave between any two files, so the invariant says of each
request what it relies on (`Own`): a Send and a fork keep the lock of a session
that can be found (`Locked`), a fork and a Create own a session that nobody can
find until its last file is there (`Made`), a deletion has taken all that is not
left on its list (`Removing`), a view saves records of turns the ledger has
(`Views`). `Step(c)` is the guarantee: what a step of request `c`, or of a run,
may do to the files, the locks, the intents and the runs of everybody else.
Files that can be found only grow, deleted ones only shrink, new ones belong to
the request that makes them, and runs.json, which a view writes without the
lock, may change at any time: it is the one file `NothingComesBack` has to
leave out. `StepKeepsIInv` proves once that a step within the guarantee keeps
the invariant of everybody else; each action then has a lemma that it is such a
step and keeps its own part. The replay of deletions works alone (`Down`) and
has lemmas of its own, as a crash has, after which only files are left. TLC
agrees that `IInv` is an invariant of the instance above.

`ReactLoop_proofs`, for every finite set of calls, all sizes of answers, any
number of turns and inputs, with and without compaction, failing writes and
crashes, from `ReactLoopAssumption`:

| theorem | states |
|---|---|
| `TypeOKHolds` | `Spec => []TypeOK` |
| `ResultsFollowCallsHolds` | results follow their answer at once, in the order of its calls |
| `RequestsTheLedgerHolds` | what the loop carries along is the context the ledger gives |
| `ContextIsWholeHolds` | the context has the call of each result, and the last words of the user |
| `CompactsWhatIsNewHolds` | no summary follows another |
| `CallsAreAnsweredHolds` | without failing writes and crashes a turn that is over leaves no call open |
| `TurnsAreWhole` | `ScenesSpec => []TurnsHold`, if `MaxTurns > 0`: the scene "turns" of `MCReactLoop` |

The part of the invariant that is about the ledger alone (`Sound`) is kept by
every way the ledger grows: words of the user (`WordsAreSound`), results
(`ResultsAreSound`), a summary (`SummariesAreSound`). `ContextGrows` and
`ContextRestarts` say what becomes of `Context`: it grows with the ledger, and
starts again at a summary with what that one keeps. For `ContextIsWhole` two
facts are needed that no property states. A context goes forward in the ledger
behind the summary it may begin with (`Forward`), so that the part before a cut
and the part behind it do not mix; and a result answers a call that was issued,
no two the same one (`Once`), so that a cut at which no call is open keeps or
drops a result together with its call. For the order of results, `Open` ties
the batch to the ledger: it is what is left of the last answer behind the
results that follow it. `CompactsWhatIsNew` holds because the loop remembers
the summary it wrote last (`Headed`, lastCompactHead). TLC agrees that `IInv`
is an invariant of both scenes.

That no call stays open is kept by every step that does not give up its batch
(`GivesUp`, `NextSettles`): only a failed write or a crash does, so there is no
such step where both are excluded (`NothingGivenUp`), nor in the scene "turns",
whose steps are steps of the module (`TurnSteps`). `CallsAreAnsweredHolds` is
the first case for any number of turns, `TurnsAreWhole` the second, as the run
checks it.

`Tools_proofs` has a section for each module that a run works with. The modules
share no state: each is an instance there, and its invariant is stated in named
parts. `ApprovalBehaviour`, `RuntimeBehaviour`, ... are `Spec` without its
fairness, which none of the theorems needs.

`Approvals`, for every number of calls, subscribers and projects, every mode
and kind of call:

| theorem | states |
|---|---|
| `ApprovalsTypeCorrect` | `TypeOK`, if every call has its project |
| `DecisionsCountHolds` | a call ends as somebody was told, or was stopped |
| `ClosedIsEmptyHolds` | a closed service shows nothing, hears nobody, and is left by every call before Close returns |
| `ClosedGrantsNothingHolds` | no step of a closed service grants anything |
| `LatestIsCurrentHolds` | the snapshot a subscriber took last or finds in its channel is what is pending (if no call is called "nothing", the mark of an empty channel) |

The invariant follows an answer from the human to the call: what lies in its
channel was said, except that Close refuses without saying so (`ToldInv`);
whoever meets such a refusal also meets the closed service at the last look at
both contexts (`Decide`), so it ends as cancelled and not as refused. This is
why that look must read the service's own context and not only the derived one.

`McpRuntime`, for every finite set of runs, any number of sets of connections
and of edits (`RuntimeConstants`):

| theorem | states |
|---|---|
| `RuntimeTypeCorrect` | `TypeOK` |
| `PinnedStaysOpenHolds` | what a run has pinned is open until Close |
| `NothingLeaksHolds` | what is open is current or held by somebody; after Close nothing is |
| `RefsCountHolds` | the count of a set is the number of its holders |

`RefsCount` alone is not inductive: the proof has to know who a holder is
(`PlaceInv`), that one run at a time builds a set and leaves it built
(`BuildInv`), and that a set which is not current is retired and still held
(`StateInv`), so the last release finds it to close. Most of the work is
counting: `HoldersJoin` and `HoldersPart` say what one run more or less does to
the cardinality.

`Credentials`, for every finite set of connections, at least one login and any
number of withdrawals (`CredConstants`):

| theorem | states |
|---|---|
| `CredentialsTypeCorrect` | `TypeOK` |
| `NewLoginStaysHolds` | a refresh never writes an older credential over a newer one |
| `LoggedOutIsOutHolds` | a refresh changes the store only in the generation it was opened in |

The server's mutex is forgotten at a logout or a retirement and made anew, so
two connections may each hold one (`Exclusive` says only that they hold
different ones). What saves is still right: a connection that belongs to the
current epoch and generation has the present mutex, and what it refreshes is
not older than what is stored (`CurrentOf`); any other is refused at `MaySave`.

`FileChanges`, for all runs, editors, paths and plans of patches
(`FilesConstants`: every path has a content, patches write contents):

| theorem | states |
|---|---|
| `FilesTypeCorrect` | `TypeOK` |
| `ExactIsTrueHolds` | a diff that is called exact starts with what the run found and ends with what it left |
| `NoLostWriteHolds` | a write replaces only what its writer has read |

`NoLostWrite` needs that a helper holds the locks of all its paths (`HoldOf`)
and that what it has just compared stays (`CheckedOf`). For `ExactIsTrue`,
`TrackInv` takes the tracker through the changes the helper has made so far,
reported or not, and compares the result with what the run really found and
left. The attempt to prove it showed that the property had been stated too
strongly: a file that others changed and changed back between two patches of a
run looks untouched to the tracker, which compares contents
(`diff_tracker.go:68-75`), and the baseline it goes on with is then the older
one. `ExactIsTrue` had counted such a file as changed by others, and TLC had no
instance with the case. It now says what the code promises: what a run
`Found` is its earlier baseline as long as it finds what it had left.

`Processes`, for all processes, terminals, callers and limits
(`ProcessConstants`):

| theorem | states |
|---|---|
| `ProcessesTypeCorrect` | `TypeOK` |
| `ExitIsWholeHolds` | who is told of an exit has all the output |
| `CleanCloseLeavesNothingHolds` | after a Close without error nothing runs |

Output is in the pipe, in the buffer or delivered (`OutputInv`); a process ends
before its reader and the reader before it counts as exited (`OrderInv`); what
runs is in the table (`TableInv`), where Close finds it.

`RunDiffs`, for all runs and paths and any number of failures (`DiffConstants`:
each patch writes new contents):

| theorem | states |
|---|---|
| `DiffsTypeCorrect` | `TypeOK` |
| `ShownUnlessTornHolds` | once compared, what is shown of a run is what a revert works with, unless its body failed to be written and was neither stored nor compared since |
| `UndoesItsRunHolds` | a revert leaves a file as it was before its run and after the last thing anybody else did to it |

The two files differ only between the write of the body and that of the record,
under recordsMu, and for a run that is `torn` (`StoreInv`). Without that
exception the statement is false (section 3); the theorem says
that no other failure parts the two. A revert needs no exception: it works with
the body alone. `NetInv` says what the tracker knows: a file it
does not list is as the run found it, one that holds what the run made of it
was before as the tracker says. `ApartInv` keeps the diffs of other runs from
restoring what the run under way made, which `UndoInv` needs for every stored
diff and for the revert that has passed its check.

`Connections`, for all subscriptions, calls and limits (`ConnConstants`):

| theorem | states |
|---|---|
| `ConnectionsTypeCorrect` | `TypeOK`, with the limits of the queues |
| `NothingLostHolds` | every event heard is pending, queued or delivered, once |
| `AfterResponseHolds` | no notification passes the response that names its subscription |
| `ClosedHearsNothingHolds` | a connection that is over hears nothing and waits for no write |
| `RunsOnceHolds` | a write that was given up never runs, and none runs in two goroutines |
| `NothingStallsHolds` | a queue that is not empty has a goroutine that can go on |

`CountedOf` is the count of `NothingLost` with an inequality that holds also
when the connection is lost; `PlaceOf` ties the listener of a subscription to
the cleanup that ends it. `ConnectionCallInv` is about the scheduler with any
number of goroutines on a queue: a write is queued once (`QueuedOnce`); what a
goroutine has taken is the first of its queue or has been removed by another
(`ItemIsFirst`); a write that has its answer and is still queued is about to be
removed by whoever left the answer (`AnsweredIsPopped`), so a goroutine that
waits with a second answer is never the last that serves the queue. That bodies
of a session do not overlap cannot be proved: `Connections_writes` shows the
opposite.

`Sessions_proofs` has the sections of what surrounds a session.

`Updates`, for every number of runs, reverts and updates and every limit of
what may wait, if no run is a revert or is called `NoRun` (`Distinct`):

| theorem | states |
|---|---|
| `TypeOKHolds` | `Spec => []TypeOK` |
| `UpdatesInOrderWhenCalm` | `Spec /\ [][Calm]_vars => []UpdatesInOrder` |
| `ClockKeptWhenCalm` | `Spec /\ [][Calm]_vars => []ClockKept` |
| `NumbersWithoutReverts` | both, from `Spec` alone, if `Reverts = {}` |
| `QuietIsCaughtUpWhenCalm` | `Spec /\ [][Calm]_vars => []QuietIsCaughtUp`, if `~DiskFaults` |

Without a condition `ClockKept` is false, which is what `Updates_clock` shows,
and with five updates in that configuration the other two are violated as well:
what is issued a second time under an old number is dropped by a subscriber.
`Calm` says that nothing is numbered while `release` has read the number of a
run and not yet written it, so the theorems say that this window is the whole
of the defect; without reverts nothing is ever numbered in it. The invariant
counts (`Counted`): the kth update has the number k, and whoever numbers next
knows the length so far. `Held` and `Passed` then place what waits at the
subscriber by its number, and `FlushPasses` shows that `flush` goes up to the
first number that is missing. `UpdateOwed` is for the last theorem: what the
subscriber lacks is in an outbox or waits, and a publisher that copied the
listeners too early for it carries a number that the snapshot includes.

`Delivery`, for every set of tasks and all bounds:

| theorem | states |
|---|---|
| `DeliveryTypeCorrect` | `TypeOK` |
| `RecordedOnceHolds` | a report is in the parent's ledger at most once |
| `WaitMissesNothingHolds` | a turn that ended since a sleeping Wait looked is still to be signalled |
| `StartsInformedHolds` | a run's first model request comes after every turn that had ended at its announcement is in its ledger |

`QueueInv`: what is queued is not recorded, because the ledger is looked at
again under handoff. `OwedInv` places each report that is owed: recorded,
queued, or ahead of the scan that `onRunStarted` makes; a scan that failed ends
the run instead. Other scans may take the same report at the same time and
only move it forward.

`HookSettings`, for every number of projects, pages, calls and versions (if no
page and no project is called `None`):

| theorem | states |
|---|---|
| `HooksTypeCorrect` | `TypeOK` |
| `RunsConfirmedHolds` | what runs was saved or confirmed for this project |
| `ConfirmedStaysApartHolds` | a confirmation that succeeded is in the file until its project is deleted, if it was not made or forgotten while another was between reading and writing the list |
| `NothingOverwrittenHolds` | a page replaces the global hooks it showed |

Between its lock and unlock a page is the holder of Service.mu, so the whole
file it writes is the one it read with one entry changed (`LockInv`). A deletion
is not, so the invariant compares its copy, and that of the page, with the file
on all projects that did not change since (`CopyInv`); `mixed` names those that
did, and the theorem leaves out no other. Versions enter the file only when a person confirmed
them (`TrustInv`).

`AgentSettings` (if the default is an agent) and `ModelSettings` (`ModelConstants`:
every model has a provider, no form and no protocol is called `None`, and an
entry of the catalogue is of a provider that the catalogue knows and has its
options for its route or else for that provider's protocol):

| theorem | states |
|---|---|
| `AgentsTypeCorrect`, `ModelsTypeCorrect` | `TypeOK` of each |
| `ChoiceExistsHolds` | the agent of a session that was chosen in the settings exists |
| `ListIsWholeHolds` | a list of agents never meets one that is being deleted |
| `ModelsFitHolds` | on the disk, in the client and in every run a model is asked in the protocol its options were made for, if neither it nor its provider was edited by hand and the provider, if the catalogue knows it, has the catalogue's protocol |
| `CurrentIsDiskHolds` | what is current is what the files say, unless a reload is due |

A deletion has still to read every session that could refer to its agent
(`AgentScanInv`), because choices exclude it; what Spawn and Fork write does not,
and `Agents_dangling` shows the consequence. For the models, a form that goes on
to write holds editMu, so what it is about to write agrees with what the other
file says, and a form that writes both leaves them in agreement after the first,
too (`FormInv`): that is why a failure between the two is harmless.

`ToolServices_proofs` and `SessionServices_proofs` prove of `MCServices` what
its run checks, so that run and theorem speak of one formula:

| theorem | of the run `Services` |
|---|---|
| `ServicesDecisionsHold`, `ServicesRuntimesHold`, `ServicesNotificationsHold`, `ServicesWritesHold`, `ServicesFilesHold`, `ServicesProcessesHold` | the invariants of the parts of `Tools_proofs` |
| `ServicesLoginsHold`, `ServicesStepsHold` | the action properties |
| `ServicesUpdatesHold`, `ServicesReportsHold`, `ServicesSettingsHold` | the invariants of the parts of `Sessions_proofs` |

A behaviour stays in its part and takes the steps of that part (`PartSteps`).
The theorems of the components are instantiated with the constants and the
variables of the part: `XSame` says that the instance of `MCServices` and that
one have the same operators, `XAre` that the constants satisfy what the
component's theorems assume, `XKept` that the invariant holds while the
behaviour is in the part. `ServicesAssumption` is what the theorems need of the
model values, that they differ; TLC evaluates it. For the settings of `Updates`
it remains to be shown that they are `Calm`: without reverts, with one run that
ends, or with a second that goes on, nobody numbers in the window of `release`.

Every safety property that a passing run checks is a theorem. Only
model-checked: everything temporal (`WaiterReturns`, `ClosedRunEnds`,
`CloseReturns`, `StopEnds`, `EverythingEnds`), since liveness under fairness and
ENABLED are out of reach of the prover. The five runs that find a violation are
TLC's alone.

## 5. What could follow

A lossless channel as the abstract specification of `Updates`; the other abstract
specifications that `InputLog` suggests, an account of what a session was told
for `Delivery` first; a third Spawn for the limit of the depth.

## 6. Not modelled

- Rendering, windows, sandboxes, wire formats, the protocols of providers and
  of the OAuth flow: I/O with little state of its own.
- File watches and searches (`machine/local/watch.go`): notifications without
  an effect on state that is kept.
- The death of a worker process together with its host; external programs.
- Device logins of model providers (`llm` logins): the same hazards as
  `Credentials`, in separate code.
- The text of patches, the search for context lines, rules for paths and
  commands: pure functions on text.
- `validateTaskGraphLocked`: the refusal of inconsistent relations read at a
  start. A whole or torn line that a failed append leaves at the end of a
  ledger (`persist/files.go:164-190`, read by `session/jsonl.go:37-66`) and a record that stays running when its
  last write fails (`runner/records.go:91`) are met only as far as `Runner` and
  `Conversations` interrupt stale records.
- Closing order of `internal/backend`: each Close is modelled in its component.

The manual compaction of an idle session appears in `Runner` as an occupant of
the session, and its choice of a cut only inside a turn, in `ReactLoop`.
