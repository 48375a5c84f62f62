# Verification of the intention relay

The intention relay is a local daemon that owns chat sessions with a language model: a client sends user
turns over a local socket, the daemon stores them, runs the model with its tools, and streams what it commits
to every client that follows the session. This directory holds TLA+ models of its components, from the socket
path and the database file to the input line of the terminal, the TLC configurations that check them, and TLAPS
proofs about most of the invariants these check.

Paths below are relative to `src/crates/`. `PROJECT.json` maps every definition to the lines it models.

## 1. The system

| Component | State | Operations | Talks to | Modules |
|---|---|---|---|---|
| Storage, `intention-storage` | SQLite tables `sessions`, `turns`, `runs`, `messages`, `tool_results`; the file and its schema stamp | one immediate transaction per repository call: accept, remove, consume, transition, finish, append, tool result, recover; open, recreate | engine, composition, host | `Storage` and its refinement, `Catalog` |
| Engine, `intention-engine/src/runtime.rs` | one executor per run: live messages, retry and round state, `RunCancellation` | attempts, provider rounds, tool batches, boundaries, outcome | storage, provider stream, tools, observer | `RunExecution`, `RunTranscript` |
| Engine operations, `intention-engine/src/lib.rs` | none of its own | `send_user_turn`, `remove_turn`, `create_session`, the life of a tool call, the context of a run | storage, observer | `Storage`, `StartingContext`, `Catalog` |
| Context window, `intention-engine/src/context_window.rs` | calibration, marks of compression | estimate, compress, mark for the cache | engine | `ContextWindow` |
| Composition, `intention-daemon/src/composition.rs` | command gate, configuration snapshot | open and recover, commands inside the gate, session snapshot | storage, engine, host | `Catalog`, `HostAdmission` |
| Host, `intention-daemon/src/lib.rs` | registry (tasks and subscribers) behind one lock; a task per connection; windows of provisional text | schedule, cancel, fail, publish, subscribe, drain; serve a connection | engine, composition, clients | `HostAdmission`, `HostConnection`, `SessionStream`, `ProvisionalText` |
| Client, `intention-client` | `SessionStreamState` with its retained window, the launch lock | subscribe, apply frames, reconcile, launch a daemon | transport | `SessionStream`, `RetainedTranscript`, `Bootstrap` |
| Transport, `intention-transport` | sockets, residual line buffer | connect, bind, reclaim a stale socket, framing | client, host | `LineFraming`, `Bootstrap` |
| Providers, `intention-providers` | bounded event queue of one request, fragments of its calls, cancellation cell | translate wire events to model events, cancel | engine | `ProviderStream`, `CancelSignal` |
| Tools, `intention-tools` | none across calls; a process group and two pipe readers within one | read, write, edit, grep, glob, execute | engine | `WorkspaceTools`, `CommandExecution` |
| Configuration, `intention-config` | none | resolve and validate a document | composition | `Catalog` |
| Terminal, `intention-tui` | view, armed presses, two queues to the client task; input line, paste detection, transcript pane, pickers | keys, effects, reconnection, stop and quit sequences | client | `Terminal`, `InputLine`, `PasteDetector`, `RetainedTranscript`, `Pickers` |
| Headless command and line loop, `intention-tui` | driver, text report | send a prompt, stream its run, deadline, signals | client | `Headless`, `ProvisionalText` |
| Data types `intention-proto`, fakes `intention-test-support` | none | validation, encoding | all | |

A user's line becomes a turn (`InputLine`, `Terminal` or `Headless`), travels as a line of JSON (`LineFraming`,
`HostConnection`) into the command gate and a transaction (`HostAdmission`, `Storage`); its run asks the provider
(`RunExecution` with `StartingContext`, `ContextWindow`, `ProviderStream`, `CancelSignal`) and calls tools
(`WorkspaceTools`, `CommandExecution`); what it commits and streams comes back (`SessionStream`,
`ProvisionalText`) to what the screen shows (`RetainedTranscript`).

What is hard in each, and what makes it correct:

- **Storage.** Several connections, the executor and start-up recovery change the same rows; the process may
  die between any two transactions; a command may be repeated after its reply was lost. Correct: one active run
  per session, each accepted turn reaches the transcript once and in order or is withdrawn, a closed run stays
  closed, and recovery leaves no run of a dead process open.
- **Run execution.** A stop, a shutdown, arriving turns and refused writes race with the executor; the signal is
  two atomics and a flag, raised and reset one after another. Correct: requests carry what joined, the transcript
  keeps a shape providers accept, a retry discards nothing durable, every run ends.
- **Host admission.** The accepting command, its repetition, and the run that ended before may all schedule one
  run, each returning early because of another; there are two locks. Correct: no starting run is forgotten, none
  runs twice, every command is answered, the drain sees the registry empty.
- **Session stream.** Commit and publication are two steps on several threads, subscription falls between them,
  queues are bounded, connections end. Correct: no row is lost, the reply comes first, a slow client is cut off
  and never left behind, and what is shown settles on what is committed.
- **Provisional text.** A cadence task, the streaming executor and the observer share the pending windows.
  Correct: no text of a step after its row, none after the run.
- **Bootstrap and transport.** Processes race for a lock file and a socket path, die, and leave a stale socket; a
  read is dropped in the middle of a line. Correct: one daemon serves, every caller returns, lines arrive whole.
- **Connections.** Registration happens on a worker while frames are broadcast and the queue fills. Correct: one
  registration, and each request is answered or ends the connection.
- **Tools.** Descendants keep pipes open, a lost wake-up would keep a call, other programs change the files.
  Correct: complete output is whole, an interruption leaves no process of the group, a refused call changes nothing,
  a search marks every cut of what it read, every stopped call returns.
- **Provider streams and contexts.** Fragments of calls arrive mixed, usage and ends in odd places; a rebuilt
  context contains calls that never got an answer. Correct: the order is kept and ends once, calls carry their own
  fragments, requests contain answered calls only and fit the window.
- **Catalogue.** A crash while the file is replaced, or between the binding of a workspace and the answer.
  Correct: a served database is whole and of this schema, what was answered is still there.
- **Front ends.** Replies of one session arrive in the next one, rows move under a selection, presses are held back
  as a possible paste. Correct: one stream is held and comes to rest, positions that rows may have left are dropped, a frame shows
  the present rows, every press arrives once, a prompt ends with its own run.

`PROJECT.json` lists these dangers at their lines under `hazards`, with the properties that cover them.

## 2. The plan

The modules were written in this order, the durable core first: `Storage` with `TurnDelivery` and
`StorageDelivery`; `RunExecution` with `RunTranscript`; `HostAdmission`; `SessionStream`; `ProvisionalText`; then
`Bootstrap`, `LineFraming`, `HostConnection`; `CommandExecution`, `WorkspaceTools`; `ProviderStream`,
`CancelSignal`, `ContextWindow`, `StartingContext`; `Terminal`, `Headless`, `InputLine`, `PasteDetector`,
`RetainedTranscript`, `Pickers`; `Catalog`. What was left out is
listed in section 8.

What composes what: `StorageDelivery` and `RunTranscript` are abstract specifications that `Storage` and
`RunExecution` implement. `Components` (what brings a daemon up and keeps its links, commands and database, and what a run exchanges with
the model) and `Exchanges` (the tools that work on files, and what a user sees and types) each instantiate
component modules side by side over the variables of `PartState`, and `MCProgress` those whose liveness is checked
(section 5).

The proofs went in the same order: storage and its refinement, the executor and its refinement, host admission; the
session stream and provisional text; then the components of `Components`, in `ComponentProofs`, and those of
`Exchanges`, in `ExchangeProofs`.

## 3. The modules

**Storage.** The five tables are variables: `turns` in rowid order and `rows` in id order are sequences, `runs` a
function, `results` the set of answered calls. `up` says that a process serves, `epoch` is its configuration
revision, and `born` remembers the runs the present process started. Each repository call is an action with all
of the checks of its transaction; a refusal or a replay answers without changing a row, so it is a stuttering
step and only its answer is modelled, by `ReplayOutcome`. A transaction cut by a crash is the action not taken.
`Open` is recovery and happens before a command is served. `AcceptUserTurn` has the three outcomes of the code:
queue behind an active run, start at once, or promote the oldest pending turn under that turn's own run identity
and queue the new one. Message text, timestamps and the read models are left out.

**TurnDelivery, StorageDelivery.** What a session promises about turns without any table: arrivals wait, are
served or withdrawn, and waiting turns join together. `StorageDelivery` maps the tables to it.

**RunExecution.** One run from acceptance to outcome. The executor's program counter names the awaits and
the transactions of `execute`, `drive_attempt` and `drive_provider_round`; one step is one transaction or one
access to an atomic. The provider may stream any mixture of text, reasoning and calls and end in any way at any
time; a tool may answer, answer partially or be cancelled; each write may be refused because the run is closed
or, up to `MaxFaults` times, by the backend. The stop request looks the run up, raises the model half, then the
tool half, or closes an unowned run; the shutdown raises the same signal. `log` and `live` are kinds of rows and
of request messages; `Within` of `Selections` filters them.

**RunTranscript.** What a reader may rely on in the rows of one run; `KeepsTranscript` is the refinement.

**HostAdmission.** Threads are connections and executors. `gate` and `registry` are the two locks, `tasks` the
registered runs, `stopped` those whose handle holds a stop, `command` and `target` the runs a thread's command
and its current call are about. A turn is sent inside the gate and scheduled after it is left; an executor that
leaves publishes and schedules a successor. A read or a write may be refused `MaxFaults` times. The drain of a
shutdown arms its notification, reads the registry and sleeps.

**SessionStream.** `rows` and `status` are durable; `owed` is what each publishing thread has still to publish,
in order; `queue`, `watermark`, `subscribed` and `closing` are the registry and the connections' queues;
`shown` and `view` are the client's state. A status publication is two steps, the read and the broadcast. A
subscription is two reads under the registry lock followed by the reply and the registration. The client uses
each connection for one subscription and merges every later snapshot.

**ProvisionalText.** What one run streams before its rows are committed. `pending` is the window of each channel,
`holder` the thread inside its lock, `turn` the channels that thread has still to publish: a flush takes the lock
once and publishes one channel per step, so that a subscription, or the end of one, falls between them. The
executor streams, commits a row, flushes, publishes the row, ends the run and `finish`es its windows; the cadence
task flushes when it likes until it sees `finished`. `buffer` and `provisional` are the client's, `streamed` and
`printed` the text report's. A chunk is its step, its place and whether it is blank. Queues are those of
`SessionStream`, so a broadcast is applied to the client at once. A subscriber the model does not follow may keep
the port retaining text while this client is away.

**Catalog.** How a document becomes a selection or a refusal (`Resolve`), the opening of the file (read the stamp,
delete an earlier or unstamped file and its journal in two steps, create, stamp, accept the revision, recover the runs
before any peer is served), and the commands that make sessions inside the gate. `file` is what is on disk with its
rollback journal; a crash may tear any write, that of the schema into a new file included. `call` and `answer` are what a client was
told. A creation whose answer was lost is repeated: the process that accepted its first turn replays it, a later one
refuses it (`replayed_turn` compares the configuration revisions), with session and turn in the database all the same.
The other conflict, of a root with another workspace identity, cannot be reached behind the gate: `CatalogIsKept`
says so.

**Bootstrap.** A client's `at` is its place in `connect_or_bootstrap`, a daemon's `stage` its place before it
serves. `path` is the socket that the path leads to, with an inode that the file system may give away again. `raced`
records that the path was replaced between the comparison of its identity and the unlink, or that an inode was
reused: the code cannot see either, and `OneDaemonServes` is claimed apart from them.

**LineFraming.** Two ends and the bytes between them. A read adds a chunk to `residual`; `DropRead` is the select that
drops it. `MaxMessageBytes` is the cap: a longer line ends the link with `too_large`.

**HostConnection.** `phase` is where a connection's task stands, `queue` its frames, `registry` the subscriptions,
`guard` the registration that its end removes. A broadcast may fall between any two steps, and a full queue makes the
connection close.

**CommandExecution.** The child, a descendant in its group and one out of it; `holds` are the pipes a process has
open, `kept`, `consumed` and `written` the bytes of a stream. The call polls, kills the group, and collects the two
readers in a window that may run out at any step; `joined` are the readers it got.

**WorkspaceTools.** `disk` is changed by the tool's own writes and by other programs between any two file operations.
A search visits the files one by one with its caps; an edit reads, checks and writes. The walk of a search may miss any
file, because a directory or an entry it cannot read is passed over; `passed` are the files that were read and marked but
whose names are not paths a match can carry.

**ProviderStream.** Any sequence of chunks of either adapter is translated to events: fragments are merged by index,
usage is reported once, the terminal event ends the queue; the reader checks the order as the engine does.

**ContextWindow, StartingContext.** The sizes of a run's messages, estimated, calibrated by the provider's count and
compressed, largest first, until they fit; and the first request of a run made of the rows of its session, with
each call beside its result. The second relies on call identities that no row has yet and on one active run.

**CancelSignal.** Futures poll, register a waker, look again and sleep; cancellers swap the flag and take the wakers
in two steps. A future may be polled again with another waker or dropped.

**Terminal.** Two queues, `effects` to the client task and `actions` to the update loop; the task performs one effect
at a time and drains frames in between. `asked` counts reconnections, `arm` and `escape` the presses.

**Headless.** The same actions, performed at once by the driver: `work` is the chain of effects, `stage` the place in
`drive` or in the line loop, `clock` the deadline. `reported` and `printed` are the rows the sink was given.

**InputLine, PasteDetector, RetainedTranscript, Pickers.** The edited line with labels of pastes, history and the
hint band; the detector that holds presses back while they come too fast for a hand; the retained rows with
selection, expansions, appended tail and the layout cache; the session browser and the theme picker with the replies
that arrive late. A label is its brackets around one character of the paste, a backslash, because the caret can be put
behind it. `drag` is the pointer between two mouse events, with the row index of the press; what that index showed, what
the rows of a selection showed (`named`) and the block an expansion was meant for (`of`) are ghosts that only the
property reads.

## 4. Abstractions common to all

Identities, texts and evidence are model values; a configuration revision is the number of the process that
minted it. Time appears as nondeterminism: a delay may end at any step. Clock regressions, poisoned locks,
panics and exhausted memory are left out. Pure validation that rejects an input before any state changes is
left out with the input.

## 5. The runs

| Run | Question | Bounds |
|---|---|---|
| `storage` | Do all interleavings of commands, executor writes, crashes and recoveries keep the tables consistent, and do the tables implement the queue of turns? | two sessions, three turns with their keys and runs, four rows, two processes: a pending turn, a promotion, a join, a crash and a restart beside another session |
| `run_execution` | Do requests, transcript, retries and stops of a run hold together, and does it end? | two attempts, two calls in a step, one tool round, one late turn, one refused operation |
| `host_admission` | Is a starting run always attended, and executed by one task? | two connections, two runs, a repetition, a stop and a refused operation |
| `session_stream` | Is a row ever lost, or a frame ahead of the reply? | one run after another with their three publishing threads, four rows, joins of two, two connections, a queue of two, a repeated command, a refused read; the constraint `OneOfEach` takes one connection and no refused read once the second run began |
| `provisional_text` | Is provisional text of one step, ahead of its row, and silent after the execution? | two steps of three chunks, a window of two, so that a step can outgrow it, one later subscription |
| `components` | Does each of sixteen components keep its promise under its own environment? | two clients, daemons, inodes, connections, files, futures and sessions; a queue of one; a window of two retained rows; lines of six characters with two pastes; contexts of seven messages |
| `progress` | Does every wait of a client and of the daemon end? | bootstrap, stream with a queue of one, host without repetitions, terminal, headless command, command tool, compression; one disturbance each |

In the last two runs a behaviour is of one component: the initial state chooses `part`, and the variables of its
module are `x1`, `x2`, ... The state space is the disjoint union of those of the components, so what such a run shows
of a component is what a run of its own would. `MCComponents` extends `Components` and `Exchanges`,
whose specifications `Spec` and `ExchangeSpec` the theorems are about, and its `SystemSpec` is a behaviour of a
component of either. A property of these modules is the conjunction, over parts, of the component's own
properties, which are stated and explained in the component's module:

| Property | Of |
|---|---|
| `OneDaemonServes` | `Bootstrap` |
| `LinesArriveWhole` | `LineFraming` |
| `ConnectionsAnswer` | `HostConnection`: `OneRegistrationPerConnection`, `RequestsAreAccountedFor` |
| `FollowersKeepTheirStream` | `Terminal`: `LiveStreamIsHeld`; `Headless`: `RowsAreReportedOnce` |
| `PressesArriveOnceInOrder` | `PasteDetector` |
| `PositionsKeepTheirRows` | `RetainedTranscript` |
| `EditsAndFramesAreWhole` | `RetainedTranscript`: `FrameShowsTheTranscript`; `InputLine`: `LabelsStayWhole` |
| `MenusShowWhatTheyOffer` | `InputLine`: `BandFollowsTheLine`; `Pickers`: `BrowserShowsTheList`, `PaintedThemeIsStored` |
| `CommandsEndWhole` | `CommandExecution`: `CompletedOutputIsWhole`, `InterruptionEndsTheGroup` |
| `ToolsAnswerHonestly` | `WorkspaceTools`: `SearchIsHonest`, `RefusedCallsChangeNothing` |
| `ModelExchangesAreWhole` | `StartingContext`: `ContextsReplayWhole`; `ContextWindow`: `RequestsAreWindowed`; `ProviderStream`: `StreamsKeepTheirOrder`, `CallsCarryTheirFragments` |
| `CancelWakesEverySleeper` | `CancelSignal` |
| `CatalogIsKept` | `Catalog`: `ServedDatabaseIsWhole`, `AnsweredCreationsAreDurable`, `SnapshotsFitTheirBudget` |
| `ClientWaitsEnd` | `Bootstrap`, `SessionStream`, `Headless`: each wait ends; `Terminal`: comes to rest |
| `DaemonWaitsEnd` | `HostAdmission`: runs, commands and the drain; `CommandExecution`: a stopped call; `ContextWindow`: a pass |

Why these bounds suffice: what the properties compare is a pair (two turns of a session, two schedulers of a
run, two frames of one queue, two halves of one signal, two pastes of one label, a row and its position) and one
thing that happens between them (a crash, a stop, a refusal, a subscription, a switch). Two of each actor and one or
two of each disturbance produce every order of such a pair. Each property was also checked to fail on a plausible
error in the code it is about; these altered definitions stand beside the originals, named `...Fault`, and
`PROJECT.json` pairs them under `mutants`.

`CHECK_DEADLOCK FALSE` is set where the bounded system really stops: a run that has ended, bounds that are
used up, a daemon that has drained, a call that has returned.

**Fairness.** `run_execution` assumes that a registered executor takes its next step, which the code justifies by the
idle deadline on the provider stream, the timeout of the retry delay and the bounded tools; that a host thread
that began to admit a run or to signal a stop continues; nothing is assumed of clients, of arriving turns or
of the beginning of a stop. `progress` assumes weak fairness of each process of the explored component (`Step`): a
client that has begun to look for a daemon goes on, for its waits are bounded by `wait_for_ready` and by the
time-outs of its requests; publishers publish, connection tasks write and end, and a connected client reads; host
connections inside a command, executors and the drain go on; the update loop, the client task and the headless driver
take their next step, and an armed deadline passes; the calling thread of a command tool goes on and its collection
window runs out; a pass of compression continues. Nothing is assumed of daemons that start, of users, of providers,
of the child process or of the pipe readers. A client that stops reading is the unfair case, and `NoRowIsLost` covers
it.

The host of `progress` sends no repeated command: with one, the command gate deadlocks (below), and nothing is
answered after that. `StartingRunAttended` is claimed up to the first refused operation only: failing a run uses
the backend whose refusal made it necessary.

## 6. Where code and comments disagree

Five are kept as runs that TLC refutes, with the quotation and the line under `findings`:

| Run | What happens |
|---|---|
| `host_gate` | a repeated command can enter the command gate while it holds it |
| `provisional_pipe` | an answer that outgrows its window between two ticks is printed in part and its row is suppressed |
| `terminal_session` | the late reply of a first subscription replaces the rows of the session opened after it, and that session's own reply is then refused |
| `headless_outcome` | a prompt is answered with the end of the run before it |
| `input_pastes` | where a later paste stands before an earlier one with the same label, or the label of the earlier one was deleted, the prompt sends the earlier text for it |

These are stated as definitions of their modules, TLC refutes them, and they have no run: `RepeatedTurnReplays`
(after a restart an unchanged repeated turn is a conflict, because the revision it was stored with is the old
process's; the repetition of a creation meets the same refusal in `Catalog`, although `intention-engine/src/lib.rs:374-376`
calls it that creation's replay), `RequestsCarryHistory` (the request after a finished step that continues lacks the answer just
committed), `SettledViewIsCommitted` (an older status read can be broadcast last and stays on the client's screen),
`WrittenIsAccepted` of `LineFraming` (a message near the cap is refused when the next one is already in the same
read), `StoppedReadersAreCollected` of `CommandExecution` (the collector may go to sleep although every reader has recorded its stop, and wakes only by its clock),
`SecondPressStopsTheNamedRun` of `Terminal` (the second press may stop a successor).

The models also show these:

- *Runs.* A stop after the last boundary of a run is acknowledged and the run completes; a stop during the retry delay
  leaves an interruption notice as well as the stop notice; one cancellation can leave two notices when a boundary
  resets the signal between its halves; a stop that found no execution can close a run admitted in the meantime,
  whose executor streams on; a scheduler whose context read failed can fail a run another scheduler has admitted.
- *Streams.* A subscription between a join of several turns and its publication is sent them twice; a repeated
  command makes a client show an old row again; text of a failed round may be published between the committed outcome
  of its run and `finish`; a client that subscribes between the commit and the publication of a row is sent
  provisional text whose row the watermark suppresses; the session snapshot is two reads.
- *Start-up.* Between the comparison of identities and the unlink, or when an inode number is reused, a live
  socket is removed; the daemon binds its endpoint before it opens its database.
- *Contexts.* Once the provider counted more than the window, compression never lowers the calibrated estimate, so
  every result is compressed.
- *Front ends.* A failed read after a session was created with its first turn leaves the phase at waiting; the timer of
  the phase starts on `SendTurn` only; a reconnection queued behind the user's choice of another session undoes the
  choice; a read, a front drain or an expansion while the mouse button is held leaves the drag its row index, so that
  the next event selects rows that were never dragged over, and a release expands another block than the one pressed
  (`tui/mod.rs:36-40` says otherwise), and a change of the width moves the rows under a selection; Enter behind a backslash
  inside a paste's label, which the arrows reach, replaces it by a line break, and the paste is sent as the rest of its
  label (`app/input.rs:139-140`: "so a paste is never silently reduced to a label's text", while the next lines grant
  that a label edited out of shape is ordinary text); prompts typed before the first snapshot make a session each; a tool result grows its block, so a
  selection below it drifts; an answer to an earlier theme request clears a later preview; a key pressed between
  `/sessions` and the next tick goes to the chat. A headless first prompt whose run ends before the snapshot is
  read waits for ever unless it has a deadline; `send_turn` returns an earlier failure although the turn was accepted.

## 7. What is proved

All theorems hold for every value of the constants; each assumes only the named assumption of its module (the
dummy values are none of the real ones, the bounds are naturals, the set of connections is finite).

| Module | Theorem | Property |
|---|---|---|
| `StorageProofs` | `StorageType` | `TypeOK` |
| | `OneActiveRunAlways` | `OneActiveRun`: a session never has two active runs |
| | `RecoveredRunsAlways` | `ActiveRunsAreOfThisProcess`: an unfinished run was started by the serving process |
| | `TurnsAndRunsMatchAlways` | `TurnsMatchRuns`: turn identities are unique and run rows match started turns |
| `StorageProofs` | `RowsBelongAlways` | `RowsBelongToTheirRun`: of `RowsNameTheirRunAndTurnAlways`, `RunsOpenAlways` |
| | `TurnsEnterAlways` | `TurnsEnterOnceInOrder`: of `TurnsEnterOnceAlways`, `AcceptanceOrderAlways` |
| | `CallsAnsweredOnceAlways` | `ToolResultsAnswerOnce` |
| | `TerminalRunsStayClosedAlways`, `AcceptedTurnsSettleAlways` | the action properties of the tables; the second is proved and has no run |
| `StorageProofs` | `StorageDeliversTurns` | `DeliversTurns`: `Storage` implements `TurnDelivery` |
| `HostAdmissionProofs` | `HostType` | `TypeOK` |
| | `StartingRunAttendedAlways` | `StartingRunAttended`: no starting run is forgotten |
| | `OneExecutorAlways` | `OneExecutorPerRun` |
| `RunExecutionProofs` | `RunType` | `TypeOK` |
| | `StopReachesStreamAlways` | `StopReachesStream` |
| | `CompletionAlways` | `CompletionLeavesOnlyLateTurns` |
| | `RetryDiscardsNothingAlways` | `RetryDiscardsNothing` |
| | `RequestsCarryJoinedRowsAlways` | `RequestsCarryJoinedRows` |
| | `RunKeepsTranscript` | `KeepsTranscript`: `RunExecution` implements `RunTranscript` |
| `SessionStreamProofs` | `StreamType` | `TypeOK` of `SessionStream` |
| | `NoRowIsLostAlways`, `ReplyPrecedesFramesAlways` | `NoRowIsLost`, `ReplyPrecedesFrames` |
| `ProvisionalTextProofs` | `ProvisionalType` | `TypeOK` of `ProvisionalText` |
| | `BuffersHoldOneStepAlways` | `BuffersHoldOneStep` |
| | `TextIsInTimeAlways` | `TextIsInTime`, an action property |
| `ComponentProofs` | `ComponentsType` | `TypeOK` of `Components`: of the ten components below |
| | `OneDaemonServesAlways` | `OneDaemonServes` of `Bootstrap` |
| | `LinesArriveWholeAlways` | `LinesArriveWhole` of `LineFraming` |
| | `ConnectionsAnswerAlways` | `ConnectionsAnswer` of `HostConnection` |
| | `PressesArriveAlways` | `PressesArriveOnceInOrder` of `PasteDetector` |
| | `CommandsEndWholeAlways` | `CommandsEndWhole` of `CommandExecution` |
| | `CancelWakesAlways` | `CancelWakesEverySleeper` of `CancelSignal` |
| | `CatalogIsKeptAlways` | `CatalogIsKept` of `Catalog` |
| | `ModelExchangesAreWholeAlways` | `ModelExchangesAreWhole` of `StartingContext`, `ContextWindow` and `ProviderStream` |
| `ExchangeProofs` | `ToolsAnswerAlways` | `ToolsAnswerHonestly` of `WorkspaceTools` |
| | `FollowersKeepTheirStreamAlways` | `FollowersKeepTheirStream`: of `Terminal` and of `Headless` |
| | `MenusShowAlways` | `MenusShowWhatTheyOffer` of `InputLine` and `Pickers` |

`DataLemmas` holds what several of these rest on and no run checks: least and greatest elements, induction over a
natural number stated with a set, the existence of recursive functions, ranges of sequences, what `Within` returns
for a concatenation, and how the places of a kind of value change when a sequence is appended to or loses its head.

**Storage.** `TypeOK` is inductive alone (`TypeStep`, one case per action). `RunsInv` is the conjunction of the two
run properties: a run starts only when its session has none active, all other actions only end runs
(`RunsOnlyEnd`), and recovery ends all of them while `born` becomes empty. `TurnsInv` adds to the
uniqueness of turn identities that run rows and started turns correspond in both directions; neither half is
inductive alone, because a turn may be promoted only if no run row uses its identity yet (`NotStartedHasNoRun`),
and that follows from the correspondence and uniqueness together.

The later modules do not look at the actions again. `StepShapes` shows, from `TypeOK` and `TurnsInv`, that every
step has one of six shapes: statuses change and nothing else; a turn is queued behind an active run; a turn starts,
the oldest that waits or the new one; a turn is removed; the waiting turns join; another row is written. The parts
of `TranscriptInv` are then kept shape by shape. Acceptance order, for instance, holds because the turns a step
delivers are the oldest waiting ones and a waiting turn is younger than every delivered one of its session. The
refinement maps the same six shapes to the actions of `TurnDelivery` (`StepMaps`). The `storage` run has three turns, so
that two never wait for one promotion; the theorems cover any number.

**HostAdmission.** `StartingRunAttended` is not inductive: whether the thread that turns away from a run may do so depends
on what the other threads hold. `RegistryInv` says that live executors are registered, and that a thread which admits a
run holds the registry in which the run is missing; `KnownInv` that threads name runs that exist; `RefusalsInv`
counts refusals: a run that still starts while a thread is failing it has cost one, and two once its executor
gives it up. `OneExecutorPerRun` follows from `RegistryInv` and the step that registers.

**RunExecution.** The invariant ties the executor's place to the rows it has written. `LastRowInv` says which rows can be
last at each place; the difficult places are the boundaries that clear the signal, where `BoundaryInv` shows that
the loop is entered again only behind a notice or where a step may follow anyway: a notice is taken at most once
between two resets, and a boundary behind an answer always owes it. `DurableInv` says that content of the run is
counted as durable, or the run can only end, and `StreamInv` that a stop flag is up only when its request goes on to
signal. With them each step adds a row that may follow (`Follows`), changes the status as `RunTranscript`
allows, or leaves both alone (`TranscriptStep`).

What a request carries is `JoinInv`: the rows that joined are the first user row followed by `extra`, the additions
a retried attempt starts from, and the live messages joined to the request are `extra` wherever an attempt is under way.
It is kept because `Within` of a concatenation is the concatenation of what it keeps of both (`WithinConcat`), and a
step's own rows are kept by neither.

**SessionStream.** `NoRowIsLost` is not inductive: a row may be owed when it is committed, published while the
connection is not registered, and in no snapshot. `SnapshotInv` says that the rows up to the watermark of a
registered connection arrive; then a row that is published either finds the connection registered, or was committed
before its snapshot was read. `RegistrationInv` says that a connection asks once and has an empty queue until then, from
which `ReplyPrecedesFrames` follows. The client's side needs what merging does: `Sorted` shows each row of its
argument, because the places `Below` and `UpTo` count do not overlap (`Counts`, `SortedRange`, `ReconcileRange`).

**ProvisionalText.** `TextIsInTime` is about what a client is given, and holds because of what is still pending:
`PlaceInv` says which step's text may be pending at each place of the executor (its own until its row is committed and
flushed, nothing after `finish`), `PendingInv` that no pending text is of a step whose row is published, and
`WindowInv` that pending text continues what the client has of the same step, so that appending keeps it in order.

**Components.** The theorems of `ComponentProofs` are of the specification of `Components`: `SumInv` says of each part
that its component's invariant holds, a step is one of the part's component (`PartStep`), and each component's
invariant is kept by its own steps. The invariants of the components follow.

**CancelSignal.** A future that registers and looks again before it sleeps is registered, or its waker was taken, or it
has already been notified (`RegisteredInv`); a canceller raises the flag before it takes the wakers.

**LineFraming.** `FramedInv` states that the unread bytes (residual, on the wire and being written) are a sequence of
whole lines, by a function from messages to the place where each ends. A receive moves the first one; a chunk, a
dropped read and a write leave the sequence or extend it by one. The first newline is therefore always the end of
the next message (`LineEndIsFirst`, `FramesAfterTake`), however the bytes were cut.

**Bootstrap.** Unless a path was replaced behind the check (`raced`), a living process that bound has its socket at the path
(`LiveHoldThePath`), and what was found stale and is still at the path has no living owner (`StaleAreDead`), which
is kept because a process binds at most once (`OwnersHaveBound`). Two living owners of one path are one.

**HostConnection.** The session a connection is registered for is the one it asked for between the worker's success and
its confirmation, and its guard's otherwise (`Owner`). The registry holds a connection for its owner's session only, once,
until it ended (`RegistryInv`), and a running connection that owns a session is there or has been told to close
(`FollowedInv`): the broadcast that drops it says so in the same step. That each request is answered once is an
equation: its answers written and its answers queued, with one more while it is in hand, are one (`AccountedInv`). Each
step moves a request from one term to the next, or closes the connection; that no other term counts it needs that
nothing answers a request before it is read (`IdsInv`), and the lemmas of `DataLemmas` on places.

**PasteDetector, CommandExecution.** What is shown, held and still in the buffer is always all that was pressed. Complete
output is whole because a reader at the end of its pipe has read all of it and nobody holds the pipe (`ReadersInv`);
an interruption ends the group because nothing of it survives the kill and nothing joins it (`PlacesInv`).

**Catalog.** `FileInv` ties the file to the place of the process: a journal beside a current file is there exactly when it
is torn, and a stale one goes before its database. `ContentInv` relates bindings, sessions and turns; `CallInv` says
that a creation under way holds the gate, so that the binding it read is still current, and that an answered one is in
the database. The budget of a snapshot is an induction over its rows (`BytesGrow`, `SnapshotsFit`).

**ContextWindow.** `WindowInv` relates the calibration to the request it counted (`tokens` is that request's characters and
the overhead, or not reported), and says that a context about to be sent fits or has nothing left to
compress. The passes are loops of the source written as recursive functions; that each compresses only, and stops where
nothing can be compressed, is an induction over the messages.

**StartingContext.** `ReplayInv` says that the rows are well formed, the result of a call directly behind it, so that a
call replays exactly when the next row is its result, and that the first request is made of the rows up to the one
that opened the run. The rows it keeps rise and have both halves of an exchange as neighbours (`Neighbours`,
`CallsReplay`), so their messages have them too (`FirstRequests`).

**ProviderStream.** `ResponseInv` has three parts. `OrderInv` says that what was delivered and is still queued is together
one response in order: a start, at most one count, one end. `RoundInv` says that the round saw just what was delivered, and
`FragmentInv` that the fragments held are those merged out of the chunks and that the calls of an ended response are
theirs. What an adapter may queue keeps the order (`QueuedNext`), and the round that reads it moves it only (`DriveStep`).

**Exchanges.** The theorems of `ExchangeProofs` are of the specification of `Exchanges` and follow the same plan:
`ExchangeInv` says of five of its parts that the invariant of the component holds.

**WorkspaceTools.** `SearchInv` follows a search from place to place: between two files, what was found is what could be seen in
those read so far; within one, with the matches of its lines scanned so far; and the mark goes up before the end only
for a file that was cut. `EffectInv` says that a file is changed only in the step that returns, where what was read is what
the call expects, and that a refusal is then not its answer.

**Terminal.** What the terminal believes may be older than what it holds: `TermInv` says that, while it holds no
subscription, each `opened` that still waits among the answers is followed by a `lost`, and that a `lost` waits as long as
the application believes its stream live.

**Headless.** `LineInv` divides the rows of the run in three: up to `Base` they are held or in the hand of the core, what
follows is on the wire one row a frame (`WireInv`), and the rest is not committed. A frame is taken only when
all that is held is reported (`FrameInv`), so that `SinkInv` can say what lies between the row reported last and
the newest one held: rows that are held, or that a bounded read left out.

**InputLine, Pickers.** The band is refreshed by every step that changes the line or its caret, and otherwise keeps its word
(`BecomesKeeps`). The rows of a browser are those `Within` returns, so that a cursor clamped to them is one of
them. The picker's theme is followed through the replies on their way: what the newest of them will make of
it is the stored one (`Says`), and a candidate on the screen has an errand or a reply that removes it.

**Only model-checked**, and why: all liveness (`RunEnds`, `ClientWaitsEnd`, `DaemonWaitsEnd`), which needs `ENABLED`;
and, for want of a proof so far, `PositionsKeepTheirRows`, `EditsAndFramesAreWhole` and `ExchangedAndShownTypeOK`. Several of these
use `SelectSeq`, `SortSeq` or a community fold, whose definitions the provers cannot unfold by induction; recursive
functions and `Within` can be reasoned about, by `SetInduction` and `RecursionExists` of `DataLemmas`. The induction
theorems of the library, which take an operator as a parameter, and RECURSIVE operators stay out of reach.

## 8. What is not modelled

- *Data only.* Protocol validation and encoding, redaction and metadata of tool results, JSON and error texts of
  providers, the building of HTTP requests, line formats of tool output, glob syntax, the guidance text, the path
  rules of the workspace, styling and drawing of the screen, the text of configuration documents.
- *Storage.* The update of interface settings inside its transaction and the paging of read models. `Storage` leaves
  out what `Catalog` has: revisions' content, workspaces, the stamp.
- *Host.* Session commands that never schedule a run (they are `Catalog`'s), the bounded retry of a terminal
  publication, the timeout that ends a drain, a database shared by two endpoints.
- *Executor.* The validations of `apply_window` and `continuation_request` before a round (`runtime.rs:653-654`,
  `689-695`, `726-727`, `820`, `850-851`), which only a message or request their contracts refuse could fail; they would
  end the run where a refused operation does.
- *Streams.* `SessionStream` omits snapshot limits and the number of publication retries, `ProvisionalText` the
  lengths of chunks, the frames of other runs and a stop from outside the executor.
- *Front ends.* `/new` and the choice among sessions in the line loop, the clock of the run phase, the screens'
  navigation. `RetainedTranscript` has one width, and events find the frame of the present rows; a selection that reaches
  the live tail is made, and `PositionsKeepTheirRows` says nothing of it. `StartingContext` leaves out an arguments
  document that cannot form a call and refuses the schedule.
- *Test support* is not part of the running system.
- *Across components.* `components` and `progress` explore each component under an environment stated in its own
  module; a whole system, with a daemon's crash seen through the socket by a terminal that reconnects, is out of
  TLC's reach at useful bounds.
