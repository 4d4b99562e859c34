# Verification of the pi coding agent

This directory holds TLA+ specifications of the pi monorepo under `src/pi/packages`
(agent runtime, provider layer, coding agent, orchestrator, terminal UI and the teaching
re-implementation `pi-course`), the TLC configurations that model-check them on small
instances, and TLAPS proofs of the properties that matter most. Every definition is
translated from the TypeScript source; the line numbers are in `PROJECT.json` under `map`.

## 1. Inventory

TypeScript code of this repository runs on one thread: between two `await`s a function is
atomic within its process. Concurrency is the interleaving of promise continuations, of several
processes on one file, and of child processes. A model therefore has one action per stretch of
code between two awaits; where processes share a file (`SessionFile`, `LockedStore`) it has one
per system call on that file, since another process may run between any two of them.

| Part | State it keeps | Operations | Talks to | Hard behaviour |
|---|---|---|---|---|
| **Agent loop** `agent/src/agent.ts`, `agent-loop.ts` | transcript, steering and follow-up queues, pending tool calls, the active run and its abort signal | `prompt`, `continue`, `steer`, `followUp`, `abort`, `reset`, `clear*`, `waitForIdle`; inside a run: turns, streaming, sequential or parallel tool batches, queue polls | provider stream, tools, hooks, awaited listeners | messages queued while a run winds down; abort between preparation and execution; a listener or hook that throws in the middle of a parallel batch; results out of completion order |
| **Event stream** `ai/src/utils/event-stream.ts` | buffered events, waiting consumers, done flag, final result | `push`, `end`, iterate, `result` | providers (producer), the loop and proxies (consumers) | order of buffered and directly delivered events; a consumer that waits for ever |
| **Session tree** `coding-agent/src/core/session-manager.ts` | entry tree, leaf, labels, the JSONL file and the `flushed` flag | append of each entry kind, `branch`, `branchWithSummary`, `resetLeaf`, `createBranchedSession`, `newSession`, `setSessionFile` | disk, agent session | lazy first write, failed appends, a crash inside a write, leaf after reload, labels and compaction anchors on a forked path |
| **File mutation queue** `coding-agent/src/core/tools/file-mutation-queue.ts` | registration queue, one promise chain per key | `withFileMutationQueue` | write and edit tools, file system | key resolved before the file exists, cleanup of the map |
| **Agent session** `coding-agent/src/core/agent-session.ts` | run flag, displayed queues, retry and compaction controllers, pending bash results | `prompt`, `steer`, `followUp`, `abort`, `compact`, retry, overflow recovery, `navigateTree`, bash | agent, session tree, extensions, UI | overlapping prompts, retry/compaction after `agent_end`, compaction while a run is aborting, when a run is "settled" |
| **Credential store** `coding-agent/src/core/auth-storage.ts` | `auth.json`, in-memory copy, lock file | `set`, `remove`, `reload`, token refresh | other processes | stale locks stolen, refresh racing a login |
| **Settings store** `coding-agent/src/core/settings-manager.ts` | settings files, modified fields, write queue | setters, `reload`, `flush` | other processes | read-merge-write of a file two processes create |
| **Compaction** `coding-agent/src/core/compaction/*.ts` | none (pure over entries) | cut point, preparation, summarisation | session tree, provider | a cut between a tool call and its result, anchors on non-message entries |
| **Agent harness** `agent/src/harness/*` | phase, pending session writes, queues | `prompt`, `steer`, `compact`, `navigateTree` | agent loop, session storage | phase changed by an event before the call that set it ends |
| **Orchestrator** `orchestrator/src/*.ts`, `ipc/*` | instance records on disk, live processes, pending RPC requests | spawn, stop, rpc, stream, recover, dispose | child processes, Radius | stop during spawn, late answers, records of dead instances |
| **RPC mode and client** `coding-agent/src/modes/rpc/*` | pending requests, event listeners | one command per line, responses by id | orchestrator, SDK users | commands that are not awaited, process exit with requests pending |
| **Extension runtime** `coding-agent/src/core/extensions/*` | handlers, tools, flags | event emission, tool wrapping | agent session | handler errors, stale contexts after reload |
| **Message conversion** `ai/src/api/transform-messages.ts` | none (pure over messages) | `transformMessages`, called first by every provider | agent loop, providers | what failed and aborted runs leave behind in the transcript |
| **Providers** `ai/src/*` | none between calls; OAuth polling state | stream, own wire formats, device-code flow | network | expired tokens, streams cut off |
| **Terminal UI** `tui/src/*` | input buffer, editor, undo and kill rings, screen lines | key handling, rendering | terminal | sequences split over chunks, flush timeouts |
| **Course re-implementation** `pi-course/src/*` | transcript, JSONL session, event stream | as the agent loop and session, smaller | scripted model | append failures, queue order |
| **Interactive mode, CLI, package and resource loading, themes, exports** | UI and configuration | – | – | mostly I/O and layout |

What makes each part correct is stated with its module below (section 3) or, for the parts
that are still to come, with the plan.

## 2. Plan

The order follows what a user loses when the part goes wrong: first the conversation
(loop, tree, file), then the run around it, then the stores shared between processes.

| Step | Module | Abstract specification / composition | Main questions |
|---|---|---|---|
| done | `FileMutationQueue` | – | is a file changed by one call at a time |
| done | `AgentLoop` | – | are messages delivered once and in order, batches whole, runs finished |
| done | `SessionTree` | – | does compaction, forking or navigation lose messages |
| done | `SessionFile` | implements `AppendOnlyTree` | does the file keep what was written |
| done | `EventStream` | – | is every event received once, in order, and does every consumer leave |
| done | `ProviderRequests` | composes `transformMessages` with the contexts that `AgentLoop` makes | is every request complete |
| done | `AgentSession` | sees the agent from outside, as `AgentLoop` promises it, and the branch as `SessionTree` does | retry, automatic and manual compaction, overlapping prompts, when "settled" is told |
| done | `LockedStore` | one module for `auth-storage.ts` and `settings-manager.ts`: read-merge-write under a lock that may be stolen | lost updates, tokens exchanged twice |
| done | `Orchestrator` | – | stop during spawn, late answers, crashes and recovery |
| done | `AgentHarness` | the run of the loop, seen by its event handler, over the asynchronous session storage | double or dropped writes, lost messages, phase |
| open | `MessageQueue` | abstract exactly-once queue that `AgentLoop` implements | replaces two invariants by a refinement |

Theorems to come: the refinement of `MessageQueue`.

A project of this size affords a dozen runs, so a property gets a run only if it can fail
in an order of steps that a test would hardly try; runs that showed one disagreement gave way
to runs of new modules.

## 3. Modules and the code they model

| Module | Code | Contents |
|---|---|---|
| `FileMutationQueue`, `FileMutationQueueProofs` | `coding-agent/src/core/tools/file-mutation-queue.ts` | registration queue, key resolution, chains per key |
| `AgentLoop`, `AgentLoopProofs` | `agent/src/agent.ts`, `agent/src/agent-loop.ts` | queues, runs, turns, tool batches, failures |
| `SessionTree` (proved about in `SessionProofs`) | `coding-agent/src/core/session-manager.ts` (in memory), `compaction/compaction.ts`, callers in `agent-session.ts` | tree, labels, context, compaction, navigation, forks |
| `SessionFile`, `AppendOnlyTree`, `SessionProofs` | `session-manager.ts` (persistence) | opening, appending, disk errors, several processes |
| `EventStream`, `EventStreamProofs` | `ai/src/utils/event-stream.ts` | producer and consumers |
| `ProviderRequests` (proved about in `AgentLoopProofs`) | `ai/src/api/transform-messages.ts` | what is made of the loop's context before it is sent |
| `AgentSession`, `AgentSessionProofs` | `coding-agent/src/core/agent-session.ts` | what goes on around the agent's runs |
| `LockedStore`, `LockedStoreProofs` | `coding-agent/src/core/auth-storage.ts`, `settings-manager.ts` | files that several processes change under a lock |
| `Orchestrator`, `OrchestratorProofs` | `orchestrator/src/supervisor.ts`, `rpc-process.ts`, `radius.ts`, `storage.ts`, `serve.ts` | instances, their processes, records and registrations |
| `AgentHarness`, `AgentHarnessProofs` | `agent/src/harness/agent-harness.ts`, `session/session.ts`, `session/jsonl-storage.ts` | operations of the harness, pending session writes, queues |
| `MC…` | – | instances for TLC |

Definitions carry the names of the code where TLA+ allows it (`Steer`, `AppendLabelChange`,
`MutationQueueKey`, …), and a comment names the function otherwise; names that begin with `Mut_` are deliberately wrong versions of the
definition that follows them. Each property is shown to notice one of them, so that a
property that no defect could violate would be found out.

**FileMutationQueue.** `regQueue` is the chain of promises in `registrationQueue`; only its
head resolves its key (`ResolveKey`, the `realpath`, may fail: `RejectKey`). `Register` is
the synchronous rest after the await; `Start` is `await currentQueue`; `Finish` the
`finally`. Files are present or not at the start and may be created or deleted at any
moment (`ChangeFile`, external). Correct: chains are exclusive and FIFO, the map holds the
live keys only, a file that stays present is changed by one call at a time.

**AgentLoop.** One action per stretch from await to await. `pc` names the await at which the
run stands. `Host` actions (steer, follow-up, prompt, continue, abort, clear, reset) may
happen at each of them, tools settle in any order (`SettleCall`, `EndCall`), and if
`ListenersFail` every awaited listener or hook may throw (`Fail`), after which
`handleRunFailure` runs as `FailMessage` and `FailEnd`. The provider is a nondeterministic
answer: any stop reason, up to `MaxCalls` tool calls, also when it was cut off
(`truncated`). A call may be refused at once by its hook, by validation or by an abort.
Correct: a message the host handed over is in exactly one place; per queue the order is
kept; a result stands behind its reply in call order; a request is made from the agent's
own transcript, with every call answered; after `agent_end` no event and no tool.

**SessionTree.** Entries are numbered like their ids are generated; a message is its kind.
`covers` of a compaction is history: the messages its summary was made from. Token counts
are abstracted: any valid cut point may be chosen. `calling` is the part of the agent the
tree depends on: that results of a batch follow its reply. A compaction is two actions
(prepare, and append when the summary has arrived) because the code awaits the provider in
between. `Overlap` says whether the user may navigate in between; the code does not prevent
it. Correct: parents precede children, labels are what the entries replay to, a tool
result reaches the model with its call, every message is in the context or was summarized.
Its names are distinct from those of `SessionFile` (`TreeInit`, `TreeNext`, …), since one module
proves theorems about both.

**SessionFile.** `file` holds the lines that parse, by their place, for nobody reads the others;
`size` tells whether there is a file and whether anything is in it, and `tail` whether the last
line was finished. Each process has its own `mem`, `leaf`, `flushed`, as the class has, and a
`stage`, because an action is one system call. Opening an empty file is `Open` (the look at it,
`OpenEmpty`), `Truncate` (`openSync` with "w") and `WriteNext` (the header); the first write of a
session is `AppendEntry` (`openSync` with "wx", `CreateFile`) and a `WriteNext` for each line;
every later append is one `appendFileSync`, one call for one line (`WriteLine`). Whatever else
happens between these is another process's. A descriptor that was opened with "w" or "wx" writes
at its own place: as long as nobody else has touched the file (`AsLeft`) that is its end,
otherwise the line lands over lines of others or behind a gap (`Misplace`). The disk is `healthy`
or not, which is chosen at the start; if it is not, a failing write, that of a header included,
leaves nothing, a part of its line, or the line without newline, as `Faults` allows; a crash is
`Close` at any stage. `calm` is chosen at the start too: if it is true, a process that finds
its new file changed by another does not go on. A behaviour is healthy or calm or both, so that
every race is explored on a disk that works and every fault without those races.

Correct: no step makes an acknowledged entry unreadable, whatever fails and whoever interferes,
but a step of a process that goes on creating a file which another has changed
(`ReadableStaysReadable`), and once the file is made nobody creates it again (`StaysCreated`);
if nobody does so and the disk works, the file read through `Loaded` is an append-only tree
(`AppendOnlyTree`, refinement mapping `tree <- Loaded`), everything a flushed session holds is in
it, and a session with an answer is flushed (`SessionIsSaved`). The exception is real: the
races that use it are in section 5.

**EventStream.** `promise[c]` is what the promise of waiter `c` was resolved with and not
yet read; between the two moments others run. `Push`, `End` are the producer's; `Take`,
`Stop`, `Wait`, `Resume` the iterations of the consumer's loop. Correct: each event is
received, promised or queued in exactly one place and in order (`OnceInOrder`), nobody waits beside a queued event, end releases everybody.

**ProviderRequests.** `transformMessages` is the second pass of the function of that name as a
recursive function over the context: `Begun` and `Closed` are its local variables and
`insertSyntheticToolResults`, `Converted` one round of its loop. It adds no variables: it is
evaluated in the states of `AgentLoop` that are about to call the provider, after runs that
were aborted or thrown out of. Correct: such a request holds every call with exactly one
result directly behind it and no reply that failed, and is made from the agent's transcript.

**AgentSession.** A call of `prompt` is a thread; `pc[p]` names the await at which it stands:
the compaction before the run, the run, the sleep before a retry, the compaction after the
run, `agent_settled`. The agent is seen from outside: `run` says how far it is, `Inject`,
`Answer`, `Execute` and `Poll` are what reaches the session's event handler. `said` lists all
messages by kind; `context` and `saved` are lists of their numbers, so that a failed reply
which is taken out, a compaction's summary and what goes unsaved while the session is
disconnected show in their difference. `Rebuilt` is the context a reload makes of `saved`: the
latest summary, what it keeps (an earlier summary included, if it stands there) and what
follows. The host may steer, queue, clear, abort, compact,
abort a compaction or end a bash command at every await (`Host`). Whether a context is over
the threshold, and where a compaction cuts, is a free choice. `Overlap` says whether prompts
and manual compactions may start while another one is before its run; the code does not
prevent it, and disagreement A is what happens then. Correct: an idle session has nothing
going on; what was queued in time is delivered before it settles; context and file agree;
the queues it shows are the agent's; results stay with their calls; every call returns.

**LockedStore.** An actor is a process that does one operation at a time, from looking whether
the file exists to the release of the lock; any other may do something between two accesses
to the file system. `change[a]` holds the versions that its operation is to write. For
credentials that is one key (`SetCredential`, `Refresh`). For settings it is a snapshot of all
that is marked: a setter changes the value in memory, marks the field (`unsaved`, the
`modifiedFields` with their values) and appends a snapshot to the `writeQueue` (`queue`); a save
writes its snapshot over what it has read (`Merged`), one that succeeds clears every mark, also
those set since its snapshot was taken, and one that fails, for want of the lock (`GiveUp`),
clears none (`End`). A reload writes nothing, clears the marks, and says whether the file could
be loaded (`unloaded`, the `loadError`): if it could not, setters mark but do not save, and
credentials must be reloaded before they are changed. It waits for the queue; one that begins
while something is queued was called before the setters that queued it. A settings file that
exists is locked before it is read, one that does not only before it is written
(`LookForSettings`); `auth.json` is made first (`Look`, `Create`). A refresh (`Exchange`) awaits
the provider while it holds the lock, and then its lock may look stale to the synchronous
callers, who wait 10 seconds where it renews every 15; the provider may refuse, or do its part
and its answer be lost. After an error `getApiKey` reloads the file.

`mishaps` is history: whether a live lock was taken over, the file made by two, a writer died or
an answer was lost. `saved` holds for each key the version last written for the first time,
`repeated` the keys of which a process has written an earlier version of its own again since.
Correct, as long as there was no mishap: no update is lost although everybody writes the whole
file (`UpdatesSurvive`; for settings but for the keys in `repeated`), and no token is exchanged
twice (`ExchangedOnce`). With mishaps and for repeated fields the code does lose updates; that is
what the conditions say, and section 5 how it happens.

**Orchestrator.** Each call on an instance (spawn, each stop, the exit handler, a request, a
re-registration) is a thread in `task[i][c]` that stops at its awaits: the first answer, the
registration, the disconnect, the end of the process. `disk` is `instances.json`, `record` the
copy in memory, `registered` what Radius holds. Radius may fail with or without effect and may
forget; a child answers or ends at any time; the orchestrator may crash at any time and
restarts with `Restart`, `Recover`, `Recovered`, during which it already serves requests.
`excused` and `leaked` are history: where an answer was lost or came for an instance that was
already leaving, and where a disconnect failed. Correct: a running child can be stopped or is
about to be disposed of, a registration can be found in the file, every call ends.

**AgentHarness.** Each call of `prompt`, `compact` or `navigateTree` is a record `op[c]` that
stands at an await (`at`): creating the turn's snapshot, a hook, saving a message, telling
listeners of it, polling a queue, streaming, a batch of tools, the flushes of `turn_end`,
`prepareNextTurn`, `agent_end` and the `finally`. `appending[t]` is an entry that was built on
the leaf and is being written: between `Build` and `Land` others run, which is what makes the
session's branch a matter of discipline. `skill` and `promptFromTemplate` are `prompt`s, the
setters are `QueueWrite` or `WriteNow`. A navigation may go anywhere (`SetLeaf`) and is an entry
of its own. Hooks, listeners, the provider's setup and the disk may fail at every await
(`StartFails`, `ListenerThrows`, `WriteFails`, `MoveFails`); the run then reports its failure
like a turn of its own (`failing`), and if that fails too, only the `finally` is left. `Overlap`
FALSE says that callers await what they have called. `asked`, `dropped` and `stranded` are
history. Correct: writes are saved in the order in which they were queued, each once, and none
is left when the harness is idle (`WritesPersistInOrder`); a queued message is in one place until
an abort clears it or a failure loses it (`MessagesKept`); each entry follows the one before it
and a run's context stands for the whole session (`SessionIsSerial`); operations and aborts
return.

## 4. Runs

| Run | Bounds | Shows |
|---|---|---|
| `fmq_shared` | 4 calls, 3 paths, 2 files | the properties of the queue, liveness included; 143 000 states |
| `agent_healthy` | 3 messages, 2 runs, 1 batch of 2 calls, no throwing listener | delivery, order, requests, clean ends |
| `agent_failing` | 2 messages, 2 runs, 1 batch of 2 calls, listeners throw | conservation, whole batches, complete requests, every run settles; 427 000 states |
| `tree_labels` | 5 entries, 2 moves, labels | tree and labels under forks and reopening; 2.8 million states |
| `tree_compaction` | 7 entries, 1 move | two compactions in a row, over a branch or a fork; 1.6 million states |
| `file_sharing` | 2 processes, 4 entries, 3 openings or branchings; a healthy disk with every race, or one with every fault | nothing readable becomes unreadable but by a disturbed creator; without those and disk errors the refinement of `AppendOnlyTree`, and nothing unsaved; 1.3 million states |
| `stream_shared` | 3 consumers, 4 events | the properties of the stream; 22 000 states |
| `session_rounds` | a prompt and a triggered one, 2 calls of the host, 1 retry, 3 messages before the provider must end its turn | the seven properties of the session; 455 000 states |
| `session_overlap` | 2 prompts, 1 call of the host | disagreement A |
| `stores` | 3 processes (symmetric), 2 keys, 3 changes or reloads | no lost update, no token exchanged twice; 562 000 states |
| `harness` | 2 operations, 1 reply with tool calls, 3 writes, messages, aborts and failures, of which at most 2 failures and 2 others | the five properties of the harness; 472 000 states |
| `orchestrator` | 1 instance, 2 stops, 2 registrations, 2 crashes | processes, registrations and calls; 100 000 states |

Why the bounds suffice. Two calls per batch are the least that can settle out of order, and
two batches are covered by the theorem `BatchesStayWhole`; a third message is needed to
have one delivered, one in flight and one queued; two runs let something of the first reach
the second. Four calls of the mutation queue make a chain with a running, a waiting and an
arriving call beside another key. A second compaction over a first one with a split turn
needs seven entries (a turn, its end, a compaction, a longer turn, a compaction); labels
need two moves (fork, then reopen). A torn line needs two appends after the first write; a look
at an empty file, another's creation, an acknowledged append and the stale truncation or write
need two openings and two entries, and a third opening lets a reader meet the result.
Four events and three consumers let three be promised and one queued. Two calls of the host
are the least that interfere with each other (an abort of a compaction that waits for a
retry, a text queued and cleared); with three messages the provider can fail, be retried,
call a tool and be compacted, and summaries, results, texts and bash results come on top of
them. Three processes make one that loses its lock, one that takes it and one that meets the
consequences, and each needs one operation; a field that is written again over another's needs
two setters in one process and one in another. An instance is independent of the others except
for the file, which is written whole without an await; two stops, the exit of the child and a
failing spawn can clean up the same instance, and the second crash can meet the recovery.
Of the harness, two operations let what the first leaves behind reach the second; two writes
have an order, and two failures are the least that break off the report of a failure while a
write is pending.

`CHECK_DEADLOCK FALSE` stands in every cfg because the bounds end the behaviours, and
because a stream without events or an agent without messages rightly stops.

**Fairness.** `FileMutationQueue`: weak fairness of each call's `Step`, since promise
continuations always run and the tool functions settle. `AgentLoop`: weak fairness of the
loop's own actions and of each tool call, since the provider stream and the tools are
assumed to finish (an abort is passed to both); none for the host, which need not do
anything, and none for `Fail`. `EventStream`: each consumer goes on asking (`for await`);
none for the producer. `AgentSession`: each prompt goes on, and so do the run of the agent and
a manual compaction, since provider, tools, timers and summaries come to an end; none for the
host. `Orchestrator`: Radius answers (or its request fails), a child answers or ends, and ends
when it is told to; none for clients, crashes or restarts. `AgentHarness`: what was begun goes
on (`Proceed`), since provider, tools, listeners and disk answer or fail; none for the host and
none for failures. `LockedStore`, `SessionTree` and
`SessionFile` state safety only.

## 5. Disagreements between code and documents

Checked by a run that must be violated:

* **A** (`session_overlap`, `agent-session.ts:1032`): `_isAgentRunActive` is set only when a run
  starts, after `prompt` may have awaited a compaction. A second prompt passes the check for
  streaming in that time; whichever starts second fails in `Agent.prompt`, and its `finally`
  clears the flag and reports `agent_settled` in the middle of the other's run, contrary to
  `agent-session.ts:842` and `docs/rpc.md:812`.

Met while modelling, and expressible in the models by loosening a constant or a condition,
but without a run of their own.

Agent and stream: if a listener throws on the `tool_execution_end` of one call of a parallel
batch, `Promise.all` gives up, the run ends and the agent is idle while the batch's other
calls execute on, contrary to the comment at `agent.ts:315` (`agent.ts:488`; `RunsEndCleanly` with
`ListenersFail`); a listener that throws on `agent_end` gets a second one (`agent.ts:508`;
the same). A missing file has one mutation key per path, so a write through a symbolic link
can overlap another (`file-mutation-queue.ts:21`; `PresentFileExclusive` without its last
condition).

Tree and file: navigation in the middle of a batch appends its results to another branch
(`agent-session.ts:2958`; `ResultsFollowCalls` with `Overlap`); navigation while a compaction awaits its summary makes the compaction end up on
another branch, all of whose messages leave the context though none was summarized
(`agent-session.ts:1820`; `KeptOrSummarized` with `Overlap`); when the cut splits the first
turn kept by the previous compaction, the new summary is made from "No prior history." and the
previous one is not passed on (`compaction.ts:781`); a fork drops a label entry that a
compaction keeps from, and with it the kept messages (`session-manager.ts:1347`;
`KeptOrSummarized` with `Labels`); a cut at a user message with a metadata entry in front of it
counts as splitting the turn before (`compaction.ts:427`; `SplitTurnStart` models it); the
append after a torn write is joined to the torn line and lost, although it reported no error
(`session-manager.ts:952`); a first write that fails after creating the file is never
repeated, as `wx` refuses (`session-manager.ts:961`; `SessionIsSaved` without `healthy`).

Creating a session file while another process opens it loses acknowledged entries on a disk that
works, though `session-manager.ts:781` speaks of sessions as append-only trees
(`SessionIsSaved` and `Tree!Spec` without `calm`; `ReadableStaysReadable` without its exception).
Two traces. One: the file is empty; q looks at it (`session-manager.ts:828`, `:835`); p opens it,
writes its header, gets an answer and appends; q goes on to `openSync` with "w"
(`:912`), which truncates all of it. Two: p has made the file with "wx" (`:961`) and written the
header; q opens this session, appends an entry, is told it is saved; p's next line
(`:964`) is written at p's own place, over q's. Nothing but the lines of such a creator is ever
lost to another process's steps: that is what `ReadableStaysReadable` and `StaysCreated` show.

Session: `compact()` disconnects from the agent before it aborts the run, so that what the run
still says is not saved (`agent-session.ts:1738`; `missed`); an abort does not end an automatic
compaction, which is then followed by the continuation it was made for (`agent-session.ts:1501`);
when a cut-off answer is the newest thing a compaction keeps, the continuation that was to
repeat it starts from an answer and throws (`agent-session.ts:2134`); messages queued after the last look into
the queues wait until the next prompt (`late`).

Harness: session writes that are queued during `compact()`, `navigateTree()` or a prompt that fails
before its run stay queued when the operation settles, where
`agent/docs/agent-harness.md` says that pending writes are always persisted
(`agent-harness.ts:727`, `:615`; `stranded`); messages for the next turn are lost when
`before_agent_start` throws, as only a failing announcement puts them back
(`agent-harness.ts:548`; `dropped`); the phase is idle before the listeners of `agent_end` are
told, so that a prompt from one of them overlaps the end of the run: both flush, which saves one
write twice and another not at all, and the first's end clears the controller and the promise of
the second (`agent-harness.ts:509`; `WritesPersistInOrder` with `Overlap`); an abort before the
run has its controller does not abort it (`agent-harness.ts:975`); an abort replaces the
queues, so that messages whose announcement then fails return to an array nobody reads
(`agent-harness.ts:394`; `from`); two session writes that are not awaited are built on one leaf
and branch the session (`jsonl-storage.ts:271`; `SessionIsSerial` with `Overlap`).

Stores: a live lock is taken over after 10 seconds, and the file is created without the lock
(`auth-storage.ts:151`, `:76`, `settings-manager.ts:233`; `mishaps`); an answer of the provider
that is lost leaves the old token in the file, which the next refresh exchanges again
(`auth-storage.ts:448`; `ExchangedOnce` without its condition). Of two setters called in
one tick, the second save writes the first one's field again: if another process has changed that
field between the two, its value is overwritten by an older one (`settings-manager.ts:589`,
`:617`; `UpdatesSurvive` without `repeated`). A save that did not get the lock keeps its marks, so
that its fields are written by a later, unrelated save, over what other processes have
set since (`settings-manager.ts:563`; the model counts this as an update at the time of the
write). A save that succeeds clears also the marks set since its snapshot was taken; their own
snapshots still write them, unless those fail, and then nobody does. What is set while
the file could not be loaded is forgotten by the next reload (`:490`, `:612`). If `auth.json` is a
symbolic link, refresh and synchronous callers take different locks (`auth-storage.ts:88`, `:143`);
the model has one, so its theorems are about an `auth.json` that is a file.

Orchestrator: an instance that is stopped while its registration is awaited comes back as an
"online" record with a heartbeat and no process (`supervisor.ts:291`; `excused`); a disconnect
that fails in the clean-up leaves the process running and the instance unlisted
(`supervisor.ts:162`; `leaked`); a re-registration writes a copy of the record that may be
older than a stop (`supervisor.ts:187`); the recovery saves the list it read, over what was
recorded meanwhile (`supervisor.ts:254`).

## 6. Proofs

All theorems hold for every value of the constants that satisfies the modules' assumptions
(bounds are natural numbers; canonical paths are fixed points; the model values for
"nothing" are not calls or paths; the prompts, texts and messages of extensions of
`AgentSession` are three disjoint sets, as they are different kinds of message). Each is `Spec => []Property`, from an inductive invariant
`IInv` by three facts: `Init => IInv`, `IInv /\ [Next]_vars => IInv'`, `IInv => Property`.

* `FileMutationQueueProofs`: `TypeCorrect`, `Exclusion`, `ChainsExact` (from `Fifo` and
  `MapIsExact`), `PresentExclusion`. That a running call is alone needs the shape of the whole chain;
  `ChainOrder` states it with tickets (the predecessor of a live call is live as long as an
  older live call of the key is, and none lies between) so that no induction along the
  chain is needed. `PresentExclusion` adds `KeyIsCanonical`.
* `AgentLoopProofs`: `TypeCorrect`, `BatchesStayWhole` and, for listeners that do not throw,
  `RunsAreClean`. `BatchInv` adds what the transcript ends with while a batch
  is in progress (`BatchTail`) and that a new batch starts from untouched calls
  (`NotBegun`); `CleanInv` adds what a run may still have to do at each `pc`.
  Then `MessagesAreConserved` and `RequestsFaithful`, whatever throws.
  `MessageInv` states as disjoint sets what the queues, the run's hands and the transcript
  hold of what was handed over (`Parted`); it becomes a cardinality only at the end.
  `OrderInv` orders these places: what is said precedes what is in hand, which precedes what is
  queued (`Lined`), so that draining keeps the order. `ContextInv` says how the loop's context
  differs from the transcript at each `pc`: by the prompts still to be said, or by the results
  behind the reply of the current batch (`BehindReply`), which `BatchTail` shows to be those
  that `FinishBatch` adds. `AnswerInv` says that the replies before the current batch are
  answered unless the run was aborted; it needs that a parallel batch which was not aborted
  waits for all its calls (`AwaitsAll`).
  Last `RequestsComplete`, about what `ProviderRequests` makes of the context. `LiveInv`: no result
  answers a reply that failed, so that leaving out failed replies orphans none. Over the messages
  of the context, `Stands` is the invariant of the second pass: what it has sent are whole
  batches (`Sound`), or those and the last reply with the results of its first k calls, which are
  the calls it has ticked off (`Opened`); any other message closes the batch (`ClosedPartial`).
* `SessionProofs`, first about the file: `TypeCorrect`, `SessionSaved`, and the refinement `OnlyGrows`: the initial
  states of `SessionFile` are ones of `AppendOnlyTree`, and every step adds lines to what `Loaded`
  reads, or changes nothing of it. `IInv` says where an id may be (`Numbered`), that a
  header is first or lost (`HeaderFirst`), what each stage of a creation implies for the file and
  for what the process holds (`StagesAgree`, `FileExists`), that a process which has not flushed finds a file only if one has
  been created, and who creates it (`CreatorIs`), that a line without newline was not
  acknowledged (`OpenIsUnacked`), and that the entries of an unflushed session are not
  acknowledged, are in no other such session and have their parents in it (`UnflushedIsOwn`,
  `UnflushedIsRooted`). If the disk is healthy and nobody is disturbed it adds that the file is in
  one piece and holds what flushed sessions hold (`HealthyFile`), and that a process which has not
  saved its answer has met a file that it has not created (`HealthyProcs`): the
  exception that the property names. What happens once a creator is disturbed rests on the first
  group alone.
  Then about the tree: `TreeTypeCorrect`, `LabelsStay`, `ResultsFollow`, `NothingForgotten`. All four
  rest on what the functions of the tree compute, proved once: a path is a branch, whose ids rise
  and whose entries are each the parent of the next (`PathFacts`); a new entry leaves every other
  path as it is and makes one longer (`GrownIs`); what a fork retains is the path but for its
  labels, in order and chained again (`RetainedIs`, `ForkedIs`); the paths of the forked session
  are the prefixes of what it is made from (`IndexedPaths`); a context is the latest compaction,
  what it keeps and what follows (`ContextIs`). `TInv` are the types, with the entry that a
  compaction in progress keeps first. `LabelsReplay` is then inductive. `RInv` says of every path,
  because any may be navigated to, that results follow their calls, also from the
  first entry that any compaction on it keeps (`Whole`); while results are owed, the path to
  the leaf ends in an open batch. `KInv` says of every path that each compaction on it tells
  what is in front of its first kept entry (`CompactionsTell`): a message that the one before kept
  it covers itself, an older one was told by then (`CutTells`).
  `ResultsFollow` assumes `~Overlap`, and `NothingForgotten` `~Labels` too: without them the
  code breaks the properties (section 5).
* `EventStreamProofs`: `TypeCorrect`, `NobodyWaits`, `ExactlyOnceInOrder`. Order is not inductive:
  `Ordered` states it for what a consumer has, what it is promised and what is queued, with
  `sent` as a bound, and `NobodyWaitsBesideAQueue` excludes that a direct delivery overtakes
  the queue. `ConcatIncreasing` puts the pieces together. That no event is lost or in two places
  (`NoneIsLost`, `NoneIsShared`) is stated about the sets that each consumer and the queue hold
  (`Held`), not about cardinalities; each action moves one event between two of these sets or
  none, and the lemmas about `Held` say so once for all of them.
* `AgentSessionProofs`: `TypeCorrect`, however prompts overlap, and for prompts that do not
  `IdleIsIdle`, `ResultsStay`, `ContextRebuilt`, `NothingLeft` and `Shown`. `IInv`: at most one
  prompt is at work (`OneAtWork`), the flag is set exactly while one works (`ActiveIsWorking`), and
  a run of the agent has a prompt that waits for it (`RunHasOwner`), which is what fails when
  prompts overlap. `DInv` are the types with what they need: messages are on the branch in the
  order in which they were said, and every compaction keeps something that is on it. `AInv` adds that
  a manual compaction works on an idle session. `RInv`: results follow their calls in both lists,
  and while a batch works its message is the last. `CInv`: the last reply is the last message of its
  run, so that taking a failed one out of the context takes out what a reload leaves out.
  `LInv`: what waits when nobody will look any more is `late`, which needs that behind a run the context is
  not empty and does not begin with a reply. `QInv`: what the host sees is what waits, or that and the
  one message that is on its way into the context. `Rebuilt`, the context a reload builds, is a
  selected subsequence; lemmas about `<<>>`, `Append` and `\o`, each by induction over a set of
  sequences, are all the proofs use of it.
* `LockedStoreProofs`: `TypeCorrect`, `NoLostUpdate`, `RefreshedOnce`, for any number of
  processes, keys and operations. What a process is about to write over is what it has
  read (`Current`), because the lock excludes the others; from this follows that a key holds what
  was last written for the first time, or that it is a setting written again (`Kept`). A
  credential is never written again, because its version is new when the operation starts
  and nobody else has it (`OfCredentials`: `Numbered`, `Fresh`, `VersionsDiffer`), and only
  settings are queued (`OfStore`). Only what was written is in the file (`Known`), so that an
  exchanged token, which is replaced before the lock is free (`ReplacedSoon`), does not return.
  `Current` and `Kept` hold as long as no mishap but a lost answer has happened, `ReplacedSoon` as
  long as none has, and the rest always.
* `OrchestratorProofs`: `TypeCorrect`, `NoOrphanProcess`, `RegistrationsRecorded`, for any number of instances, stops,
  registrations and crashes. `Safe(i)` says for one instance who may dispose of its process
  (`Owned`), that a caller which cleans up without the process has not left one that nobody
  can dispose of (`HandedOver`), that the exit handler finds no running process
  (`ExitIsLate`), that nothing cleans up what was never spawned (`SpawnFirst`) and that an
  awaited answer can still come or be refused (`Awaited`). `RInv` follows the registration:
  it is on disk, and as long as the instance lives also in its record, in `radiusPiId` and in
  the id each clean-up under way will disconnect (`Held`), so that no write of a record can
  lose it; none is renewed before the spawn has ended (`Early`), none recorded before it has
  begun (`Unspawned`), and the recovery saves those that the disk had (`Loading`, `Down`).

* `AgentHarnessProofs`: `TypeCorrect`, `WritesAreSerial` and `WritesInOrder` (for callers that
  wait, `~Overlap`) and `MessagesAreKept` (also for callers that do not). The types need which call may be saving an
  entry and what a call has in its hands where it is about to use it (`Ready`). `SInv` says that
  at most one call is under way and nobody else writes while it is, that the entry which is
  being saved is built on the leaf, and that the last entry has set the leaf. For the order of the
  writes, `PInv`: a flush saves the first write that waits, those asked for before it are saved,
  and while something waits a call is under way, unless it was left behind. For the messages,
  `KInv` names the holders (each queue, each call, the session): no two hold the same message
  (`Apart`), one holds each that was sent and not dropped (`Known`), and none holds it twice
  (`Once`); a call that saves a message saves the first it has in hand (`Saves`). Each action
  moves messages between two holders, drops some, or moves none (`SomeMove`, `SomeDropped`,
  `NothingMoves`); only at the end does that become a cardinality (`OnePlace`).

What a recursive function computes is proved by induction over a set: the set of numbers (or
sequences) for which the claim holds contains 0 (`<<>>`) and with each element the next, and if
it were not everything it would have a least counterexample (`WFMin` of the library's
`WellFoundedInduction`, for `<` on the natural numbers). The library's induction theorems, which
take an operator as a parameter, are beyond the provers.

Only model-checked: all liveness (`EveryCallSettles`, `RunsSettle`, `ConsumersAreReleased`,
`CallsReturn`, `CallsEnd`, `OperationsReturn`), since liveness under fairness and `ENABLED` are out of
the provers' reach.

## 7. Not modelled

`PROJECT.json` lists each component with its status. Inside the modelled ones: `reset()` during
a run, changing queue modes between runs, streaming deltas and `prepareNextTurn` (`AgentLoop`);
migration of old session versions, which truncates and rewrites the file like an empty one, and session listing
(`SessionFile`); thinking level and model of a context, branch summaries' text and
`forkFrom` (`SessionTree`); a consumer that leaves its loop early, as the agent loop does on a
completing event: it leaves nothing behind in the stream (`EventStream`); what the first pass of
`transformMessages` does to contents, and renamed call ids (`ProviderRequests`); navigation,
messages kept for the next turn, extension commands, changes of model and disposal
(`AgentSession`; navigation is in `SessionTree`); two operations of one process on a store at
once, what a process remembers of the file beyond its marks, the project's settings beside the
global ones, an `auth.json` that is a symbolic link, writes that the disk refuses, and a file torn
in the middle, for which an emptied one stands (`LockedStore`); the heartbeat of the machine, the loop of shutdown, event streams, the IPC
server and failing disk writes (`Orchestrator`); the values the setters set, what hooks return,
queue mode "all", subscriptions, the contents of summaries and of contexts (`AgentHarness`). Providers, rendering, argument parsing, package and resource
loading are I/O and layout. The extension runtime runs foreign code; what it may do while the core awaits
it is in the models of the callers.
