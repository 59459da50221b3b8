# TLA+ verification of evo-agent

evo-agent is an agent server in Rust: it runs LLM turns with tools on behalf of
clients (HTTP, WebSocket, command line), under the control of an external rule
engine (evorule), and keeps an append-only journal per session from which an
interrupted session or plan is resumed. This directory holds TLA+ models of the
protocols at its core, the TLC runs that check them on small instances, and
TLAPS proofs of the invariants that matter most. Paths below are relative to
the repository; `agent/` stands for `src/agent/`, `api/` for `src/api/`.

Contents: 1 Inventory, 2 Plan, 3 Modules and the code, 4 Runs, 5 Bounds,
6 Fairness, 7 Proofs, 8 Findings, 9 What is not modelled, 10 How to run.

## 1 Inventory

### 1.1 Components with a protocol of their own

**Turn loop** (`agent/runner.rs`, `run_stream` from line 7555; `run` is the same
loop without streaming). State: the engine session (last command, open I/O
request, events not yet read), message history, step counter, rewind budget,
runaway guard, heartbeat misses, journal position. Operations: submit the
command, serve an `IoRequested` event (LLM round, tools, service call), answer
it, react to `Stable`, `Error`, `Violation`, `StateTransition`, give up after
missed heartbeats, stop on cancel, resume after a crash. It talks to the engine over HTTP with polling, to the LLM provider
with a stream, to tools, to the approval window and to the journal. Hard:
answers that arrive after a time-out, requests nobody answers, guards that must
survive a restart, tools executed ahead of the bookkeeping. Correct means: the
runaway quota is never exceeded, a turn ends, an empty rewound turn is not
reported as a success, no request is left hanging, what the LLM is told about
its tools is true.

**Message history** (`agent/runner.rs`, `agent/memory.rs`). State: the records of a
session's payload by index, the vector of messages and the batch of records not yet
written of the running turn. Operations: persist at once, every n messages or once a
round, flush, load, mend the pairing of tool calls and results, recover after a crash.
Hard: a record's index is the length of the vector, which was loaded from the records;
crashes and failed writes cut a batch of calls and results anywhere; some messages are
sent and not persisted. Correct means: no record takes the place of another, what was
recorded is what was said in that order, no call goes to the LLM without its result.

**Approval window** (`agent/approval.rs`, `api/agent_api.rs:approve_agent`). State:
a map from session to the sender of a oneshot channel, shared by all turns and
all HTTP handlers. Operations: register and wait, time out and clean up, take the
entry, put it back, deliver. Hard: take and put-back are two critical sections
with an await in between, and the key is the session, not the proposal. Correct
means: a sender is never lost or used twice, a decision reaches the proposal it
names, nothing dangerous runs without a delivered human decision, the answer given
to the client is true.

**WebSocket session** (`api/ws_handler.rs`). State: `turn_active`, `current_cancel`,
a bounded event channel, flags on the outcome of the turn, the session index. The
main loop selects between client messages and events; a pump task per turn
forwards the runner's events. Hard: turns of a dropped connection live on, the
turn's end is signalled in two events. Correct means: the connection's state
belongs to its own turn, the client gets a terminal frame and the connection
back, a stray turn is cancelled, the index holds what happened.

**Session journal** (`agent/journal.rs`, `agent/journal_anchor.rs`). State: a file of
numbered, hash-chained lines; a process-wide registry of writers; per writer the
next number and the chain tail; turn guards. Operations: open (scan, claim, cut
a half line, mark a crash), append, begin and end a turn, clone and drop
handles, anchor the tail in the engine, verify. Hard: crash in the middle of a
line, two openers, the last handle. Correct means: append-only, chained without
gaps, one writer, each turn delimited, the anchor points into the file.

**Workflow executor** (`agent/workflow.rs`). State: results and skipped nodes of one
execution, counters over executions, the run ledger. Operations: validate, sort,
divide a layer, evaluate compute nodes, pass the phase gate, delegate in
parallel, judge, checkpoint, mark. **Plan loop** (`agent/driver.rs`,
`agent/replan.rs`). State: plan version, replan count, budgets, registry of
executed nodes, recut counters, all checkpointed in the ledger. Operations: probe,
execute a version, account, decide, replan, finish, list resumable runs, resume.
Hard: a crash between any two writes, resumes that overlap. Correct means: no
completed node runs again, nothing counts before it is in the ledger, budgets
survive restarts, a listed run can be resumed.

**Tool pipeline** (`agent/pipeline.rs`, `agent/adjudicator.rs`, the tool functions of
`agent/runner.rs` from 5334 to 6656). State: per call its stage, intents still to be
judged and retries; per runner the adjudication channel (one engine session behind a
mutex), the cache of results executed ahead, the trace. Operations: pass manifest and
focus, submit an intent and get its verdict by answer or by polling, ask for a
decision, run hooks, execute and retry, execute a batch ahead, serve it from the
cache, ask the user, file the approval. Hard: the parallel instances of a batch share
the channel, submissions get lost or judged late, every call goes through the gates
twice. Correct means: a rejected call does not run, an effect happens once and only
after its approval, decisions are filed with the call they decide, nobody waits for
the channel for ever.

**Sessions over HTTP** (`api/agent_api.rs`, `builtin_tools/ask_user.rs`). State: the
`running` map of cancel tokens of SSE turns, `pending_questions` by session, one
waiting `request_answer` per question. Operations: stream, finish, drop, cancel, the
endpoints that change a session, ask, answer, time out. Hard: every map is keyed by
session and read in one critical section and written in another. Correct means: a
cancel reaches the turn it is for, an answer the question it names, no endpoint
changes a session under a streamed turn, a question closes.

**Delegation and session chain** (`agent/delegate.rs`, `agent/session_spawn_tool.rs`).
State: spawn ledger and token counter shared by a tree of runners, a semaphore, the
chain's budget, halt flag and watches. Hard: an index into a ledger others drain, a
permit's scope, guards read before an await. Correct means: each child session is
noted once, tokens are billed to their delegation, at most the configured number of
sub-agents runs, no chain is deeper than its cap or forks unapproved.

**Event track** (`agent/event_ledger.rs`, `agent/memory_event/store.rs`). State:
numbering, tail of the cause chain, quota of a turn, governance session, cached
events. Hard: writes that fail after they took effect, sessions lost, restarts.
Correct means: causes are earlier events, both directions of a link agree, what is
dropped is accounted for in its turn.

**Workspace checkpoints** (`agent/workspace_checkpoint.rs`). State: blobs, manifest,
journal, stack. Hard: reclaiming blobs while another call captures, a crash between
two files. Correct means: each entry of the stack can be restored and is journalled.

**Memory** (`agent/memory.rs`). State: versions of facts in the engine, a cache per
manager, waiting usage counts. Hard: older versions behind tombstones, batches that
fail after the cache has counted, markers. Correct means: the verified cache holds what the
newest versions say, no recall is forgotten, nothing is proposed twice, what was
deleted stays deleted.

**MCP servers** (`mcp/`), **schedule** (`schedule.rs`), **task runs** (`tasks/`,
`api/task_api.rs`). State: a process and a counter of calls per server, a monitor, a
supervisor; the last minute planned and the running jobs; per task run its output,
viewers and cancel signal. Hard: reaping against calls, restarts against REST
handlers, minutes that pass while a job runs, replay against subscription. Correct
means: no busy server is reaped, nobody waits for a dead one, each due minute is
planned once, viewers see events in order, a cancelled task ends.

### 1.2 How they interact

The WebSocket main loop (or an HTTP handler) starts a turn of the runner; the
runner opens the journal through a turn guard and submits a command to the engine;
the engine's request makes it call the LLM and tools; a tool that needs consent
goes through the approval window, which another HTTP handler answers, a tool that
asks the user through the question window. Before a write a tool's files are
checkpointed; after it the event track gets an entry. Delegation
starts child runners with their own journals; the plan loop drives the workflow
executor, which delegates every node, and both write to one run ledger (a
journal). Shared state inside the process: the pending maps, the cancel registry,
the writer registry, the spawn ledger. Shared state outside: journal files, engine
sessions, the shared table of facts.

### 1.3 Remaining components

| Component | State | Why it matters | Status |
|---|---|---|---|
| compute functions and workflow validation (`agent/workflow.rs`) | none (pure) | boundaries of dates and numbers | planned |
| governance ledger (`governance/`) | hash chain | same hazards as the journal | planned |
| auth, tickets, rate limit (`api/auth.rs`, `api/rate_limit.rs`) | counters per key | window boundaries | planned |
| file watch, desktop supervisor | timers, child processes | restart storms | planned |
| LLM handlers, pty/lsp/dap bridges, built-in tools, settings, index, git and file endpoints, command line | streams, files | I/O and text | left out |

`PROJECT.json` lists every component with its sources and the reason for its status.

## 2 Plan

1. `HttpApproval` (done, proved): interleaving of turns and handlers on one map.
2. `WsTurns` (done, proved): main loop and pumps over a bounded channel.
3. `Journal` (done, proved): openers, writers, crashes on one file.
4. `TurnLoop` (done, proved): the runner against the engine.
5. `WorkflowGraph` and `PlanRun` (done, proved): plan loop over executor over ledger.
   `PlanRun` extends `WorkflowGraph`, which holds the pure operators.
6. `ToolPipeline` (done, proved): the parallel instances of a batch, channel and cache.
7. `HumanGate` (done, refinement proved): what the runner relies on when it asks a
   person; `HttpApproval` implements it.
8. `HttpSession`, `Delegation`, `SessionChain` (done, proved), composed in `MCSessions`.
9. `EventTrack`, `Checkpoints`, `MemoryCache` (done, proved), composed in `MCRecords`.
10. `McpServers`, `TaskRuns`, `Scheduler`, `Calendar` (done, proved), composed in
    `MCServices`.
11. `History` (done, proved), checked with `Journal` in `MCJournal`.
12. Next: `WorkflowCheck` (validation and layer checks against graph reachability),
    the governance ledger, tickets and rate limit, file watch, supervisor.
13. Compositions worth having: `WsTurns` with `HttpApproval` (a dropped connection
    during an approval window), `TurnLoop` with `Journal` (the guard replay over the
    real file), `TurnLoop` with `History`.
14. Abstract specifications worth stating next: an append-only log implemented by
    `Journal`; an at-most-once executor implemented by `PlanRun`.
15. Proofs: every invariant a run checks is proved (section 7). Worth proving next are
    the refinements of 14.

Modules that are proved about use no recursive operators; layers are computed with
a recursive function, the depth of a session is stated by the chain of its parents
(`Climbs`), the turns of a file are counted as a set (`Starts`).

## 3 Modules and the code

The `map` of `PROJECT.json` gives the source lines of every definition.

### 3.1 HttpApproval

`pending` is the map of `HttpApproval`, keyed by session; `stage[p]` is the position of
`request_approval` for proposal p, `chan[p]` its oneshot channel, `pc/held/req` one
`approve_agent` handler each. `Announce`, `Register`, `Receive`, `ChannelClosed`,
`Expire`, `CleanUp`, `Reexecute` and `Abandon` are the waiting turn; `Take`, `Mismatch`,
`GuardHit`, `PutBack`, `Deliver`, `HangUp` the handler. The lock is released between
`Take` and `PutBack`; expiry and clean-up are separate steps, because the timer fires
before the map is locked. A body carries the proposal the user looked at (`meant`),
which is also the id it names, if it names one.

### 3.2 WsTurns

The connection (`connVars`): open flag, `turn_active`, `current_cancel`, outcome
flags; the channel; per turn a pump and a runner stream. `HandleAgent`,
`HandleTurnDone`, `HandleTurnEnd` are the event arms of the select, `Start`,
`Interrupt`, `Disconnect` the message arms, `EmitEvent`, `EmitTerminal`,
`StreamEnds`, `Synthesize`, `SendTurnDone`, `SendTurnEnd` the pump. Sending into a
full channel blocks the pump. A reconnect makes a new connection with a new channel
while pumps of the old one find theirs closed: from then on their turns are orphans.

### 3.3 Journal

`file` is a sequence of lines with number, predecessor and kind, a partial line at
most at the end. An opener scans (reads everything), then claims the registry and
cuts the file to what it scanned, then writes the anchor or the crash mark: three
steps, as in `open_with_mode`. `Push`, `BeginTurn` and the guard's end append.
Dropping a handle is split in reading the count (`DropCheck`) and releasing the reference
(`DropRelease`). A crash
may leave half a line. `overtaken` is a history variable: it is set when an opener
claims after another writer has changed the file it scanned. The hash chain is modelled as the predecessor a line names:
hashes are assumed not to collide.

### 3.4 TurnLoop

`engine` variables model evorule from how the runner uses it (marked external): a
queue of commands, at most one open request that gates them, and events. The runner's
`pc` walks through one step of `run_stream`. The guards are kept twice, in memory and
as the journal lines they are rebuilt from. `Begin` (new turn or crash
resume; the repair of dangling calls is `History`'s), `Heartbeat`, `StreamLost`, `Cancel`, `Crash` and the arms of each event type are actions; tool calls are
executed serially or, with `Parallel`, as a batch before the loop over the calls.
Context building, summaries and metrics have no effect on this control and are left
out. The engine sends transitions as often as it likes (`EngineTransition`; `MaxBacklog`
bounds only how many wait at once); everything else it sends takes its command a step
on. `Reliable` restricts calls to the engine and the store to succeed, which shows that the
runner alone is at fault.

### 3.5 WorkflowGraph and PlanRun

A plan is a record of nodes, dependencies, conditions, compute and atomic nodes and
the output node. `Layer`, `Runs` and `EvalCondition` are `topological_sort`,
`plan_layer` and `eval_condition`; `Valid` is what validation and sorting demand before
a plan is executed (`validate`, the cycle check, `check_run_when_layers`), which
`PlanRunAssumption` requires of every plan. `PlanRun` has one driver at a time (`pc`), the
ledger (`saved`, `grains`, `finished`), the marks session of the engine, and resume
requests that have read the ledger and wait to open it (`loaded`). A node's
completion is the chain `Collect` (checkpoint line), `Blob` (a second line when the
result is large), `Mark` (result counts, mark sent). `Account`, `Drain`,
`WriteState`, `Decide`, `Replan` are the driver after a version. Results are
abstracted to what a condition can tell apart; a plan is identified by version and
content, as the hash of the workflow does. `tally` only records history that no
component keeps. `Requires` stands for the rules in the engine that make a phase
depend on marks.

### 3.6 ToolPipeline

A call is a tool name with its arguments, the key of the cache; sets of calls
(`ReadOnly`, `Idempotent`, `Candidate`, `Forbidden` and so on) stand for the static
tables, the manifest and the rules. `inst[0]` is the pipeline instance of the loop over
the calls, `inst[i]` the one that executes the i-th call ahead; its `stage` walks
through `gate` (intents of target scope, tool and egress), `approve` (policy,
proposal, hooks), `exec` and `done`. `Lock`, `ReadVersion`, `Settled`, `Unsettled`,
`PollVersion` and `ChannelError` are `await_verdict`: the version of the session is kept
as whether it has advanced since it was read, `wire` holds the intents the engine has
not judged. `Answer`, `Start` and `Fill` are the execution ahead (calls that are not
read-only one by one, then read-only ones in chunks), `Serve`, `Ask`, `Decide`,
`ResolveQuestion`, `Reply`, `RoundDone` and `Leave` the loop. The approval window itself is
`HttpApproval`; here a decision is a choice. The LLM may write the flag
`approved` into a call itself (`SelfApproved`): the loop's first call strips it
(`strip_approved_flag`), the execution ahead passes the arguments as they are
(`AsWritten`), and a legacy tool, which looks for the flag in its arguments, then runs
(`Unlocks`). A candidate is stopped before that by the proposal of the pipeline, flag or
not. The instance of the loop writes policy verdicts and retries to the journal and is
refused when that fails; the instances ahead have no journal. `runs`, `approved`, `outrun` and `misfiled` record history.

### 3.7 HumanGate

The abstract specification of `ApprovalCallback`: per proposal a gate (idle, asked,
granted, refused, left, done) and the decision taken while it was open. The map from
`HttpApproval` (`GateOf`, `DecisionOf`) reads the gate off the turn's stage and the
decision off the channel; `ImplementsGate` is `GateSpec` under it.

### 3.8 HttpSession

`running` is the SessionStore, `pending` the QuestionStore, `turn`, `sess` the turns over
SSE and WebSocket, `window[q]`, `sender[q]` a `request_answer` and its channel,
`answerer`, `canceller`, `changer` one handler each between its two critical sections or
awaits. `known` are the sessions a client can name: an SSE turn's session is new, so
no request names it before `SessionCreated`. `changed` and `cancelled` record history.

### 3.9 Delegation and SessionChain

`Delegation` has two parts: calls of the delegate tool by runners that share one
context (`Delegate`, `Anchor`, `Spend`, `CloseWindow`, `Flush`), and a layer of nodes
behind a semaphore (`StartLayer`, `Admit`, `NodeReturns`). `crossed` records the calls
whose windows overlapped those of another runner. `SessionChain` walks a
`session_spawn` call through proposal, decision, the three guards and the fork, each
a step of its own because an await lies between them; `Continue` is a session that a
client continues with a new runner, hence a new chain state. `late` counts forks over
the budget.

### 3.10 EventTrack

The engine (external) holds sessions and versions of facts; the runner's track keeps
the number, the tail and the quota, the store its cache. `Start` and `Restart` begin a
runner over a saved or a new governance session, `RecordTool`, `RecordApproval`,
`BeginTurn`, `SessionEnd` make events, `Write` and `Link` bring them to the engine and
may fail before or after they take effect (`Fault`).

### 3.11 Checkpoints

`PreCapture`, `Execute`, `CommitJournal`, `CommitManifest` or `Discard` are one tool call
with its files; two writers interleave. A runner without a journal commits an entry with
no line: the writer remembers whether its line was written (`lined`), and an entry names
the line it has. `UndoRestore` and `UndoPop` are undo, `Reclaim`
the removal of blobs no entry names, `Crash` loses what is pending, `Outside` is any other
program that writes the file.

### 3.12 MemoryCache

`session` and `shared` are the tables of versions in the engine, `local` a manager's
cache, `counted` and `staged` what a recall leaves for `flush_usage`, `lex` the facts of
the LexStore. A manager's operation is one action (`&mut self`), except that another
manager may act between any two. `op` records the last operation for the properties.

### 3.13 McpServers, Scheduler, Calendar, TaskRuns

`McpServers` has one configured server: its processes by generation, the calls to them,
the monitor that reaps, the supervisor that connects again and the two REST handlers,
each split at its awaits. `Scheduler` is `run_loop` with a clock that moves during a
tick; `Calendar` walks day by day and compares the civil date and weekday computed by
the code with a calendar that counts. `TaskRuns` has runs with their watcher tasks, cancels with their grace period, and the
viewers of one run (`WatchedRun`), whose events are numbered: `Push` puts an event into
the replay buffer, `Broadcast` hands it to those who have subscribed by then, `due` are
the events whoever emits has still to emit before it goes on. A viewer is `Open` (replay),
`CheckFinished`, `Subscribe`, `Forward`. `WaitFails` is `try_wait` giving an error: the run
is given up although the process may live.

### 3.14 History

`store` holds the records of the payload by index, `messages` and `pending` belong to the
turn. A message is a number (the order in which it was spoken), its role, its calls and,
for a result, its tool. `Persist` is `messages.push` with `persist_message_with_reasoning`
in the three modes of `message_persist`; `Flush_messages` writes a batch, or message by
message when the batch is refused, and drops what fails. `StartTurn` loads and mends
(`Sanitize` is `sanitize_tool_pairing` with its two passes), `ResumeCrashed` adds
`repair_dangling_tail`, planned by `PlanDanglingRepair` over what was mended.
`SteeringNote`, `MarkTruncated` and `GuardRejects` push messages that are never persisted;
`EndFlushed` and `EndBare` are the returns with and without a flush. `gone` and `skipped`
record history: messages whose record was replaced, and whether a message has been passed
over (never persisted, dropped by a flush) or a load has failed.

## 4 Runs

Passing runs, with the distinct states TLC finds:

| Run | States | What it shows |
|---|---|---|
| approval | 116 thousand | senders never lost or doubled, named decisions hit, nothing unapproved runs, decisions are final, every announced window closes |
| ws | 512 thousand | connection state belongs to its turn, stray turns are cancelled, release only after a terminal frame, no ghost entries, a turn gives its connection back |
| journal | 4.6 million (symmetric openers) | one writer; without an overtaken opener the file only grows, is chained and delimited and holds its anchor, over crashes and half lines; the records of messages are those that were spoken, in order, as long as none was passed over, and no call is sent without its result |
| turn | 2.1 million | quota over turns and crashes, rewinds within the budget of a process, no empty success, every turn ends unless the engine sends transitions for ever |
| plan_safety | 3.5 million | no completed node runs again, ledger first, a good end has its output |
| plan_liveness | 312 thousand | replan and recut budgets over restarts, every driver ends |
| tools | 876 thousand | rejected calls never run (as long as no verdict outruns an intent), effects at most once and only approved (but for a legacy call ahead with a flag of the LLM's), approvals filed with their call, every batch is worked off |
| sessions | 508 thousand | answers reach their question, cancels their turn, no change under a streamed turn; child sessions are noted once, tokens billed to their delegation; the chain's depth, approval and budget hold while guards are read before awaits |
| records | 2.6 million | event causes, links and quota over faults and restarts; every checkpoint restores and, with a journal, has its line; caches align with newest versions, no recall forgotten, no event proposed twice |
| services | 651 thousand | calls in flight counted exactly, no busy server reaped, nobody waits for a dead one; each minute planned once, within the scan cap; calendar; tasks end when cancelled, viewers see events in order and at most one twice, and a queued end reaches them |

The runs journal, sessions, records and services compose components that share no state: a variable `focus` picks the
one that moves in a behaviour, so that the state spaces add up instead of multiplying.

The invariants of a module that say one thing together are checked as one named
conjunction, whose parts have a name and a comment of their own:

| Checked | Parts |
|---|---|
| `DecidedRight` | `SenderHeldOnce`, `NamedDecisionMatches`, `ExecutedOnlyIfApproved` |
| `WsInv` | `TypeOK`, `ActiveIsTheHolder`, `StrayTurnCancelled`, `ReleasedAfterTerminal`, `NoGhostEntry` |
| `JournalInv` | `TypeOK`, `OneWriter`, `TurnsAreDelimited`, `AnchorHolds` |
| `HistoryInv` | `HistoryTypeOK`, `RecordsMatch`, `CallsAnswered` |
| `TurnInv` | `TypeOK`, `RewindsBoundedAlive` |
| `PlanInv` | `TypeOK`, `LedgerFirst` |
| `QuestionInv` | `TypeOK`, `AnswerIsForQuestion`, `SenderIsHeld` |
| `StreamInv` | `CancelReaches`, `StreamUntouched` |
| `DelegationInv` | `DelegationTypeOK`, `AnchoredOnce`, `SerialWindowExact` |
| `ChainInv` | `ChainTypeOK`, `DepthHolds`, `OneLateFork` |
| `NobodyWaits` | `QuestionCloses`, `LayerReturns` |
| `TrackInv` | `TrackTypeOK`, `CauseIsEarlier`, `BothWays`, `DropsAccounted` |
| `CheckpointInv` | `CheckpointTypeOK`, `EntryRestores`, `StackJournalled` |
| `MemoryInv` | `MemoryTypeOK`, `VerifyAligns` |
| `UsageKept` | `IncrementsKept`, `MarkedNotProposed` |
| `McpInv` | `McpTypeOK`, `InFlightExact`, `NobodyWaitsForDead`, `StartingOwned` |
| `ScheduleInv` | `ScheduleTypeOK`, `OneLineAMinute`, `NoneSwallowed` |
| `CalendarInv` | `CalendarAgrees`, `SundayEither` |
| `TaskInv` | `TaskTypeOK`, `ActiveKept`, `SeenInOrder` |
| `WorkEnds` | `TicksEnd`, `CancelStops`, `LiveSeesEnd` |

`TypeOK` of `HttpApproval` and of `ToolPipeline`, and `DecisionFinal`, are proved
(section 7) and not repeated in a run.

Each part has a mutant in `PROJECT.json`: a small change of the
model, of a kind that could be made in the code, which TLC must report as a violation
of the conjunction. Runs that
expect a violation (delegation_permits, memory_tombstone) are findings of section 8: the property is a sentence from a comment
or a document, and the counterexample is a behaviour of the code.

## 5 Bounds

- Approval: two proposals of one session and two requests are the smallest instance
  in which a put-back can meet a newer entry and a decision a newer proposal; a
  third proposal adds no new pair. One of the two proposals is dangerous.
- WebSocket: two turns, so that a stray turn of an old connection and the active one
  of a new connection coexist; a channel of three, so that a terminal event, TurnDone
  and TurnEnd of one turn fit in it at once, and two events per turn, so that it is full
  while a turn still has events to send.
- Journal: five lines with two openers (anchor, a turn, a crash mark and one more),
  two handles, the smallest number that can race for the last drop.
- History: five messages (a question, a batch of two calls with both results, or two
  turns), two names of tools so that results can be told apart, batches of two records,
  one rejection by the guard, two of crashes and failed writes and loads; all three modes.
- Turn loop: two steps, two rewinds, quota two, two turns and two crashes: the
  quota can be exhausted in one turn, over two, and over a restart. `MaxRequests`
  (two) bounds the requests of the engine, `MaxBacklog` (two) the events that wait when it
  adds a transition, not how many it sends, `MaxCalls` a batch.
- Plan: three nodes, two shapes (two nodes in one layer under a join; a condition
  over a compute output), one replan with two crashes and two resumes; or a chain
  with a large result, two replans and one recut, a crash and a resume.
- Tools: a call of every class, with the LLM's own flag on one of two legacy calls and
  on the candidate, batches of up to two of any calls and of three of a read and a command (two chunks with a cap of two), two answers of the LLM (a cache
  that outlives its batch), one intent, one poll, one retry and one late intent: the
  smallest values at which each limit is both reached and not.

- Sessions: two sessions, an SSE and a WebSocket turn, two questions (a newer one can
  replace an older one), one request at a time to each endpoint. Three delegate calls
  of two runners, two nodes and one permit. Three sessions with a depth cap of one: a
  root, a child and a grandchild that must not exist; two chains.
- Records: two starts, two faults, five events against a quota of three; two writers of
  one path with two contents and a stack of two; two managers over one event, or one
  over two session keys of which one is a prefix of the other, three versions.
- Services: one call, two REST requests, two generations of a server (the first and the one
  after a reap); six minutes, two jobs, a scan cap of three and one restart; 800 days
  from 1970, 2000 and 2100 (a leap century and a common one); two runs of one label,
  one of them watched by a viewer, with a replay buffer of three; that one has a line of
  output and is cancelled up to twice, the other competes for the label and the room.

All bounds are CONSTANTS in guards; the theorems hold for every value of them.
`CHECK_DEADLOCK FALSE` is set where the bounded environment, or a client that
never comes back, may simply stop.

## 6 Fairness

Weak fairness only, on steps the process takes by itself: the timer and the waiting
turn of an approval (tokio polls it), handlers once started, pump and main loop while
the connection lives, the runner's own steps and its heartbeat clock, the plan driver
and an admitted resume, the pipeline and the loop over a batch (requests to the
engine, tools, approval and question windows have time-outs), a waiting question and
its timer, the futures of a parallel layer, the wait for a job (it has a time-out),
the watcher of a task run, the emission of an event that has begun and a viewer that is
connected. The watcher gets to a cancellation because its loop over the output
(`task_api.rs:164`) comes to an end, which `MaxOutput` grants here and a process that
writes faster than the loop reads might not; a connection is given back because a send to
a client whose socket is open does not block for ever. `TurnEnds` has the hypothesis that
from some time on the engine sends no transition: the code has no bound of its own
(section 8, `TurnAlwaysEnds`). No fairness on clients, on the engine, on crashes, on
disconnects or on resumes. Delegated agents and LLM calls are taken to end, because
the code gives each of them a time-out.

## 7 Proofs

The theorems hold for every value of the constants that the assumptions allow. Each
rests on an inductive invariant, which TLC checked on the instance of a run before it
was proved; all are about the specification without its fairness or with it left
unused. What the runs check and the theorems state:

| Module | Theorems | Runs' properties |
|---|---|---|
| `HttpApprovalProofs` | `Decided` (with `OneHolder`, `NamedDecisions`, `Approved`), `Final`, `Refinement` | `DecidedRight`, `ImplementsGate` |
| `WsTurnsProofs` | `ConnectionSound` | `WsInv` |
| `JournalProofs` | `JournalIsSound`, `JournalAlwaysVerifies`, `JournalGrowsOnly`, `HistoryIsKept`, `CacheMatchesServer`, `UsageIsKept` (with `RecallsAreKept`) | `JournalInv`, `JournalVerifies`, `GrowsOnly`, `HistoryInv`, `MemoryInv`, `UsageKept` |
| `TurnLoopProofs` | `Quota`, `RewindsAreBounded`, `SuccessIsEarned` | `QuotaHolds`, `TurnInv`, `NoEmptySuccess` |
| `PlanRunProofs` | `ResultsAreInLedger`, `GoodEndsHaveOutput`, `ResumesAgreeWithLedger`, `CompletedStayCompleted`, `ResumesRefillNothing` | `OkHasOutput`, `PlanInv`, `ZeroReexecution`, `BudgetsHold` |
| `ToolPipelineProofs` | `EffectsAreApproved`, `ForbiddenCallsAreStopped`, `RunsAtMostOnce`, `DecisionsAreFiledRight` | `EffectIsApproved`, `ForbiddenNeverRuns`, `AtMostOnce`, `ApprovalsFiledRight` |
| `SessionsProofs` | `QuestionsAreKept`, `StreamsAreKept`, `DelegationIsNoted`, `ChainIsCapped`, `ForksAreApproved` | `QuestionInv`, `StreamInv`, `DelegationInv`, `ChainInv`, `FirstSpawnApproved` |
| `ServicesProofs` | `ServersAreSupervised`, `BusyServersAreKept`, `TaskRunsAreTracked`, `EntriesCanBeUndone`, `EventsAreLinked`, `EffectsAreKept`, `MinutesAreNoted`, `CalendarAlwaysAgrees` | `McpInv`, `NoBusyReap`, `TaskInv`, `CheckpointInv`, `TrackInv`, `EffectsKept`, `ScheduleInv`, `CalendarInv` |

**HttpApproval**, for any sets of sessions, proposals and requests. The inductive
invariant is the conjunction of the types, the placement of senders (each open
channel's sender is in exactly one place: the map under its own session, or one
handler), a link between what a handler holds and the channel's state, and the match of named
decisions. The placement is what a put-back or a clean-up could destroy, so it is
needed for every other part. Assumption: each proposal has one session and the
absent values are no members (`HttpApprovalAssumption`). `Refinement` proves that the
window implements `HumanGate` (`ImplementsGate`): the initial states map to initial
states, a step of the waiting turn to `Ask`, `Grant`, `Refuse`, `Leave`, `Do` or a stutter, a
delivery to `Decide` or a stutter, every other handler step to a stutter. For it the
link also says that a proposal whose timer fired holds no unread decision.

**WsTurns**, for any set of turns, channel capacity and number of events. The invariant
is about the contents of the channel: it
holds only events of turns of the open connection and one TurnDone at most (otherwise
a TurnDone could release a turn that is not its own), a terminal event is ahead of
every TurnDone and TurnEnd or was already sent to the client, and a session that has
no name yet is announced ahead of the first successful result. Assumption:
`WsTurnsAssumption`.

**Journal**, for any openers, handles, lines and crashes. A writer *owns* the file while
it has a handle that is not being dropped; the registry has an entry while there is an
owner, and there is one at most (`Registered`): the entry alone says nothing, since the
last handle of an old writer may take away the entry of a new one. `UpToDate` says what
a writer knows: a scan is true as long as the file has not grown since, an owner knows
the last line and the number of turns. `Knows` and `Delimited` carry the numbering of
turns (each is settled, that is ended or marked as crashed, before the next starts).
All of it is under `~overtaken`, as the properties are (so `JournalAlwaysVerifies` says
nothing of a file that was claimed after an outdated scan); `Registered` is not.

**TurnLoop**. `Quota` is about the counter of a policy, under `~Parallel` (with parallel
tools TLC refutes it, section 8): the running guard in memory equals the journal lines
it would be rebuilt from, executions are at most the invocations counted, strictly less
between invocation and execution, and the invocations never exceed the threshold. The
first part is what makes the quota survive a crash. `RewindsAreBounded` and
`SuccessIsEarned` need no such hypothesis. `RewindInv`: as long as nothing has crashed,
the rewinds in a row and what is left of the budget stay within the limit, and a
running turn that is not rewound has work to show; `BatchInv`, for the types of a
batch that is stored call by call: what is left to do and what is stored make up the
LLM's answer; `GuardInv`: the guard of a turn agrees with the journal.

**WorkflowGraph and PlanRun**, for any set of valid plans, any dependency of phases on
marks and any number of versions, recuts, crashes and resumes. First come lemmas about the layers,
which are computed by a recursive function: what is processed after k rounds
(`ProcessedRounds`, by a least counterexample), a layer's dependencies lie in earlier
layers, there are at most as many layers as nodes. `LedgerIInv` holds however many resumes overlap: a
result in memory, or in what a resume has read, has its complete checkpoint in the
ledger (`Backed`), a checkpoint in the middle of its two lines is of a node of the present
layer (`Pending`), the layers before the present one are decided (`Layered`), an end
without error has the output (`Verdict`). `RunIInv` adds what holds with one resume at
a time: the verdicts of the ledger on the present version exclude each other and are
those the dependencies and conditions give (`Current`: a second resume that evaluates a
condition later than the first must not decide it otherwise), the driver continues the
last plan checkpoint (`Single`), its memory mirrors the ledger node by node (`Mirrors`),
the counters in the ledger are the counts over the run (`Counted`). `Overlap <= 1` is a
hypothesis of the theorems that need it, since the code has no lock between resumes and
two of them do execute a node twice (section 8, `driver.rs:514`).

**ToolPipeline**, for every set of calls and every classification of
them, every batch size, cap and number of intents, polls and retries. The first
invariant (`IInv`) adds to the types where an instance can be: it belongs to its
place of the batch, only the loop's works after the batch ahead is done, whoever
holds the channel is at the gate, only the loop's carries a decision and the call
was approved; and, until a verdict was given too early, that at most one intent
waits in the engine, the holder's own, so an advanced version speaks for it. The
second (`OInv`), on top of it, follows the result of the one execution of a call that
is not idempotent: in the instance that ran ahead, then in the cache, then in the
loop's instance, which therefore takes it and does not run; a call that asks for a
decision or an answer has not run, which is why its second pass may. It needs that a
proposal is never cached and that no call is decided before the loop is at it. The
third (`FInv`): while the loop has a proposal in hand or passes an approved call again,
the last entry of the trace is that call's, because the instances ahead are gone by then.
`EffectsAreApproved` names its exception, the legacy call that runs ahead with the flag
of the LLM; `Preset` says that no other instance carries a flag nobody has decided, and
`Phased` that it can only be one of a batch executed ahead.
Assumption: `ToolPipelineAssumption` (the classes are sets of calls, an intent count
is at most 3, a forbidden call submits at least one intent, the bounds are naturals).

**HttpSession, Delegation, SessionChain**, for any sessions, turns, questions, requests,
calls and runners. Questions: the sender of a question that can be answered is in one
place, the map or one handler, and a turn waits for one question at a time (`SenderInv`,
`AskerInv`). Streams (`MapInv`): the map's entry is the streamed turn of its session, which
is unique because a stream opens a new session; a handler between its two critical
sections holds a session whose streamed turns were cancelled. Delegation: a call is noted
in one place, the ledger or one journal (`NotedInv`), and a call whose window no other
overlaps finds its record where it left it and the counter at what it has spent
(`WindowInv`). Chain: only a session with room below it gets to the fork (`RoomInv`), a
runner over its budget never does again (`LateInv`), a spawn past the proposal was
granted to the present runner (`ApprovedInv`).

**McpServers, TaskRuns**, for any requests, handlers, generations, runs and viewers.
`ReqInv`: a request belongs to a generation that was connected, and the errors in a row
of a process are requests that came back, which is what lets the counter of calls in
flight be compared with the set of calls. `ViewerInv`: what a viewer has seen, followed
by what waits for it, was emitted, in order, and ends where the broadcasts are. Until it
subscribes a viewer has seen at most one event that was not broadcast yet, which
is why at most one comes twice.

**Checkpoints**, for any writers, paths, contents and depth of the stack. What an undo
needs is built in three steps without a lock between the first two, so the invariant
follows a snapshot (`Fit`): captured, its blob is there and is what the file holds;
after the tool has run, it is what the write replaced; on the stack, both still hold.
`clash` marks the snapshots that somebody interfered with, and every step that could
take a blob away or change a file marks those it concerns (`DisturbSpares`,
`ReclaimSpares`). The numbers grow towards the top (`StackShape`), so the next number is
new (`NextSeqIsNew`) and the cap cuts entries off at the bottom (`CappedIsTop`). The lock
belongs to the one writer that is between journal and manifest or between restore and
pop (`LockInv`): an undo pops the entry it has restored. Assumption:
`CheckpointAssumption` (the absent content, path and writer are no members).

**EventTrack**, for any number of events, faults and starts, for the track of `/mcp` and of
a runner. A fact in hand as a cause is one of the session of the store, and so is the
cause of the event that would be written again as its source (`Sourced`): the cache
keeps entries of sessions that are gone, and a chain that is found again is read
through it. It cannot go wrong because the store never returns to a session it has left
(`CausesInv`), and before it has one nothing is caused. `BodiesInv` compares versions:
every build has a body of its own, and the cache is never behind the facts of its
session with the same body, even where the answer to a write was lost. `WalkInv` is the walk in both
directions, as long as nothing went wrong: the events are numbered without gaps, each
but the last has the next one among its effects, and the process goes on at the last
event or, after a restart, at the last but one, whose number it then gives again
(section 8, `EventKept`). Assumption: `TrackAssumption`.

**History**, for any number of messages, any names of tools, each mode and any retries
and crashes. `Straight`: as long as nothing has been passed over the records are an
initial segment, in order; the vector of the turn begins with them and the batch is its
rest, with the indices that continue them. `Paired`: every call in the vector has its
result, but for those of the last assistant message while its tools run (`Asking`). That this holds
again after a crash rests on lemmas about the mending: what `sanitize_tool_pairing` returns
has the same messages in the same places and no call without its result
(`SanitizeIsPaired`; a result without its call may stay, section 8), so
that the repair finds nothing to do (`NothingDangles`), and loading returns the records
in the order of their indices (`LoadIsStored`, by the ranks of a finite set of numbers).

**MemoryCache**, for any managers, keys, events, contents and bounds, and any outages of
the engine. `RecallShape` is what a flush relies on: a fact with recalls waiting is in the
table and of an event, and no LexStore is ahead of the table; so an increment of a batch
names an event, is written with it or put back. `RecallsAreKept` needs nothing more.
`UsageIsKept` has the hypothesis `Nested = {}`: the marker of an event whose key has a part
before "events." is not recognised, and such an event is proposed again (section 8).
That a lifecycle step spares the marked events (`ProposalsSpareMarked`) is proved
without it, for the events that are not nested. Assumption: `MemoryAssumption` (the set
of events is finite, the absent values are no members, the bounds are naturals).

**Scheduler**, for any jobs and expressions, any scan cap, clock, restarts and clocks set
back. `LinesPast`: the lines of the present epoch lie behind the minutes that are still
to be looked at. `PlanAhead`: what a tick has planned is without repetition and has no
line yet, but for the job that runs. From the two follows that a minute gets one line.
`NoneForgotten` follows the minutes that match between the last look and the present
one: each has a line or is in the plan, which is what the next look starts from, however
long a job ran. It begins again (`since`) where a look is more than the scan cap after
the last one: those minutes the code drops (section 8, `NeverSwallowed`). The plan is complete and in order by the ranks of its minutes
(`PlanIsComplete`). Assumption: `ScheduleAssumption` (the names of jobs are unique,
which `schedule.rs:260` validates; the clock has a minute after the first).

**Calendar**, for every day from 1970 on, wherever the walk begins. A day number is a
place in an era of 400 years (`PlaceOK`: century, run of four years, year, day, with
the years beginning in March), every number has one (`EveryDayHasAPlace`), and the
divisions of `civil_from_days` compute the date of that place (`PlaceHasDate`). The
next number is the next day of the year or the first of the next (`DayAfter`), which is
what `increment_minute` gives. The days before a month and the leap years before a year
are counted as sets, so the day of the week moves on by one (`NextWeekday`), and by
a least counterexample it is that of the number for all days (`EveryDayDated`).
Integers are unbounded here; the dates of the code fit its i64 and i32.

Not proved, and why. Liveness of every module (the properties of section 6): the prover
has no rules for fairness and ENABLED. The properties of section 8 are false.

## 8 Findings

Two are runs that end in a counterexample; `PROJECT.json` quotes the sentences they
contradict.

- delegation_permits: the permit of the semaphore is bound inside the block that
  acquires it and released at its end, before the sub-agent starts.
- memory_tombstone: a recall counts and stages every version of an event, and
  `flush_usage` writes the old record over the tombstone.

The modules state further sentences of the code's comments that TLC refutes when they are
given as the property of a configuration like the ones here (constants that differ
in brackets):

| Module | Definition | What happens |
|---|---|---|
| Journal | `AppendOnly` | an opener scans, another one opens, appends and releases, the first one claims and cuts the file to its scan (`journal.rs:1119`, against line 4 "会话唯一真相源(append-only)"); `overtaken` marks these behaviours, the run's invariants hold in all others and `OneWriter` in all |
| TurnLoop | `RewindsBounded` | the turn_started line of the resumed turn counts as progress, so the rewind budget is full again after every crash (`runner.rs:7958`, against 7955 "重启不可绕过护栏") |
| PlanRun | `ListedIsResumable` | after a replan and before the first checkpoint of the new version a crashed run is listed as resumable and every resume is refused (`workflow.rs:2071`, against `driver.rs:1034`) |
| PlanRun | `CountersTrue` | the node counter, cumulative in the executor, is added once per version (`driver.rs:727`, against `driver.rs:94` and `replan.rs:49`) |
| ToolPipeline | `PlanModeReadOnly` | with parallel tools a batch is executed before the loop in which plan mode blocks the tools outside its allow list (`runner.rs:8990`, against 5960) [`Narrowed` not empty] |
| HttpApproval | `SenderNeverDropped` | a second turn's registration, a put-back or a clean-up by session id drops the sender of a waiting turn (`approval.rs:227` "不应该发生") |
| HttpApproval | `DeliveredIsReceived` | the 200 of `/approve` answers a decision whose receiver is gone (`agent_api.rs:2410`) |
| HttpApproval | `NoPendingItemIsTrue` | 409 while a turn waits, because another handler holds the entry (`agent_api.rs:2410`) |
| HttpApproval | `NoCrossTalk` | a late answer without an id decides a newer proposal (`approval.rs:87`) |
| WsTurns | `OneTerminalFrame` | a failed turn sends an Error and a failed Done, two terminal frames (`ws_handler.rs:646` "客户端必收恰一个终态帧") |
| WsTurns | `SuccessfulTurnRecorded` | a message accepted between TurnDone and TurnEnd resets `turn_succeeded` (`ws_handler.rs:550`) |
| Journal | `CrashMarksAreTrue` | a reopening after anything follows the mark writes a second mark for the same crash (`journal.rs:1000`) [`Opener = {w1}`, `MaxWrites = 6`] |
| Journal | `RegistryFreed` | two handles dropped at once both read a count of two and the session stays locked (`journal.rs:951`) |
| TurnLoop | `QuotaHolds` | a parallel batch runs before the guard counts it (`runner.rs:9171`) [`Parallel = TRUE`] |
| TurnLoop | `NoRequestLeft` | plan_submit, a runaway pause and the step limit return without answering the request (`runner.rs:9151`) |
| TurnLoop | `TurnAlwaysEnds` | every event resets the heartbeat, a transition refills the rewind budget and neither counts as a step: an engine that goes on sending transitions holds the turn for ever (`runner.rs:8250`, `10248`; 8104 "rewind 不计步的无界回退循环在此封顶" bounds errors in a row only) |
| TurnLoop | `RejectionFedBack` | the `continue` after a rejection continues the event loop (`runner.rs:9803`) |
| TurnLoop | `NextTurnResumes` | a heartbeat abort frees the engine for the aborted turn's own queued command (`CHANGELOG.md:58`) |
| History | `LoadedIsPaired` | a crash between two tools of a batch leaves two calls and one result: the second pass voids the calls and the result stays, without a call (`runner.rs:10449`, against 10396-10405 "提供方对 tool 配对破损一律拒收") |
| History | `NothingReplaced` | a message that is not persisted (`runner.rs:8286`, `9619`, `9659`), a dropped record or a failed load shortens what the next turn loads, and its first record replaces an earlier one (`runner.rs:8001`, against 10404 "调用方消息序号与持久化 idx 的对应关系不受影响") |
| History | `DanglingRepaired` | the mending voids dangling calls before the repair looks for them: a crash recovery finds nothing to repair (`runner.rs:7915`, against 7007-7009 and 7238-7241) |
| PlanRun | `ListedIsResumable` | also after a crash between the two lines of a large result [`Large = {"a"}`] (`workflow.rs:798`) |
| PlanRun | `GateIsRight` | a crash between checkpoint and mark: the gate halts a run whose prerequisite is done (`workflow.rs:1025`) [`Requires <- BAfterA`] |
| PlanRun | `RegistryComplete` | nodes completed before a crash enter no registry (`workflow.rs:946`) |
| PlanRun | `ZeroReexecution` | the second of two overlapping resumes executes what the first completed (`driver.rs:514`) [`Overlap = 2`] |
| ToolPipeline | `RunnerAloneApproves` | the execution ahead passes the arguments of the LLM as they are, so that a legacy tool with `approved` in them runs without a decision (`runner.rs:6378-6388`, where 5380 and 5995 strip it; against `approval.rs:443` "`approved:true` 只能由 runner 在决策端批准后的重执行时注入") |
| ToolPipeline | `ServedIsFresh` | the cache is cleared only before a batch of several calls: a later single call with equal arguments gets the old result without being executed (`runner.rs:6361` "每次 call_external 开始时调用") |
| ToolPipeline | `EffectIsReported` | what was executed ahead is refused when it is served, by a hook, the channel or the journal, and the LLM is told it failed (`pipeline.rs:847` "真实结局必须回喂") |
| ToolPipeline | `VerdictIsOwn` | an intent judged after its window advances the version another intent is polled for (`adjudicator.rs:134`) |
| ToolPipeline | `AskedIsAnnounced` | a candidate whose error was cached is decided inside the gated path, without an ApprovalRequired frame (`runner.rs:5942`) |
| ToolPipeline | `QuestionsAreAsked` | ask_user in a batch of several calls is cached as pending and never reaches the user (`runner.rs:9290`) |
| HttpSession | `TurnUntouched` | WebSocket turns are in no map, so rewind, restore and checkpoint act on a session in the middle of a turn (`agent_api.rs:2958` "活跃轮内拒绝结构性变更") |
| HttpSession | `RegisteredIsLive` | a dropped SSE stream leaves its token in the map; its session answers 409 from then on (`agent_api.rs:2270`) |
| Delegation | `AnchoredAtParent` | a spawned session's runner shares the ledger and may drain the record of another runner's child into its own journal (`runner.rs:4552`) |
| SessionChain | `FailingSessionHalts` | the watch moves into the guard of the first turn and is gone with it: two failing turns in a row never halt the chain (`runner.rs:7717`) |
| EventTrack | `EventKept` | a restarted track numbers from the start and overwrites facts of the same path (`event_ledger.rs:249` "EL 序号续编") |
| EventTrack | `McpRecordsAll` | the /mcp endpoint never begins a turn: once its quota is used up every later call is dropped (`mcp/server.rs:177` "成败皆记口径") |
| Checkpoints | `TopRestorable` | a blob that a call has captured and not yet committed is reclaimed by the commit or undo of another one (`workspace_checkpoint.rs:472`) |
| Checkpoints | `EveryEntryJournalled` | a runner without a journal pushes the entry with no line (`workspace_checkpoint.rs:246`) |
| Checkpoints | `SeqMonotone` | the number of an entry is one more than the top's: after an undo it is given again (`workspace_checkpoint.rs:262`) |
| McpServers | `DisabledStaysOff` | the supervisor waits out its back-off and connects a server that was disabled meanwhile (`bin/evo-agent.rs:3163`) |
| McpServers | `NoSpuriousRestart` | a reap signal of an old process makes the supervisor replace the client a handler has just connected (`mcp_api.rs:381`) |
| Scheduler | `NeverSwallowed` | a look that finds more minutes since the last one than the scan cap drops the rest, with no `missed` line (`schedule.rs:9` "跳过即显式，绝不静默吞") |
| Scheduler | `FiredOnce` | after a restart or a clock set back the same minute fires again (`schedule.rs:8` "同一匹配分钟只发一次") |
| Calendar | `FullWeekFree` | a weekday field written 0-6 counts as restricted, so that the day of month and it are joined by OR (`schedule.rs:121`) |
| TaskRuns | `OnePerLabel` | the check for a running label and the registration are two critical sections (`task_api.rs:104`) |
| TaskRuns | `NothingTwice` | a viewer that replays and subscribes between the push of an event and its broadcast gets it both ways (`tasks/mod.rs:52-59`, `task_api.rs:334-343`) |
| TaskRuns | `StreamsEnd` | a viewer that replays before the end and subscribes after it waits for ever (`task_api.rs:334`) |
| MemoryCache | `SessionReadOwn` | a session read takes the last fact of a query by prefix, which may be another key's (`memory.rs:1696`) |
| MemoryCache | `MarkedNotProposed` | the marker of a key with a part before "events." names no event, which is proposed again (`memory.rs:3214`) [`Nested = {e}`] |

## 9 What is not modelled

Text (prompts, plans, journal fields beyond what links lines), provider protocols,
hashing, the rules of the engine, file system errors of the journal (planned), the
non-streaming twin of the turn loop, the rolling summary and the truncation of the
message history, the observation of the verify step that is added to the vector only,
the DSL mode of the plan loop, a usage batch of the memory that is applied in part before
its error, turns over WebSocket in `HttpSession`'s `StreamInv` (`TurnUntouched` of section 8),
events of a type the runner does not know (they reset the heartbeat and do nothing else), and the components
marked so in 1.3. Time is abstracted to the order of a timer and other steps.

## 10 How to run

`tlc -workers 2 -config PlanRun_safety.cfg MCPlanRun` checks one run, likewise for
every row of `runs`; `tlapm JournalProofs.tla`, likewise the other seven modules
named `*Proofs`, check the proofs (a few minutes each).
