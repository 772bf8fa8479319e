# A TLA+ model of rust-agent-framework

rust-agent-framework (RAF) builds LLM agents and runs graphs of them. This
directory holds TLA+ modules that model its parts, TLC configurations that check
them on small instances, and proofs of the invariants that hold for every graph,
every conversation and every configuration. Paths below are relative to `src/`.

## 1. Inventory

| Part | State it keeps | Operations | What is hard about it |
|---|---|---|---|
| Workflow engine (`crates/workflow/src/engine`) | `step_ctx`, `next_step_ctx`, join handles, `state_map`, `timers`, `execution_log`, halt flags, edge runners with fan-in barriers | one superstep after another, node tasks, routing, halt/resume, compensation | tasks run concurrently with the loop; failures and time-outs detach them; commands arrive at any time |
| Checkpoints (`crates/workflow/src/checkpoint`) | a file per checkpoint, an index file, a counter per session | `create_initial`, `commit`, `load_full_state`, `cleanup` | crash or error between file operations; two writers; chains of increments |
| Graph builder and validation (`builder`, `graph`) | the edge counter, nodes, edges | gateways, `build`, `validate`, `detect_cycles` | edge ids that collide, loopback edges |
| Executors, conditions, scripts (`executor`, `graph/condition.rs`, `crates/rhai`) | flags of waiting nodes, a shared script runtime | `handle`, `evaluate` | flags and scopes that runs share |
| Orchestrations (`orchestrations`) | round counters, selectors, histories | group chat, handoff, magentic, vote, process definitions | loops that may not end; what the graph really does |
| Workflow as an agent (`workflow_agent.rs`, `host/src/bridge/workflow_bridge.rs`) | two streams, a held answer | drains events, then outputs; forwards prompts | bounded channels with a slow or leaving reader |
| Tool-calling loop (`crates/framework/src/decorators/invoke.rs`) | `LoopState`, messages, round, two channels | LLM round, parallel tools, approval pause and resume, cancel | the spawned task and the consumer may part at any time |
| Agent run (`framework/src/agent`, `context/history.rs`, `converter.rs`) | session messages, counts, transcript | `run`, background persistence | overlapping runs of one session |
| ACP host (`crates/host`) | sessions, cancel tokens | prompts, approval loop, cancel, save, load, remove | concurrent prompts of a session |
| Sessions (`framework/src/session`, `core/src/session.rs`) | sessions in memory or in files | save, load, delete, clean-up | the file is written in place |
| Super brain (`framework/src/super_brain`) | turn counter, projection, queue, files | enqueue, work, seed | latest wins |
| Compression (`framework/src/compression`) | the messages of a request | budget, window, pipeline | results without their call |
| File and command tools (`framework/src/tools`) | a directory tree, running commands | write, edit, move, remove, read, run | paths with `..` and missing ends |
| MCP client (`crates/mcp`) | next id, transport, cache of tools | greeting, request/response, enrichment | whoever reads first takes a response; dropped callers |
| Chat streams (`crates/client`, `core/src/incremental_json.rs`, `framework/src/converter.rs`) | line buffer, open blocks, an incremental parser | bytes to lines to events to contents | pieces cut anywhere |
| Declarations (`crates/decl`) | graphs, agents, pinned inputs | compile workflows, build agents | what the compiled graph does |
| Development pipeline (`crates/coding`) | state keys, the user's reply | stages, a reset, a verdict | artifacts handed on while coders run side by side |
| Workflow-pro (`crates/workflow-pro`) | saga steps, process instances, subscriptions, SLA records, agent pool, trail | execute, compensate, publish, check | partial failure |
| Web search and fetching (`crates/websearch`) | last request time, probe cache, worker process | limiter, probes, chain of backends, cleaning | concurrent waiters, stale probes |
| Retrieval (`crates/rag`) | chunks, an index built once | chunk, index, retrieve | offsets and overlaps |
| Wiki (`crates/wiki`) | pages on disk, text index, vector store, graph cache, configuration files, schema files | watch, rebuild, search, graph, ingest, spaces, schemas, lint | several writers, caches, files and memory that must agree |
| core, llama, openapi, sandbox, macros, cli | types, connections | I/O, parsing, formatting | little shared state |

How the parts interact: the host or an application starts an agent run or a
workflow. A workflow run is one tokio task (`WorkflowEngine::execute_loop`) that
spawns one task per active node; an agent node runs the tool loop of the
framework over a chat stream. The loop and its tasks share `state_map`, the timers,
the log and the halt flag; the client talks to the loop through a channel of
`ResumeCommand`s and listens to a broadcast of events and a channel of outputs; after
every superstep the loop awaits `CheckpointManager::commit`, which awaits the store.
An agent run asks its context providers (history, curated memory, retrieved knowledge)
for messages, compresses them, runs the tool loop, and leaves the transcript to
a background task that adds it to the session; the host keeps the session live and
saves it after each prompt. Tools reach files, MCP servers, the web and the wiki.

What makes the parts correct:

* engine: supersteps do not overlap; every task is awaited or the run is over;
  the number of running handlers is bounded; loops are bounded; a halt is noticed,
  saved and answered exactly once; a failure is compensated; a run ends; together:
  it behaves like a machine of atomic rounds (`Supersteps`);
* checkpoints: a recovery yields the state of the last acknowledged save, or of one a timeout cut off,
  whatever crashes or fails; acknowledged checkpoints stay listed; recovery reads
  a bounded chain; together: the store behaves like one register (`SavedState`);
* tool loop: no gated tool runs unapproved; no call runs twice; no call is lost; the
  stream ends, and with a verdict; together: the conversation grows by whole turns
  (`Turns`);
* agent run and host: every question is in the session once and its answer after
  it; what is stored only grows; no token outlives its turn; an approved call runs;
* graphs, built, declared or orchestrated: `build` refuses what is unsound, keeps every
  edge, and a run reaches exactly what it was told to reach;
* streams: what is told does not depend on how the bytes were cut;
* stores and caches (sessions, wiki, probes, knowledge): what was written can be
  read, and what is cached is what a fresh look would give.

## 2. Modules

Core, one module per component with an abstract specification each:

| Module | Models |
|---|---|
| `WorkflowEngine` | `engine.rs`, `edge_runner.rs`, `step_context.rs`, `runtime.rs`, `retry.rs`, `config.rs` |
| `Supersteps` | what the engine promises: rounds that are atomic |
| `WorkflowEngineProofs` | theorems about `WorkflowEngine` |
| `MCWorkflowEngine` | the graphs the runs use |
| `CheckpointStore` | `checkpoint/manager.rs`, `checkpoint/store.rs`, and how `engine.rs` drives them |
| `SavedState` | what the checkpoints promise: an atomic register |
| `CheckpointStoreProofs` | theorems about `CheckpointStore`, which TLC checks as it is |
| `ToolLoop` | `FunctionInvokingChatClient::run` (`framework/src/decorators/invoke.rs`), and how `client/src/anthropic_stream.rs` announces calls |
| `Turns` | what the tool loop promises: a conversation of whole turns |
| `ToolLoopProofs` | theorems about `ToolLoop` |
| `MCToolLoop` | the tools and calls the runs use |

Around the engine, checked through `MCWorkflows` (the name in brackets is the value of
its variable `part`). `WorkflowParts` holds theorems about the channels of a run, group chats, nodes that wait and the
services, each under an instance (`O`, `C`, `N`, `P`), and `MCWorkflowsProofs` carries them and one of `CheckpointStoreProofs`
over to the sum:

| Module | Models |
|---|---|
| `WorkflowOutputs` (outputs) | the bounded output channel and the ring of events between a run and `WorkflowAgent` or the bridge of the host |
| `Orchestrations` (graph) | builder, validation, cycle detection; the graphs of sequential, concurrent, handoff, magentic, vote and process definitions; and their run |
| `GroupChat` (chat) | the rounds of `group_chat.rs`: selectors, terminations, chats that share a counter |
| `NodeHandlers` (node) | human tasks, prompts, boundary timers, cron triggers, signal catches: executors with a flag that all runs share |
| `Scripts` (script) | script nodes over a shared runtime, and the two evaluators of conditions |
| `DeclWorkflow` (actions) | the compiler from declared actions to a graph, and the run of that graph |
| `DeclAgents` (agents) | agents built from declarations: connections, inherited tools and context, orchestration kinds, wrappers that pin or chain inputs |
| `DevPipeline` (phases) | the development pipeline of `crates/coding` |
| `WorkflowPro` (pro) | saga, process instances, broker, SLA, agent pool, audit trail |
| `CheckpointStore` (overlap) | the store again, with clean-ups that overlap commits |

Within and beside an agent, checked through `MCAgents`. `AgentTurnProofs` holds theorems about the turns; `AgentParts` about
the MCP client, which it extends, and, under an instance each, the sessions (`D`), the spaces (`S`) and the index (`I`) of
the wiki, the curator (`B`) and the web search (`X`). `MCAgentsProofs` carries these over to the sum:

| Module | Models |
|---|---|
| `AgentTurn` (turns) | prompts of the host, runs of the agent, the transcript, the background task, the session and its store |
| `McpClient` (mcp) | several callers over one transport |
| `Sessions` (store) | memory and file stores, scoped wrapper, clean-up, crash |
| `FileTools` (tools) | path resolution, the tools that change the tree, paged reads, commands |
| `WebSearch` (web), `WebFetch` (fetch) | rate limiter, probes, backends, result pages; worker process, cleaning, second opinion |
| `SuperBrain` (brain), `Compression` (budget), `Rag` (know) | the curator's queue; folding of requests; chunkers and the index of knowledge |
| `ChatStream` (answer), `StreamedArguments` (args) | bytes to contents; the incremental parser of arguments |
| `WikiIndex` (index) | watcher, rebuilds, reader, graph cache |
| `WikiSpaces` (spaces), `WikiSchemas` (types) | registration and configuration; types and their files |
| `WikiPages` (pages), `WikiKnowledge` (facts) | pages, sections, gate, ingest; memory tiers, ageing, conflicts |
| `WikiGraph` (links), `WikiSearch` (search), `WikiLint` (lint) | graphs, clusters, suggestions; searches, lists, chunks, export; rules |

`WorkflowEngine` sees its checkpoints as an atomic register that may refuse a
write (`saved`, `SaveCheckpoint`), and of its messages keeps what `message_envelope.rs` does; `CheckpointStore` shows that the files and the
index implement such a register (`ImplementsRegister`). `Orchestrations`,
`DeclWorkflow`, `DeclAgents` and `DevPipeline` give the graphs that the engine runs; their own
run of a graph is a superstep at a time, which `ImplementsSupersteps` justifies.
`AgentTurn` takes a run of the tool loop as one answer of the model, which may end in a
pause; what happens inside is `ToolLoop`.

`MCWorkflows` and `MCAgents` are sums: `part` says which component a behaviour is
of and never changes, `v1`, `v2` and so on are that component's variables, and each component
is an `INSTANCE` with its constants and variables substituted. So every component
is checked on its own, with its own bounds, by one run; an invariant of the sum
that names several parts holds if it holds of each. A component with theorems is instantiated through the module that
proves them, hence names like `W!O!NothingLost` and `M!D!SessionsKept`, and its constants are constants of the sum; what
the theorems assume of these (`CheckpointConstants`, `PartConstants`) is an `ASSUME` of `MCWorkflows`, which TLC evaluates.

### WorkflowEngine

The variable `pc` is where `execute_loop` is: at the top of the loop (halt,
timers, end), spawning, joining, compensating, or ended. One action is the code
between two awaits or two effects other actors can see:

| Action | Code (engine.rs) |
|---|---|
| `AnnounceHalt`, `StopHalted`, `Resume` | the halt block at the top of the loop, 277-337 |
| `BeginStep` | `fire_due_timers`, the test for an empty context, 339-362 |
| `SkipUnknown`, `SkipLoop`, `Spawn`, `SpawnDone` | the loop over the active nodes, 364-478 |
| `TaskStart` | the permit and `NodeInvoking`, 430-436 |
| `HandlerOk`, `HandlerRetry`, `HandlerExhausted`, `TaskPanic` | `execute_node_messages`, 584-782 |
| `RequestHalt`, `ScheduleTimer` | calls of a handler to its context, 979-1009 |
| `RouteMessage`, `ChaseEdge`, `ChaseFanIn` | routing of the results, 481-503, and the runners of `edge_runner.rs` |
| `JoinOk`, `JoinErr` | the end of a handle, 478-537 |
| `Compensate`, `Fail` | `run_compensations`, 819-849 and 539-545 |
| `StepDone` | 547-564 |
| `TimeoutRun` | `tokio::time::timeout` around the loop, 166-186 |
| `ClientResume`, `ClientDrop` | `WorkflowRuntime`, runtime.rs 74-91 |

Abstractions. The engine never reads a message, so a queue is the number of its
messages and an edge condition is a free choice (`guarded`). A handler is
external code: what it returns, whether it fails, halts or arms a timer is chosen
freely within `Emits`, `MayFail`, `MayHalt`, `MayArm`. `HashMap` iteration order
is a free choice: nodes are spawned and runners are asked in any order. Delays
(retry back-off, timers, time-outs) have no length: a timer may be due at any
time, the global timeout may strike at any time. Events, progress chunks and
outputs are left out. The loop counter is an ordinary key of `state_map`, which no handler is taken to
write. The history variables (`frontier`, `dirty`, `runs`,
`emitted`, `fellBack`) are read by properties only.

### CheckpointStore

One session. The engine saves (`StartRun`, `BeginCommit`, `FindParent`,
`WriteFile`) and a caller cleans up (`BeginCleanup`, `SkipMissing`, `RemoveFile`,
`CleanupDone`); both replace the index by `LoadIndex`, `OpenTmp`, `FillTmp` and a
rename. `fs::write` is an open that truncates and a write through the open file:
when two actors write `index.json.tmp`, a write goes to the inode the actor has
open, which a rename of the other may have turned into the index, or unlinked
(`out`, `Moved`), and two contents in one inode may be torn (`Written`). An
operation fails when its file is missing or torn, and anywhere with `MayFail`. A
crash keeps the disk and loses counters and operations. `Recovered` is
`load_full_state`: the latest entry by step number, and its keys overlaid on those
of its ancestors up to a full snapshot. Only process crashes are modelled: what
the kernel has been told to write is on the disk. A timeout drops the commit (`TimeoutRun`) but
not the file operation it awaits, which `tokio::fs` has given to a thread: `left` is where that was, and it
may still complete (`LeftLands` when it is the rename of the index) or come to nothing (`LeftFades`).
`unacked` records what was dropped so. The next run, and without `Concurrent` the next cleanup, waits for it;
one that does not overlaps it as a cleanup overlaps a save (section 4).

### ToolLoop

`run` returns an `unfold` that advances when its consumer polls it; each round spawns a
worker task that reads the model's stream, runs the tools and reports through a bounded
channel (`tx`), while the messages of the round travel through a second one (`box`).
`phase` is the state of the unfold, `worker` where the task is.

| Action | Code (invoke.rs) |
|---|---|
| `StopCancelled`, `StopAtLimit` | the top of `Looping`, 281-291 and 387-398 |
| `BeginResume`, `ResumeCall`, `ResumeDone` | the resume after an approval, 293-385, one await per call |
| `ConsultFails`, `StartRound` | `inner.run` and the spawn, 400-462 |
| `PollUpdate`, `PollToolCalls`, `PollEnd` | `Streaming`, 231-273 and 829-868 |
| `Announce`, `CallArgs`, `CallEnd`, `BlockDelta` | the updates of the model's stream, 466-523 |
| `StreamFails`, `PreviewPanics`, `FinishStop`, `AskApproval`, `RunTools` | the end of the stream, 549-780 |
| `RequestApproval`, `HandOver`, `Pause` | the approval gate, 599-664 |
| `ToolReturns`, `ToolPanics`, `ToolsDone`, `ReportResult`, `FinishTools` | the tools and their results, 666-827 |
| `Cancel`, `DropStream` | the caller: `options.cancelled`, dropping the stream |

The client of the model announces calls in one of three ways (`style`, fixed for a run):
`ToolCallStart`, `ToolCallArgs` and `ToolCallEnd` ("lifecycle"); `ToolCallDelta` alone
("delta", the OpenAI transport); or `ToolCallStart` and then `ToolCallDelta` at the index of the
content block ("both", the Anthropic client). An announced call need not be completed:
the stream may end or fail anywhere.

Abstractions. Texts, arguments and results are left out; an argument string is empty or
not (`args`), and whether it parses and fits the schema is a free choice, as are the
order in which tools return and the model's calls. The second and later text chunks and argument chunks of a call,
which change nothing the properties read, are left out. Call ids are never reused by the
model. A conversation is its messages with calls and their answers. A tool that panics during a
resume unwinds through its consumer, which leaves what dropping the stream leaves.
`granted`, `executed`, `requested`, `reported`, `verdict`, `crossed` and `panicked` are read by properties only.

### The parts around the engine

`WorkflowOutputs`. The engine is the sequence of what it emits: events into a ring
that drops the oldest, outputs into a channel it awaits (`EngineStep`). `AgentStep` is
the task of `WorkflowAgent`, which drains the events, then the outputs, and
sends results to a consumer (`ConsumerReads`, `ConsumerLeaves`); `BridgeStep` is the
host, which reads events only, holds a halt and answers it with the next prompt
(`CancelPrompt`).

`Orchestrations`. A pattern is a sequence of builder calls; `Call` performs one with the id
the builder gives it (`workflow_builder.rs`), `CallFree` any call on a few
nodes, so that all small graphs occur; `BuildOk` and `BuildRejected` are `build` with `validate`
and `detect_cycles`; `Superstep` runs the graph, with what agents answer as a free choice.

`GroupChat`, `NodeHandlers`. One action per await: a chat selects (`SelectNext`), hears chunks
(`Chunk`) and stops; a waiting node reads its flag (`ReadFlag`), lets a message through
or waits, and notes that it waits (`NoteWaiting`) after the halt. Several runs share
the counter of the selector and the flag of the node. `Abandon` ends the loop of a run, by a timeout or by its
owner; a task that holds messages goes on without it (`detached`).

`Scripts`. `Node` is one call of a script node: context keys are read one by one, the script
runs under the lock, and what it set is written afterwards; calls fail or are dropped between
any two. `Evaluate` is the evaluation of a condition, with the script engine and without.

`DeclWorkflow`, `DeclAgents`, `DevPipeline`. `Compile` and `Build` are functions of the
declaration, so they are operators; the run of the result is a superstep (`Superstep`), a run of a
sequence of wrapped agents (`Ask`, `Begin`, `Done`), or the stages of the pipeline with their
keys (`Collect`, `Work`, `Silent`, `Breaks`, `Keep`, `KeepFails`, `Ask`, `Reply`, `Reset`) and the verdict of
its gateway (`Judge`). The edge that joins the coders never opens (finding 1), so the merger, the later
rounds and what they do to the working tree are left out: no run comes to them.

`WorkflowPro`. `unit` is the service a behaviour is about; a saga goes step by step (`Saga`), the
others are one critical section per call.

### The parts of and beside an agent

`AgentTurn`. `Prompt` is the handler up to the spawn, with the token it registers; `TurnStep` is
the spawned turn: runs of the agent, the question of the approval loop, save and clear; `TailStep` is the
background task of a run, in the steps in which it locks the history, counts it and touches the metadata;
`Cancel` and `RemoveSession` are the other requests. Neither the save at the end of a turn nor the re-run after an
approval waits for the background task. `calm` chooses a client that sends a prompt only when the last one is
answered and its messages kept; `torn` records that a session was loaded from a save that a task was writing under.

`Sessions`. A disk save is `BeginWrite` (truncate) and `EndWrite`; a load reads
and later inserts; the clean-up gathers (`Scan`) and removes. `McpClient`. `Send`, `Take`,
`Closed`, `Cancel` of several callers, and an external server that answers, notifies or dies; `solo` records the requests
sent when nothing was owed and not joined by another.

`FileTools`. One action per tool over a tree of directories and files; resolution, paging and
truncation are operators. There may be one link in the tree: into the workspace, out of it, or to a place that does not
exist yet. `strays` are the files outside that commands wrote. `WebSearch`: each search is `Begin`, `Wake` (after the limiter's sleep), `Choose`,
`Probed`, `Try`; reading a page of results is the operator `Parse`. `WebFetch`: the worker
process, its end, crash or time-out, and the scraper's second opinion; cleaning is an operator.

`SuperBrain`: turns of several sessions enqueue, the worker takes the newest job and writes.
`Compression`: `Apply` is one strategy of the pipeline. `Rag`: `Window` and
`Paragraph` cut one chunk, `Provider` is the index cell that the first asker fills.

`ChatStream`: `Arrive` brings any piece of the bytes (in half-lines), `TakeLine` parses a line
and yields updates, `Give` and `Ends` are what the converter hands over, `Breaks` and `Close` end
the connection; usage is merged field by field, and Anthropic's error event cuts the answer off. `StreamedArguments`: `Piece` feeds a piece of any size to
the incremental parser, whose states are those of the code.

`WikiIndex`: edits reach the disk and the watcher's channel; `Collect` and
`ActOnBatch` are the watcher; a rebuild is `Walk`, `Commit`, `Reload`, `Bump`, `WriteState` of one of two actors, the watcher
and a request; pages may name no type;
a request takes a graph from the cache or builds and stores it (`Ask`, `Look`, `Store`); crashes and
mounts. `WikiSpaces`: every operation on the configuration file is a load and a later save, and
then a change of the engine. `WikiPages`: calls that change files, and an ingest that reads, redacts and writes page by
page. `WikiKnowledge`, `WikiSchemas`, `WikiSearch`, `WikiGraph`, `WikiLint`: one action per call, loops of a clean-up,
an embedding task, a breadth-first search and a clustering pass one turn at a time.

Abstractions common to them: texts are members of small sets, scores and weights small
numbers, iteration over `HashMap`s a free choice, HTTP, the search engine's tokenizer, embeddings and
models external: what they answer is a free choice.

## 3. Runs

`MCWorkflowEngine` (graphs of at most four nodes):

| Run | Question | Result |
|---|---|---|
| `diamond` | Do parallel nodes that fail, retry, skip, fall back and panic, under one permit, a timeout and a failing store, keep rounds apart? Does a failure undo all earlier rounds? Is every run a run of `Supersteps`? | `TypeOK`, `TasksAccounted`, `LockStep`, `RetriesStartOver`, `EarlierStepsUndone`, `ImplementsSupersteps` hold |
| `loop` | Do a loopback edge, timers and a limit end the loop? Does the run end? | `LoopBounded`, `Terminates` hold |
| `hitl` | Are halts of several nodes announced and answered once, and does the checkpoint name what waits? | `HaltIsSaved`, `OneAnswerPerHalt`, `HaltNoticed` hold |
| `join` | Does a fan-in edge fire once all sources have arrived? | violated: a finding |
| `fallback` | Does the fallback node run? | violated: a finding |
| `rollback` | Is a failure compensated with parallel nodes? | violated: a finding |

`CheckpointStore` (four checkpoints, three supersteps, one key):

| Run | Question | Result |
|---|---|---|
| `recovery` | With halts, cleanups between commits, a failure of any file operation, a timeout and a crash anywhere: is the store an atomic register? | `TypeOK`, `AckedAreListed`, `ChainBounded`, `RecoversNewest`, `ImplementsRegister` hold |
| `cleared` | Is a state with a cleared key recovered exactly? | violated: a finding |

`MCToolLoop` (three calls, a channel of one, two rounds):

| Run | Question | Result |
|---|---|---|
| `tools` | Whatever the model, its client, the tools, the approvals, the cancel flag and a consumer that goes away do, in a fresh or a resumed conversation: does the gate hold, does no call run twice or get lost, does everything end, and does the conversation grow by whole turns? | `TypeOK`, `GateHolds`, `AtMostOnce`, `NoCallLost`, `EndsWithVerdict`, `ApprovedRun`, `ImplementsTurns`, `Terminates` hold |

`MCWorkflows`:

| Run | Question | Result |
|---|---|---|
| `around` | Do the parts around the engine keep their rules? | all hold: |
| | `LatestLoads`: the latest listed checkpoint can be loaded when clean-ups that do not fail overlap commits (overlap) | |
| | `NothingLost`, `RunEnds`: the consumer of a workflow learns all outputs in order, and run and reader end or stand in exactly one wait, the run for room in the channel of outputs and the reader for an event of the run (outputs) | |
| | `GraphsAsBuilt`: `build` refuses exactly dangling ends and cycles, no edge is lost, a run is the superstep machine over what `build` accepts (graph); declared actions give sound graphs whose run is in order where nothing branches (actions); everyone declared takes part once, settings reach all, wrapped inputs are what they should be (agents); an agent of the pipeline gets every artifact made before it and nothing before the user replied, what is kept lasts, a verdict is found (phases); what a script node hears, reads and writes through its context stays its run's, conditions mean what they say (script) | |
| | `ChatKeepsRules`: rounds are assistants heard, turns are shared fairly, a keyword is the last word (chat) | |
| | `NodesWait`: a waiting node lets no more of a run through than all runs have asked for, and of runs that follow each other and are answered only what they asked for themselves; a cron trigger is bounded over all runs (node) | |
| | `ServicesKeepRules`: a failed saga has undone its completed steps, latest first; ended processes stay, breaches are told once, the pool is used in order, receivers get a topic from its beginning in order, the trail holds the newest (pro) | |

`MCAgents`, whose `Parts` are all of them in `beside` and the turns in `resumed`:

| Run | Question | Result |
|---|---|---|
| `beside` | Do the parts of and beside an agent keep theirs? | all hold: |
| | `TokenOwned`, `Conversation`, `TurnsStay`: no cancel token outlives its turn; for a client that waits, questions are in the session once and answers follow them; for every client the stored messages only grow (turns) | |
| | `McpKeepsRules`: a response ends one request and a request takes one response, its own when nothing was owed as it was sent and nobody joined it; while the server lives as many responses are ahead as callers wait (mcp) | |
| | `SessionsKept`: a complete copy is what its save was given; a clean-up deletes what has expired (store) | |
| | `MessagesKept`: texts, calls, arguments and usage are told once and whole however the bytes are cut (answer, args); a compressed request fits, keeps its order and has no orphaned result (budget); chunks cover the text, the index of knowledge is whole (know) | |
| | `SharedStateKept`: a quiet index shows every page that no event was lost for, a graph cached by a request of this generation is that of the reader (index); the file of spaces is sound and the engine follows it (spaces); a session is consolidated to its end unless its newest job was dropped for another session's or lost in a restart, the counter returns, results follow their calls, what the curator wrote survives starts (brain); searches keep their distance to what they saw and to their own last request, and believe fresh probes of the instance they use (web) | |
| | `ToolsKept`: the tree stays sound and the outside untouched but for commands and one write through a dangling link, paged reads show each line once (tools); results are told once (web); cleaning loses no text, cuts are told, no worker is left (fetch) | |
| | `WikiKeepsRules`: after a mount the index is what a full rebuild would make, but for pages without a type (types); a slug reads what was written or what an ingest had read, an ingest leaves no secret (pages); observations are kept once, only pages that had faded when the clean-up looked are archived, authority decides (facts); links resolve, searches are exact, clusters are connected (links); no better page is left out, no chunk is lost unless two tasks index its page at once, fusion is fair (search); no link is forgotten, reports do not depend on order (lint) | |
| `resumed` | Does a turn that is run again after an approval execute the approved calls? | `ApprovedCallRuns` violated: a finding |

### Bounds

* `MaxArmed`, `MaxCommands`: timers and commands of a run. Two commands are enough
  for a stale one to meet a later halt; one timer per loop run re-activates a node
  outside its edge.
* Graphs: a diamond has two siblings and a join, the smallest graph in which one
  task fails while another runs; the loop graph has an entry, a body, a loopback and an
  exit; fallback nodes, skips and guarded edges are on separate nodes so that each
  meets the others.
* `MaxRetries` of one separates the first attempt from the last; `MaxParallel` of one
  is the limit that can deadlock.
* `MaxId = 4`, `Interval = 2`: an initial snapshot, two increments and the full
  snapshot that ends the chain. `MaxCheckpoints = 2` makes cleanups delete
  from the second commit on. One crash and one run suffice to hit every point between two file
  operations. With two runs on a session (`MaxRuns = 2`) `RecoversNewest` does not hold, nor, when
  cleanups overlap, `AckedAreListed`: see section 4. One key, two values: an old and a new one. With
  overlapping cleanups (`around`) five checkpoints, one key, one value, and `MayFail` off: a cleanup that
  fails there breaks `LatestLoads` from five checkpoints on (section 4).
* `Ids`: a free, a gated and an injected tool, one call each, so that a response may hold
  any mixture of them; `MaxRounds = 2` lets one round follow another or a resume;
  `Capacity = 1` makes the worker wait at every second send. `Pending`: resumes of one call, of two
  with a free or an injected one among them, and of a call that is listed twice. `TextBlocks = 0`: no text comes
  before the calls; a text block would shift the index of a call against its slot, for which there are the proofs.
* `WorkflowOutputs`: channels of two, so that a run of three nodes overflows the ring, and up to three outputs, one
  more than the channel holds. `Orchestrations`: two agents and, call by
  call, three nodes with two edge calls, which has every cycle of up to two edges and two
  gateways at one node. `GroupChat`, `NodeHandlers`, `Scripts`: two runs that share; a waiting node asks up to two times
  (`MaxAsks`) and a cron trigger stops at the second tick (`MaxCron`).
* `AgentTurn`: two prompts, which are interchangeable (symmetry), and two session objects; two runs of the agent in a turn where
  turns wait for each other (`MaxRuns`), one where they overlap (`MaxBusy`). `McpClient`, `WebSearch`: two interchangeable
  callers, of four requests, and two searchers, of three searches; a server notifies only on an empty line. `Sessions`:
  a clock that reaches past each limit.
  A probe is good for `Ttl = 3` and takes `ProbeTime = 1`, for the code's 30 s and 3 s: two probes take less than the life of one.
* `ChatStream`, `StreamedArguments`: pieces of up to `MaxPiece` half-lines or characters and
  documents with strings, escapes and nested values cut at every point.
* `WikiIndex`: one page under two kinds, a queue of one event for the channel of 256, one crash, two edits, and
  rebuilds by request in the first generation, where they meet those of the watcher. The
  other wiki modules: two to five pages, chosen so that each filter divides them. `WikiSpaces`: two operations, or one and a
  setting, by two clients.

Some properties hold only where the code's surroundings help. Then the model has both surroundings, chosen at the
start, and everything else the module says is checked in both: `calm` (AgentTurn), a client that sends a
prompt when the last one is answered and kept; `careful` (Sessions), no save, load and clean-up overlap and nothing
crashes within a write; `careful` (NodeHandlers), runs follow each other and answer, which only the second part of
`NodesWait` asks for; `alone` (WikiSpaces), one client at a time; `Plain` (StreamedArguments), no brackets in strings
of nested values; `Narrow` (Rag), one byte per character.

Elsewhere nothing is excluded beforehand. A history variable records each time the code goes wrong in a way that was
found, and the property excepts just that: `crossed` and `panicked` (ToolLoop), `unacked` (CheckpointStore), `torn`
(AgentTurn), `solo` (McpClient), `strays` (FileTools), `missed` and `born` (WikiIndex), `undone` and `twice`
(WikiPages), `revived` (WikiKnowledge), `crossed` (WikiSearch), `dropped` (SuperBrain, WikiSchemas), `whole`
(WikiSchemas), `alone` of a run (DeclAgents). Section 4 says what each of them stands for.

### Fairness

`FairSpec` of the engine has weak fairness of the loop, of the start of each task and of
`HandlerOk`: tokio polls every runnable task, and a handler is taken to return some
time. With one permit the start of a waiting task is disabled while another holds
it, and weak fairness is still enough because tokio's semaphore is a queue and a
permit that comes back is taken only once per task and step. Nothing else is
fair: handlers need not fail, clients need not answer, timers need not be due.
`HaltNoticed` and the engine's `Terminates` are checked under it. Safety properties and the
refinements need no fairness. Checkpoint operations have none.

`FairSpec` of `ToolLoop` has weak fairness of the loop, whose consumer polls a stream it
holds, and of the worker, which tokio runs and whose awaits end: model streams are
finite, tools return. Nobody needs to cancel, drop, fail or panic.

`RunEnds` assumes weak fairness of the engine's task, the agent's task, the bridge's task and of a consumer
that has not left; leaving, cancelling and answering are not fair.

Deadlock is checked for the engine: a run that has ended and has no live task stutters by
`Done`, and a run that waits for a human may be dropped by its client. So it is for the tool
loop. It is switched off for `CheckpointStore`, where the bounds on ids and
steps stop the run, and for the two sums, most of whose parts stop at a bound or when their question is answered.

## 4. Findings

Where a document or comment promises something the code does not do, a run shows
it (`expect: violation`):

1. `join`: a fan-in edge never fires with two or more sources. `WorkflowEngine::new`
   makes one runner per source (engine.rs:54).
2. `fallback`: `FallbackNode(f)` routes the error over the edges that leave `f`
   and does not run `f` (engine.rs:659).
3. `rollback`: siblings of a failed node are detached, and act after their
   compensation (engine.rs:518).
4. `cleared`: a key removed by `clear_state` is recovered with its old value
   (manager.rs:171).
5. `resumed`: the transcript of a run that pauses for an approval holds no message with
   calls, because `finalize` makes one only for the other finish reasons
   (converter.rs:418), so the run that resumes executes nothing; README.md:373 and
   run_options.rs:38 say that the session already holds that message.

Seen while modelling, without a run:

Engine, checkpoints, tool loop

* pending timers do not keep a run alive (engine.rs:348);
* a checkpoint holds the envelopes of the queued messages but not their bodies: `serialize_content` knows the tags
  `ChatMessage`, `Vec<ChatMessage>` and `String` (message_envelope.rs:43), while the loop tags what it routes with the
  name of `dyn Any` (engine.rs:482) and the rest `initial`, `resume` and `timer`, so a type name is written in place of each body, and
  `from_serialized` (step_context.rs:66), which is to rebuild the queues, would deliver that; fan-in barriers are saved as counts, timers not
  at all. This is why `HaltIsSaved` speaks of the number of messages;
* the global timeout does not stop the file operation of the commit it drops (store.rs:199): the
  index of a save that never returned may still be renamed into place, also during the next run or cleanup;
* the latest checkpoint is the one with the highest step number, and a second
  run on a session starts again at 0 (manager.rs:150); nothing in the engine reads a
  checkpoint back, although docs/11-multi-agent/checkpoints.md:190 says it does so on its own;
* writers of an index share one temporary file and no lock (store.rs:199), so that an
  acknowledged checkpoint need not be listed when a cleanup overlaps a commit;
* for the same reason the index may come to name a latest checkpoint whose file is gone: a cleanup that fails, or whose
  caller drops it, between writing `index.json.tmp` and renaming it leaves an index from before
  the commits that go on meanwhile; a commit that has renamed its own file away, and whose successor is about
  to rename, may bring it back after a second cleanup has deleted the file of its latest entry.
  `LatestLoads` fails with `MayFail` and `Concurrent`, and holds, by proof, with either alone (section 5);
* `cleanup` keeps the first of two checkpoints with one step number, because its sort is
  stable (manager.rs:214), and `load_full_state` takes the last, by `max_by_key` (manager.rs:150). A halt and the
  step that resumes it have one number; so with `max_checkpoints = 1` a cleanup deletes
  the latest checkpoint, although its comment (manager.rs:206) says that the most recent ones are kept. With
  several runs on a session more than two entries can share a number. This is why
  the theorems of section 5 have `MaxCheckpoints >= 2` and `MaxRuns <= 1`;
* with the Anthropic client a call is collected twice, once from its `ToolCallStart`
  and once from its `ToolCallDelta`s, and a call without arguments between two with
  arguments is overwritten and lost (invoke.rs:523). A pause then lists a call twice and the
  resume runs it twice, which is why `AtMostOnce` and `NoCallLost` are stated for clients
  that keep to one way;
* an end event with the id of another call takes the current call and drops it (invoke.rs:503): the call
  was announced to the consumer and is neither run nor answered. `NoCallLost` excepts these calls, and no
  others (`crossed`); arguments with another id are ignored (invoke.rs:492), so that the call is answered with an error;
* the preview of a call left without an end is cut at byte 200 of its arguments (invoke.rs:570): within a character
  that panics the worker, and the stream ends without a reason, as it does when a tool panics (`panicked`);
* an approved call of a gated tool that a context provider injects is answered with "Tool
  not found" (invoke.rs:333 against :420), although README.md:373 has approved calls executed: `ApprovedRun` says
  that each approved call is answered, and that it runs if its tool is a registered one.

Around the engine

* outputs beyond the channel's capacity block the run while `WorkflowAgent` drains events
  first, and the bridge of the host never drains outputs; no timeout ends that wait by default (config.rs:17 of
  `crates/workflow/src`), so `RunEnds` names it (`OutputsWait`); outputs that are no `ChatMessage` are dropped
  (workflow_agent.rs:240); an answer is injected into the last
  node that was heard, not into the one that halted (host/src/bridge/workflow_bridge.rs);
* patterns that join two or more agents never complete (finding 1); `exclusive_gateway` may
  take several of its edges, and two gateways of one kind at one node lose edges; the conditions of
  process definitions are never true; the end of a parallel process runs twice; silent
  participants let a group chat go on forever; voting rounds and the limits of magentic are read by no code;
* human tasks, prompts and triggers keep their flag in the executor, which all runs of the workflow
  share: a run may go past a human task with the message that another run was to wait for
  (human_task.rs:12, host/src/handler/workflow_prompt.rs:45), and so may the next run after one that was dropped with its
  flag set. The catch of a signal lets nothing through, whatever it is sent, though boundary_event.rs:105 says that it
  continues after the event. A cron trigger passes one message less than its maximum, which
  docs/12-process-engine/advanced-gateways-events.md:96 says it reaches;
* a script's variables stay in the scope of the runtime and show in later runs, and two nodes of
  a superstep may lose an update, because the context is read before the lock and written
  after it; without the script engine, which is the default, a condition with a quoted text
  never matches and `a > 1 && b < 2` is false;
* declared workflows: the edge of a sequence goes to the last node of the next child, so an `If`
  in a sequence is bypassed (against ir.rs:18); an edge condition on a variable has no reader of
  state, so only defaults are taken; `SetVariable` sends nothing, so the workflow stops there; `Foreach` never
  reads its source; a `Goto` never jumps; a function node accepts text only and fails after an agent;
* declared agents: sub-agents are kept in a `HashMap`, so the order of a sequence is arbitrary;
  three of the orchestration kinds never get the root agent; `passOutput: false` pins the
  first output of each wrapper, of the second the output of the first, for good
  (against agent_wrappers.rs:14); a chained history is shared by all sessions;
* the development pipeline ends after coding without output (finding 1); the reply at the
  confirmation is dropped; the reset restores the whole working tree before the first round as well; were the join
  to open, the feedback of a review would be erased before the planner reads it, and untracked files of earlier rounds
  would stay; prose with braces before the verdict makes it unreadable;
* saga: a compensation that fails is only logged; the diagram of saga-compensation.md:15 compensates the step
  that failed as well, where saga.rs:10 and the code compensate the completed ones only. A subscriber of the broker
  gets the messages that were there when it subscribed and no later ones, and `recv` returns at once when there are none,
  though broker.rs:20 and :42 promise later ones and a wait; `check_all` of the SLA tracker overwrites
  `Met`; a degraded agent never recovers.

Agent runs and what is beside them

* the save at the end of a turn comes right after its stream is dropped (host/src/handler/prompt.rs:314), while the background
  task starts only then to keep the turn's messages (framework/src/decorators/post_invoke.rs:33): what is
  saved normally misses the turn, and a restart forgets it; where the save falls into the task's work, it may store an
  empty history or a count that does not fit it (core/src/session.rs:302). For the same reason a turn that is run
  again after an approval (prompt.rs:308) may find its own messages missing, and keep its question twice or not at all. This is why
  `Conversation` is stated for `Smooth` turns;
* overlapping prompts of a session: questions and answers interleave (core/src/session.rs:302, 373), a turn removes
  the cancel token of a later one with its own (prompt.rs:322), and the host's approval loop answers the newest question;
* MCP: responses are read from a shared transport and taken whatever their id, though the comment at
  mcp/src/client.rs:128 has the loop go on until the matching one: a caller may take the answer of another, and
  after a request that was dropped every later one takes the answer of the one before; a failed discovery is cached as
  an empty list of tools;
* sessions: a file is written in place, so a crash leaves it torn; the scoped wrapper saves under
  an unscoped id; a clean-up may delete what was saved since it looked;
* commands run in any directory: an absolute `working_dir`, or one with `..`, that `resolve_safe` refuses is only
  labelled "none" (run_command.rs:148); a file is written through a link that points to nothing yet, outside the
  workspace too, because only the directory of a missing path is resolved (path_guard.rs:94); an excerpt that is cut at byte
  2000 inside a character panics (read_file.rs:97); a command that timed out keeps running; `move_file` makes parent
  directories before it fails;
* the curator's queue keeps one job for all sessions, so that a job drops that of another session (worker.rs:111), which is
  consolidated only at its next projected turn; AGENT.md:318 of its default template says that requests of the same session are
  merged; a sliding window may cut a
  call from its results;
* streams: a last line without a newline is lost; `data:` without a blank is ignored; a call
  without arguments is never told as `ToolCalling`; brackets inside strings of nested values
  end them early in the incremental parser, escapes in keys are kept, and the first of two equal keys wins;
* web search: as many searches as there are tasks may pass the limiter together, because the lock that the comment at
  rate_limiter.rs:24 relies on is released before the sleep; a probe is cached by kind, not by
  instance or proxy, and an unreachable verdict ends searches without a try; the shared configuration is
  set once per process; an instant answer may exceed `max_results`. Fetching: a timed-out worker
  is never killed; pages are cut by characters though the limit is in bytes; the scraper's
  page is neither cleaned nor cut; cleaning drops headings right beside text;
* retrieval: windows are cut at byte offsets, so a multi-byte character panics; an overlap above
  three quarters of the size may never advance; the index is built once and never refreshed; the threshold is
  applied after the best `k` were taken.

Wiki

* a request that spans a reload builds its graph from the old index and caches it under the new generation (`born`);
  changed pages are swallowed when a schema event shares their batch, and a page that is edited after the walk of a
  rebuild, and whose own batch finds the writer busy (watch.rs:131), stays stale until the next rebuild (`missed`);
* a page that names no type is indexed as "page" but without the term by which a partial rebuild deletes
  (index_manager.rs:463, 530), so that its old document stays beside the new one;
* `mount_wiki` does not add the wiki to the engine's configuration, so a later write does not
  reach it (wiki README.md:524); two `config set`s at once lose one;
* a promotion with lower confidence overwrites a fact of higher; a clean-up archives by what it read
  at its start; authority decays twice;
* deleting a flat page uncovers a section stub of that name, deleting a section deletes its pages; an
  ingest writes back over a concurrent write, redacts in a dry run too, and stops at its first
  invalid page in strict mode with the rest unredacted;
* Louvain moves a page that bridges two clusters back and forth until the pass limit, because gains are compared with
  zero and not with staying; the limit in the documents is `n * 10`, in the code `max(n, 10) * 10`; in a filtered
  graph a link to a page that the filter drops shows as external; a cross-wiki graph
  applies its root per wiki;
* removing a type deletes a file that another type names, so the next mount falls back to the
  built-in types; all documents of the type leave the index, but only the first list page of twenty leaves the disk, and the others come back with the
  next full rebuild; `schema_add` copies over an existing file before it checks, which may break the space as well; a type
  that is renamed to one with the same schema goes unseen by the hash of the schemas;
* hybrid search gives places among the best to pages found by links and drops them
  afterwards (hybrid.rs:198); vector hits ignore the type filter; two concurrent indexings of a page leave chunks
  that nothing removes; a page whose embedding fails is not indexed;
* the lint rules: a page linked only by its full address is an orphan, one linked by itself is not;
  asking for broken cross-wiki links reports all broken links (lint.rs:100).

## 5. Proofs

`WorkflowEngineProofs` proves, for every graph, configuration and bound that
satisfies `GraphAssumption` and `ConfigAssumption`:

| Theorem | Property |
|---|---|
| `TypeCorrect` | `Spec => []TypeOK` |
| `StepsAreLocked` | `Spec => []LockStep` |
| `TasksAreAccounted` | `Spec => []TasksAccounted` |
| `LoopsAreBounded` | `Spec => []LoopBounded` |
| `HaltsAreSaved` | `Spec => []HaltIsSaved` |
| `AnswersMatchHalts` | `Spec => []OneAnswerPerHalt` |

The argument is four inductive invariants, one on top of the other:

* `TypeInv` adds to `TypeOK` that a running task has a message of its batch left
  (`BatchPending`) and that an active target has mail (`MailWaits`): without them
  `left` could fall below zero.
* `LockInv` says that in the spawn and join phases each live task is one of the
  handles (`TasksAwaited`), that handles exist only in these phases
  (`HandlesAwaited`), and that a completed run is settled (`OverIsSettled`). `LockStep`
  alone is not inductive: at the end of a superstep it is the empty list of handles that
  shows that no task is alive.
* `PermitsRespected` is inductive by itself, by the cardinality of `Running`.
* `LoopInv` bounds the tasks a node has begun by its loop counter, less one that has not begun
  (`RunsCounted`), given that a node which is spawned is idle (`NodesIdle`, from `LockInv`).
* `HaltInv` says that an announced halt implies the flag and the top of the loop
  (`HaltWaits`), and carries `HaltIsSaved` and `OneAnswerPerHalt`.

`ToolLoopProofs` proves, for every set of calls and tools, every channel capacity, round limit,
announcing style and resumed conversation that satisfies `LoopAssumption`:

| Theorem | Property |
|---|---|
| `TypeCorrect` | `Spec => []TypeOK` |
| `ApprovalGuards` | `Spec => []GateHolds` |
| `CallsRunOnce` | `Spec => []AtMostOnce` |

by five inductive invariants:

* `TypeInv` adds that updates name calls or reasons (`UpdatesNamed`), that the calls taken
  from a stream have ids (`CallsNamed`) and that no tool runs while the stream is read.
* `ControlInv`: only a loop in `Streaming` has a worker at work, and a finish is
  the last update a worker sends.
* `RanInv`: a call that has run is in the conversation or on its way there, through the
  list of the worker or the box (`RanMentioned`), and the calls collected from a stream are new to the
  conversation (`CallsAnnounced`). So a call that is taken has not run (`TakenAnnounced`). It
  needs that the signal which ends a round is sent only after the box is filled.
* `GateInv`: once a request for approval is on its way, the loop runs nothing more
  (`AskingEnds`), and the calls that are asked for have not run (`AskedIdle`); `GateHolds` follows.
* `OnceInv`: a resume comes before anything has run (`ResumeFirst`), and the calls it
  lists (`PendingOnce`) and those a stream collects (`CollectedOnce`) are distinct.

`RetainedSlots` is the lemma about `Retained` they rest on: what is retained is a selection of
slots that have ids, and distinct slots stay distinct.

On top of them, what a round of the loop owes its consumer:

| Theorem | Property |
|---|---|
| `ApprovedCallsRun` | `Spec => []ApprovedRun` |
| `EndsTold` | `Spec => []EndsWithVerdict` |

* `ApprovedInv`: until the responses are used up, the approved calls are those of the last
  message with calls, and then those still to do or answered (`GrantedPending`); what is no longer to do has
  run if its tool is registered. What is answered stays so (`AnsweredGrows`).
* `EndInv`, on top of `TypeInv`, `ControlInv`, `RanInv` and `GateInv`: a finish is the last thing
  in the channel (`FinishEnds`); an ended worker has sent a finish, or panicked, and a
  verdict means that the channel is empty (`EndTold`); the requests for approval sent so
  far are those of the calls before the one the worker is at (`AskedInOrder`). `ReceiveSaid` and `SendSaid` are
  its lemmas about the channel.

### The remaining invariants of the engine

Under the same assumptions:

| Theorem | Property |
|---|---|
| `RetriesStart` | `Spec => []RetriesStartOver` |
| `EarlierSteps` | `Spec => []EarlierStepsUndone` |
| `SuperstepsImplemented` | `Spec => ImplementsSupersteps` |

* `AttemptsCounted` is `RetriesStartOver` for tasks that wait for a permit as well, whose batch is whole and whose
  output is empty: a start must not break it.
* `FrontierInv`: a task is of a node that had mail when the superstep began (`StepHasFrontier`), and
  the status is final only at the end (`OverIsTold`). On top of it `EffectsLogged`: until a task fails every effect is of
  a node in the log; while compensation runs it is in the list to undo or of the frontier; afterwards it is of the frontier.
* `RouteInv`: mail for the next superstep has come over an edge from a node of the frontier (`MailIsTraced`), which
  needs that a task is labelled with its own node or a fallback of it (`LabelsAreSources`). With it each action maps to
  a step of `Supersteps` or a stutter: `StepDone` is the round, the only step that consumes mail; `Resume` and timers
  are arrivals; the ends of the run are its stop; tasks, joins and routing stutter.

### The remaining invariants of the tool loop

For every finite set of calls:

| Theorem | Property |
|---|---|
| `EveryCallAnswered` | `Spec => []NoCallLost` |
| `TurnsImplemented` | `Spec => ImplementsTurns` |

* `TurnInv`: until a resume is over the conversation is the one message that asks, and answers and calls to do are that
  message's calls in order (`ResumeShape`); a model is consulted only when all calls are answered
  (`ConsultsAnswered`) and a round is left (`RoundsLeft`); between two rounds what was announced is answered and
  reported (`AnnouncedKept`).
* `RoundInv`: while a stream is read, what was announced is among the calls collected, is the current one, or was crossed
  (`CallsCollected`), and `Retained` keeps every slot with an id; the calls of a round are those announced, new to the
  conversation and distinct until the loop has read of them (`RoundHeld`); the box, once filled, holds exactly the
  round's requests and answers (`BoxFilled`); what is reported or on its way covers the calls before the one the worker
  is at (`ReportedInOrder`). The step that empties the box is a turn of `Turns`, the end of a resume the turn that was
  owed, everything else stutters.

### Checkpoints

`CheckpointStoreProofs`, for every set of keys and values, interval and bound
that satisfies `StoreAssumption` and `SentinelAssumption`. Hypotheses on the constants are in the statement:
`OneRun` is `~Concurrent /\ MaxRuns <= 1 /\ MaxCheckpoints >= 2`.

| Theorem | Property |
|---|---|
| `TypeCorrect` | `Spec => []TypeOK` |
| `AcknowledgedStay` | `~Concurrent => (Spec => []AckedAreListed)` |
| `LatestStays` | `~MayFail /\ MaxRuns <= 1 /\ MaxCheckpoints >= 2 => (Spec => []LatestLoads)` |
| `LatestIsThere` | `OneRun => (Spec => []LatestLoads)` |
| `RecoveryIsExact` | `OneRun /\ ~MayClear => (Spec => []RecoversNewest)` |
| `RegisterImplemented` | `OneRun /\ ~MayClear => (Spec => ImplementsRegister)` |
| `ChainsAreShort` | `OneRun => (Spec => []ChainBounded)` |

The hypotheses are the conditions under which the runs check these properties; section 4 says what goes wrong with overlapping
cleanups (`AckedAreListed`, and `LatestLoads` when they fail), a second run, a single checkpoint to keep, and
a variable that is cleared. The bounds `MaxId`, `MaxStep` and `MaxCrashes` are any numbers, and `MayFail` is free except in `LatestStays`.

* `TypeInv` adds to `TypeOK` where each actor can be (`Shape`): the engine never
  removes, a save has an id, a removal has something left to remove.
* `WriteInv`: without overlap the index is never torn, a writer has the temporary file to itself, and what it is about
  to rename is the index with its entry added or taken away (`NewIndex`). `AckInv` follows.
* `LatestStays` has no order of the two actors to rely on. `Versions` are all indexes that may still become the index:
  itself, what the actors hold, and the temporary file as long as somebody may
  rename it. Each of them is `Sound`: it is in the order of the saves, so that its latest entry is its last one (`InOrder`,
  `LatestIsLast`), at most the checkpoint being saved shares the step of the run (`Timely`), and its latest entry
  has a file that is on no list to be deleted (`Loads`). A cleanup deletes what is older than the two newest entries
  of the index it has read (`ExpiredAreOlder`); `FreshInv` says that a new checkpoint is in no version and on no
  such list before the engine has read the index, and `TmpInv` that an idle cleanup has left
  nothing in the temporary file, which is where failing cleanups break it.
* `DraftInv`: what is being saved is the state and the step of the run, under an id above all that are listed. `OrderInv`:
  the index is in order, and nothing is listed above the step of the run, with it only the checkpoint of a halt
  (`StepsListed`). `NewestInv`: the latest entry has its file, which holds what was last acknowledged, and is on no list to
  be deleted.
* `ParentInv`: a parent is older than its child, and that of the checkpoint being saved is the latest one; `GrowInv`: a
  key that is set in a parent is set in its child, and what is set in the last acknowledged save is set in the run. So the overlay along the parents adds nothing to the latest
  checkpoint's own state (`MergedIsOwn`), which is what `RecoversNewest` needs.
* `ChainInv`: the depth of the latest checkpoint is bounded by the commits counted since a
  snapshot (`Bound`); `DepthShrinks` says that a file which is deleted shortens chains only.

`Merged` and `Depth` are recursive functions. What they yield is proved by taking the least id for which a claim fails
(`SmallestOf`, from the library's well-founded minimum over a set), so no induction rule with an operator as
parameter is needed. `Ranked` is the lemma about a finite total order behind `Expired` and `Retained`: positions are a
bijection.

### The channels of a run, group chats, nodes that wait, services

The theorems are of `MCWorkflows`, for every value of its constants that satisfies `CheckpointConstants` and `PartConstants`:
positive capacities of the event ring, a chat with a participant and a round, finitely many runs of a waiting node, a trail
with room for an entry, and natural bounds. A lemma (`PartSteps`) says that a step of the sum is a step of the part a
behaviour is of.

| Theorem | Property |
|---|---|
| `LatestStaysLoadable` | `MaxCheckpoints >= 2 => (Spec => []LatestLoads)` |
| `EverythingIsTold` | `Spec => []NothingLost` |
| `ChatsKeepRules` | `Spec => []ChatKeepsRules` |
| `NodesAlwaysWait` | `Spec => []NodesWait` |
| `ServicesAlwaysKeepRules` | `Spec => []ServicesKeepRules` |

* `LatestStaysLoadable` is `LatestStays` of the store, as the sum instantiates it; why one checkpoint to keep is not enough
  is in section 4.
* `OutputsInv`. The ring overwrites its oldest events, so what the agent learns rests on the newest: a failure is the newest
  event until the agent has seen it, and no event tells of an end before it came (`RingTells`). The agent goes through its
  loops in order, and takes no output while it reads events (`LoopsInOrder`); the channel holds what was yielded last
  (`OutputsQueued`); progress comes before all else, and then a failure, the outputs and the end, each at the place that
  the frames delivered and on their way give it (`FramesInOrder`).
* `ChatInv`. That rounds are at most `MaxRounds` is not inductive: a speaker was chosen while a round was left, and nobody adds to
  that history until he has spoken (`RoundsLeft`). Turns are fair because the shared counter is a number of full
  rounds and a remainder, and each participant has had as many turns as these say (`TurnsCounted`); whoever speaks
  has not heard the keyword (`KeywordUnheard`).
* `WaitInv`. Whatever runs do, a flag that is up, or that a task has read as up, was set for something that was asked for and has come,
  and each run has let through one message less than there were such (`FlagsCounted`). If runs follow each other, none is
  abandoned, at most one is in the node, and between runs the flag is down (`OneAtATime`); a run waits
  for one thing (`WaitsForOne`), and what it has asked for and not yet been answered is still ahead of it (`AsksAhead`). A cron
  trigger ticks for each message it lets through, in whatever order runs reach it (`CronCounted`).
* `ProInv`. Results of the steps are in their order (`StepsInOrder`); on the way back the steps undone are those above the
  ones still completed, downwards (`SagaProgress`); what was told to be breached is breached and overdue (`BreachKept`); a
  receiver's copy of the queue, and what it got, are beginnings of the topic (`QueuesInOrder`); the trail is
  the newest of what was recorded (`TrailKept`).

### Turns, the MCP client, stored sessions, what searches and the wiki share

The theorems are of `MCAgents`, so they name the invariants of the run `beside`, whichever `Parts` there are; what is proved
of a part is used through its instance. The hypotheses on the constants are operators: `TurnConstants` (a finite set of
prompts and natural bounds), `McpConstants` (a finite set of callers), `SessionConstants` (natural
times and bounds) and `SharedConstants`: some page type, a finite set of sessions none of which has the name of nobody,
natural times, and `2 * ProbeTime < Ttl`. The code's values are 3 s by default (types.rs:88 of `crates/websearch`) and 30 s
(probe.rs:59 there): a verdict of the cache that was fresh when a search began to probe the others must still be good when it ends.

| Theorem | Property |
|---|---|
| `TokensStayOwned` | `T!TurnConstants => (Spec => []TokenOwned)` |
| `TurnsConverse` | `T!TurnConstants => (Spec => []Conversation)` |
| `TurnsAreKept` | `T!TurnConstants => (Spec => TurnsStay)` |
| `ClientKeepsRules` | `M!McpConstants => (Spec => []McpKeepsRules)` |
| `SessionsStayKept` | `D!SessionConstants => (Spec => []SessionsKept)` |
| `SharedStateStaysKept` | `SharedConstants => (Spec => []SharedStateKept)` |

* `TokenOwned` is inductive by itself: a token is registered by the turn that spawns and cleared, if it is still the
  turn's, by the turn that ends.
* `TurnInv` adds to `TypeOK` how far each run, its prompt and its background task can be (`RunsShape`). `SmoothInv` is what
  a client that waits gives: at most one prompt and one background task are on their way (`Serial`); the count agrees with the history unless a task is
  between the two, a request is the history it was made from with the question, and a task has still to append that
  question and the reply (`Work`); a turn is not mentioned before its question is written (`Silent`) and holds the last
  word while it goes on (`LastOwn`), so that the stored and the live sessions are conversations (`Talks`).
  `Conversation` alone is not inductive: that a question is appended once rests on the count which the history
  provider compares with the request, and on the background task of the run before having ended when the next request is made.
* `TurnsStay` needs no `calm`: what is stored is a beginning of the live session's history (`SavedFirst`), because a session is
  live only when it was loaded from the store or made with an empty one, and histories only grow.
* `McpInv`: ids are given once, to one caller, one request and one response (`IdsGiven`, `CallsOnce`, `AnswersOnce`), whether or
  not responses go to their own callers. A request that was sent when nothing was owed and that nobody joined is the
  only one anybody waits for, and all that is asked and on the wire is of it (`InTurn`), so that the first response read
  is its own. `NobodyWaitsInVain` compares three cardinalities: a send adds one request, an answer moves it to the wire, and whoever reads it
  stops waiting; a cancelled caller leaves one to spare. A broken line counts, because it ends a wait.
* `SessionsInv`: nothing is dated later than now; where nothing overlaps, at most one of a write, a load and a deletion is under way (`OneAtATime`), a write
  takes no more than the live session has (`WritesLive`), a load has what is stored (`LoadsStored`), and a copy that is to be
  deleted has expired and stays so as time goes on (`DoomedExpired`).
* `IndexInv`. That a quiet index equals the disk is a claim about moments at which nothing is under way; what is inductive is that
  an edit nobody has missed is in the index, or still ahead of it in the queue, in the batch or in a full rebuild that has not
  committed yet (`EditsIndexed`), and that what a rebuild has walked over is the disk but for edits in the queue or the batch (`WalkIndexed`),
  there being one writer at most (`OneWriter`). Documents of another kind than their page has now are only those of pages without a type.
  Versions of a type grow from what was built to what is mounted to the disk (`VersionsGrow`); a reader that is not at
  the index has a reload to come (`ReaderFollows`). No graph, cached or being built, is of a generation still to come
  (`KeysPast`), and one whose request began in the generation it is cached under is built from what the reader sees (`RequestCurrent`).
* `SpacesInv`. Whoever writes the file writes a sound one, having checked what it loaded (`Loaded`). What a client has still to do
  tells how the file and the engine may differ until then (`Stage`); with one client at a time, they agree between operations. A
  wiki's section of settings is absent or is what was set in it (`SettingsTold`).
* `BrainInv`. What was consolidated of a session, the job running for it and those in the queue are prefixes of one another
  in this order (`JobsInOrder`), and of what the session has said (`JobsBehind`); the newest job of a session whose job
  was not dropped is all it has said, unless it is about to queue one (`NewestIsWhole`). A dropped job costs nothing when a later one of its
  session follows.
* `SearchInv`. A sleeping search sleeps until its distance to the request it read is kept, and that request is not older than
  the last one of its own task (`Sleepers`). A search
  that probes has verdicts for all the others that were fresh when it began, and it does not probe for longer than
  two probes take (`Probers`). Where one instance is configured, all searches and probes are of it (`OneInstance`).

### How the proofs are built, and what they leave

Each invariant has one step per action; sends of the worker are treated together
(`WorkerSends`). The theorems use no fairness. Each inductive invariant was checked by TLC on small instances
before it was proved.

Only model-checked:

* liveness (`Terminates`, `HaltNoticed`, `RunEnds`), which rests on fairness and `ENABLED`;
* `GraphsAsBuilt`: compilers, searches in graphs, pipelines and scripts, which are folds over programs and graphs of any size;
* `ToolsKept`, `MessagesKept`, `WikiKeepsRules`: trees of files, cleaners, parsers, chunkers, rankings and graphs, which are
  computations over data of any length and would need induction. What these parts have of control, as far as several
  actors share it, is in `SharedStateKept`.

No module declares a `RECURSIVE` operator: what is recursive is a function or a fold.

## 6. Plan

Done: the engine, the checkpoints, the tool loop, each with its abstract specification and
the proofs above; the parts around the engine, with proofs of four of them; the parts of and beside an agent, with proofs of the
turns, the MCP client, the stored sessions, the index and the spaces of the wiki, the curator and the web search.

Left: models of the knowledge files of the super brain and of the planner, if they come to keep state between calls; and the
properties of section 5 that are only model-checked, if the prover learns induction over data.

## 7. Not modelled

Listed with reasons under `components` in PROJECT.json:

* the types of `crates/core` (messages, tools, options): data without transitions of its own, used by the
  other models; its session and incremental parser are modelled;
* skills, workspace, planner and the persistence decorator of the framework; the knowledge files of the super
  brain; the wiki's statistics and index commands: functions of files and prompts, with no state between
  two calls that the other modules do not have;
* the llama, OpenAPI and sandbox crates: bindings to native code and processes;
* the macros, the command line and the examples: code generation and glue.

Of an agent run, the messages of injected context providers, `replace` and `load_messages = false`, which shift the index
from which history.rs:63 counts what is new, are left out.

Of the parts modelled partly, the `note` of each component says what is left out; mostly the
wording of prompts and updates, translation of protocol messages, and requests to services.
