# A verification development of LeLLM

LeLLM (`src/`) is a set of Rust crates for agents that call language models: a graph
engine with checkpoints and durable runs (`lellm-graph`), a ReAct agent loop with a tool
executor (`lellm-agent`), an MCP client and server (`lellm-mcp`), provider codecs
(`lellm-provider`) and the types they share (`lellm-core`). This directory holds TLA+
modules that model its control, TLC configurations that check them on small instances,
and theorems that TLAPS checks for every value of the constants.

`PROJECT.json` is the machine-readable side of this text: `map` gives the lines each
definition translates, `runs` the questions asked, `mutants` for every property a bug in
a mapped definition that breaks it, `hazards` what is hard to test in the code and which
property guards it, `theorems` what is proved.

1. [Inventory](#1-inventory)
2. [Modules, and how they correspond to the code](#2-modules-and-how-they-correspond-to-the-code)
3. [Runs and their bounds](#3-runs-and-their-bounds)
4. [Fairness](#4-fairness)
5. [Proofs](#5-proofs)
6. [What the code does against its documentation](#6-what-the-code-does-against-its-documentation)
7. [Not modelled](#7-not-modelled)
8. [Plan](#8-plan)

To repeat the checks: `tlc -workers 2 -config DurableFan.cfg MCDurableRun`, and so on
with the module and configuration of each run; `tlapm DurableRunProofs.tla`.

## 1. Inventory

### 1.1 Durable run protocol (`lellm-graph/src/durable`, `graph/run_loop.rs`, `node/parallel_execute.rs`)

*State.* One `RunRecord` per run in a `DurableStore`: revision, status, steps used, a
`FrameRecord` per graph call (cursor, invocation counter, steps), an `ApprovalRequest` per
barrier invocation, a `TaskRecord` per task invocation. The process that holds the run's
exclusive lease has a copy in its `Session`, a `poisoned` flag and a cancellation token.

*Operations.* `start`, `resume`, `submit_decision`, `resolve_task`, `expire`, `cancel`;
inside an execution: begin, commit and finish a frame, `NodeScope::approve`,
`TaskRuntime::execute`, opening and joining branches.

*Interaction.* Every update clones the record, edits it, adds one to the revision and
saves it whole under one async mutex. The branches of a parallel node are futures polled
by one task, so a frame keeps the processor from one await to the next. Clients act only
while the lease is free, except for the cancellation token.

*Hard.* A crash or a failed save between any two saves; a failed save that did reach the
disk; external calls whose outcome nobody knows; a decision racing an expiry; a sibling
that fails, suspends or halts while another branch is in its task; loops that come back to
the same barrier.

*Correct when* saves are serial and the record always loads; a barrier is passed only
under its own approval; a call goes out only when its start is on disk; a
`ManualRecovery` task is called again only when somebody said so; groups and the run
complete only when everything in them has; an accepted decision is kept and takes effect.

### 1.2 Checkpointed run and its stores (`exec/`, `checkpoint/`)

*State.* The executor's state and cursor, its budget, the trace's checkpoints in a
`FileBlobStore` (with `.tmp` files) or an `InMemoryBlobStore`, the retention policy.
*Operations.* start, execute a node, save, announce (`CheckpointSaved`), prune, load the
latest, restore. *Hard.* A crash between the rename and the announcement or the prune,
a failed save, damaged files, budgets across restores. *Correct when* the trace is one
walk of the graph whatever happens, no node runs before the boundary before it is saved,
and the budget is a total over restores.

### 1.3 MCP client and transports (`lellm-mcp/src/client`, `transport/`)

*State.* The client's Mutex around the transport; per connection a `PendingMap` from ids
to oneshots and a reader task; the watch channel of `ConnectionState`. *Operations.*
connect, request (register, send, wait with a timeout, forget), close, reconnect, and the
reader's deliver, announce, drain. *Hard.* Reader and callers on different threads, late
and repeated answers, callers that are cancelled, a server that leaves during connect or
stops taking in what is written to it. *Correct when* no caller gets another's answer, every call
ends that is not stuck in a write, nobody waits on a connection that was let go, and the state says
what the connection is.

### 1.4 MCP registry, catalog and watcher (`lellm-agent/src/runtime/tools/mcp`)

*State.* Registered servers and their stores, the tool index, one watcher task per server
with a broadcast receiver of 64 notifications. *Operations.* register (discover, check
conflicts, install, subscribe), remove, shutdown, drop, refresh. *Hard.* Changes between
the discovery and the subscription, notifications pushed out of the buffer, watchers stuck
in a request during shutdown. *Correct when* a stale catalog is always about to be
refreshed, registrations do not collide under the `Error` policy, and what is removed is
closed.

### 1.5 ReAct agent loop, LLM invoker, tool executor, compaction (`lellm-agent/src/runtime`)

*State.* `AgentState` (messages, iterations, response, token usage, stop reason), the
graph's cursor and step count, the invoker's attempts, the bounded event channel of
`invoke_stream`, the groups of a tool batch and, in a durable run, what the record says of
each of its calls. *Operations.* the nodes `budget_check`, `llm`, `compactor`,
`post_llm_check`, `tool`; opening a stream, retry, fallback; run a batch, retry a call,
collect; emit, terminal event, receive, disconnect; restore a run from its checkpoint, resume
a durable one, reconcile a call. *Hard.* tools that panic in a group, streams that fail after
tokens were shown, a catalogue that changes between the offer and the call or between a crash
and the resume, compaction of half a turn, a full channel, a batch that is interrupted with
some of its calls done. *Correct when* every request is one a provider accepts, exclusive tools
take turns, results are reported truly, tokens of one stream are shown per round, limits hold,
the consumer hears how it ended, and a restored run goes on as if it had not been interrupted.

What an agent is given before it runs (tools and catalogues, a prompt, options, providers and
routes) is data that builders put together; what goes over the wire is data that codecs make of
it. Neither has steps of its own: both are functions the loop and the streams go through.

### 1.6 Event stream and barriers of a plain graph run (`event.rs`, `exec/execution_loop.rs`, `node/barrier_sink.rs`)

*State.* The run loop's cursor and step count, the `occurrence_counter` of each barrier,
the wildcard cache, and three bounded channels: events (256), decisions (256), cancel (1).
*Operations.* Of the run: start and end a node, pause, wait for a decision or a timeout,
follow it, complete or fail. Of the client: decide by id or by node, cancel, drop the
handle, receive, stop reading. *Hard.* Decisions that come early, late or twice, counters
that all runs of a graph share, timeouts, a full event channel. *Correct when* a pause is
left at most once and under a decision of its own, a cancelled run ends, and a client that
reads hears how the run ended.

### 1.7 Streamed answers (`lellm-provider/src/providers`, `lellm-mcp/src/transport/http.rs`)

*State.* Two parsers of SSE, one for providers and one for MCP subscriptions: an unfinished
line, an unfinished frame. Behind the first the accumulators of calls and of usage, and a
channel of 32 events. *Operations.* Open the stream, read a chunk, decode a frame, emit an
event, time out, complete; the consumer receives or leaves. *Hard.* Bodies cut anywhere,
fragments of several calls, an end before the end, a full channel, a silent server. *Correct
when* frames, calls and usage do not depend on the cuts, events come in order, and the
consumer hears how the stream ended.

### 1.8 Parallel nodes and merging (`node/parallel_execute.rs`, `state/`, `typed_state_merge.rs`)

*State.* The parent's state and its clone, per branch a copy, a buffer of mutations and an
engine of its own, the errors in the order they come, a token for the group. *Operations.*
record a mutation, return, fail, suspend, stop, route, see the cancellation; settle; merge.
*Hard.* Branches end in any order and one failure cancels the others, whose errors must not
hide it; deltas of branches that changed the same key or replaced the messages. *Correct
when* a merge is what some serial order of the branches would have made, nothing appended or
counted is lost, and a node that fails leaves the parent's state alone.

### 1.9 Graph builder, analysis and routing (`graph/`)

*State.* Nodes and edges of the builder, the graph, the run's cursor. *Operations.* add nodes
and edges, build, analyse, check for barrier handlers, route by condition, fallback or goto,
restore under another graph. *Hard.* An analysis that contradicts what runs do; a restart with a
graph that was changed in between, under a hash the builder was given; names that nodes, clients and
`reject_target`s route to; a barrier nobody can decide, deep in a nested graph.
*Correct when* what the analysis says is true of every run and a restored run follows only
edges of the graph it began with, where its fingerprint was computed.

### 1.10 MCP server (`lellm-mcp/src/server`)

*State.* The pipe of `run_stdio`, the tasks of `run_http`, and for the deprecated SSE server a
broadcast channel of 1024 answers that all sessions share, with a counter of sessions. *Operations.*
dispatch a request, call a tool, answer; open a session, receive, lag, leave. Of the client: write or
post, accept the POST's return, give up. *Hard.* Sessions whose clients count ids alike on a shared
channel; an answer that comes over the stream before the POST that asked for it has returned; a
session that lags; stray lines between requests, and lines cut off by a write that failed. *Correct
when* a caller is told what came of its own request and never to repeat what may not be repeated, an
answer is kept for the caller that waits for it, and every call is answered unless its session lagged
past the answer.

### 1.11 The rest

The facade crate re-exports, the derive macros generate code at compile time, the templates build
a graph of agents out of prompts. They keep no state and are not modelled.

## 2. Modules, and how they correspond to the code

```
DurableRun ── MCDurableRun            DurableRunProofs
GraphWalk ◁─ CheckpointRun ── MCCheckpointRun   CheckpointRunProofs    (◁─ implements)
McpTransport, McpServer               McpProofs
McpRegistry                           McpRegistryProofs
ToolBatch ◁─ AgentLoop ── AgentWire ── MCAgentLoop   AgentLoopProofs
                 │ Wire
             AgentSetup ── Codecs
                             │ Wire
             SseStream ── MCSseStream SseStreamProofs
GraphStream ── MCGraphStream          GraphProofs
GraphBuild ── MCGraphBuild            GraphProofs
ParallelNode ── MCParallelNode        ParallelNodeProofs
```

An operator whose comment begins with "Mutant" or reads "mutant of" is used by no action. It is the operator
after it with a plausible bug, kept so that each property can be shown to notice one.

### DurableRun

`disk` is the record in the store, `mem` the copy in the executing process, `pc` where
each frame stands between two awaits, `cut` the frames whose future was dropped, `calls`
a history of the calls the external system has seen, `due` the approvals whose deadline
has passed on the clock. Maps of the code hold an `Absent` entry where they have no key.
`Update` is `FrameScope::update`: check the lease's session, edit a clone, add one to the
revision, save, and publish it in memory only if the save reported success. A failed save
may or may not have reached the disk, and poisons the session.

Abstracted: the state a node computes and merge conflicts of branches; content tokens
(an approval's identity stands for its content); version and signature mismatch on resume;
the client's `expected_revision` (always current); several tasks of one node invocation
(one slot); `IdempotentWithKey`, which has the control of `ReplaySafe`; a `TaskRuntime`
handed to a spawned task; task attempts' history. The clock is monotone. `MaxRevision` is
`u64::MAX` at a size TLC reaches.

### CheckpointRun, GraphWalk

`files` is the trace by sequence number, `tmp` its `.tmp` files, `mem` the executor's state
and cursor, `told` the steps a consumer saw announced. The state is the sequence of nodes
whose mutations it holds, so that a lost, repeated or reordered node shows. `GraphWalk` is
the abstract specification: a walk of the graph that only ever grows by the node its end
names. `ContinuesWalk` says that the newest checkpoint of the trace implements it.

One executor per trace at a time, as the store's documentation demands. A name in `Stray`
is a `goto` to a node that does not exist: it is saved and then refused by the restore. A
damaged newest file blocks loading, as in the code: there is no fall back to an older one.

### McpTransport

`kind` chooses stdio, SSE or HTTP. `pc[c]` is where a caller stands in `request()`, `lock`
who holds the client's tokio Mutex (callers hold it over a whole request), `pending` the
map of each connection, `reader[k]` where its reader task stands. The reader never takes
the Mutex; what it does between two awaits interleaves with the callers at every update
of shared state. `wire` holds what the server has received: it may answer any of it late,
twice or never. It may also stop taking anything in (`stalled`): a caller that writes to it, or
whose POST it does not answer, is `Stuck` in its send with the Mutex in its hand, for no timer runs
before the write has ended. Over HTTP reqwest's timer covers the whole exchange. Callers may be
dropped at any point (`Abandon`).

`connect` takes `&mut self`, so it excludes requests; `initialize` is a request like the
others; the metadata lock is left out; an HTTP answer with a foreign id counts as none;
`ConnectionState::Initializing` is a state the code never sets. Notifications are in
`McpRegistry`.

### McpRegistry

Every `register()` brings a fresh client, numbered in order. `stores` and `index` are the
registry's `IndexMap`s, `store[c]` the list a watcher keeps, `listing[c]` what the server
has, `queue` and `lagged` the broadcast receiver. A request is answered or fails and holds
the client's Mutex meanwhile; the transport under it is `McpTransport`. `first` and
`unaware` are history variables: the list a server was registered with, and the clients
whose store is stale for one of the excuses `StaleIsTold` names. The conflict policy is
fixed at the start. The awaits of `register` after discovery never suspend, so they are
one step.

### ToolBatch, AgentLoop

`ToolBatch` is the executor: a batch is given a snapshot (`frozen`) of a catalogue that may
change at any time; one task per safe call, one per category, one for the exclusive calls;
a call is queued, running, backing off or answered. A panic answers the call alone in the
safe group and the whole group elsewhere, which is what `JoinError` makes of it.
`BatchSpec` is also an abstract specification: `AgentLoop` EXTENDS the module, conjoins its
actions to the loop's, and is proved to implement it.

With `durable` the batch is `execute_durable_batch`. A call is then a task of the run's record,
and its status is what the record says as soon as no process knows more: `started`, `saved` or
`unknown` (`Left`). `MayStart` keeps the exclusive calls until all others are answered; `Doubt`,
`Fetch` and `Start` are what `TaskRuntime::execute` does with a call it finds begun, saved or
new; `Caught` is its `catch_unwind`. A call that cannot go on puts its index into `stuck`, or
becomes `unknown`, and stops its group; when the other groups have ended too, `GiveUp` ends the
process's part of it. `Die` is a crash, `Reopen` the resume with a snapshot of its own, and
`Reconcile` is `resolve_task`. The saves of the record, their failures and the lease are the
subject of `DurableRun` and are not repeated here. A tool that declares `IdempotentWithKey` and
takes no context stops its group as an unknown one does; cancellation of the run is left out.

`AgentLoop` is the graph `build_react_graph` makes, run by `invoke_stream`. `node` is a
node of the graph or a point inside one; a node's mutations are applied when it succeeds,
so those of a failing LLM node are lost, as in the run loop. Messages keep their role and
round: enough to tell whether a history is one a provider accepts. Token counts are left
out: whether the history exceeds the context budget, and whether a token budget is spent,
are free choices at the guard that asks. A summary is one message, never empty. Events are
a count, with the terminal event last: `emit` never waits and loses what finds no room,
the terminal event waits. `MaxOpens` stands for the smaller of the invoker's and the
fallback's retries. A provider stream that ends without `ResponseComplete` has no calls.

With `restorable` the run is one of `invoke_with_checkpoint` or, if `durable` too, of
`invoke_durable`: there is no channel, and `Restore` takes the run up at the node it was
interrupted in, without what that node had recorded, after a crash or a provider's failure.
That what is saved is the run's last boundary is proved in `CheckpointRun`; here the point is
what becomes of the rounds, the calls and the limits of the loop.

### AgentWire

What a provider is sent of a run. `Chat` writes the history of `AgentLoop` out as messages of
`lellm-core` (`Said`: a response's calls, then its thinking and its text; a result under its call's
id), `Request` is what `LLMNode` makes of it, and `WireIsPaired` sends that through
`validate_request` and `encode` for one provider of each API. The agent, the ids of the calls and the
functions they name are constants. `HistoryPaired` is what is demanded of the history a caller starts
with, and what the proofs show of it ever after. `AgentWireAssumption` demands it, and that ids and
functions are not empty (a provider's empty id is refused by `Message::validate`, section 6) and that
the model has the capabilities the agent asks for, for otherwise `validate_request` refuses
every request, as it should.

### GraphStream

The run of `run_execution_loop` without a durable record, and the client that holds its
`GraphExecution`. `pc` is where the run stands, `decisions` the decision channel, `cancel`
and `handle` what the cancel channel shows (a token, or that it is closed), `events` how
many events wait and `last` where the terminal one is. `sent` and `passed` are histories:
the decisions sent, and the pauses left with what they were left under. `counter` starts at
any value up to `MaxShift`, for the counters belong to the graph and earlier runs of it
have moved them.

`Modify` takes the way of `Approve`, because the run loop never calls
`apply_decision_to_ctx`. `pending_queue` is not a variable: it is written only as the run
ends (section 6), so no wait finds anything in it. Deciding never waits, `MaxSends` being
below the 256 places of the channel. To drop the handle ends a wait as a cancellation would, since
that is what the code does; as its documentation denies it (section 6), no property demands it. Not modelled:
two barriers of one graph under one name, a barrier whose routing finds no edge, and the checkpoint sink,
which is `CheckpointRun`.

### SseStream

A body is a sequence of symbols: the name of a field, the two ends of a JSON payload, the
two halves of a character of two bytes, `cr` and `lf`, each with the number of its message. A
chunk is any prefix of what is left. `Feed` is `SseParser::feed` and `SubscriptionFeed`
is `SseStreamParser::feed`, the latter with its offsets, a symbol counting as a byte. What a
message says is a record that `OpenAI`, `Anthropic` and `Google` decode as the codecs do,
reading the fields the codecs read: `Done` with the message that carries the finish reason,
Google's calls numbered within a frame, its usage where nothing else is. `text` is how many texts a
message has. A field that may be missing is a set, {} for `None` and {""} for an empty string, which
overwrites what was told before. Arguments are fragments: `JSON` are the texts that are JSON, each the
fragments it comes in, and `Repaired` what `robust_parse` reads in those it can repair; both are
constants, so that nothing depends on how it repairs (`RobustParse`).

`ReadChunk` handles one element of the byte stream up to its frames, `HandleFrame` one frame,
`Emit` one event; between them the consumer may act, as it may at each `await` of
`process_stream`. `Carried` is the message a frame's data is the JSON of, byte for byte, if there is one.
`first` is the size of the chunk that `stream()` waited for before it
returned. `Completes` is the end of the body too, wherever the server closes it. `handled`
and `got` are histories. A token is dropped where the channel is full, and counted; of the texts of a
frame all but the last are passed over (`PassedOver`), and nothing counts them.

What the end of an answer brings is compared with the calls put together by hand (`CallsOf`) and
with `Codecs`: calls that have an id, a name and JSON for arguments are those the decoder of whole
answers gives, and the history that follows passes the next request's checks. What the two ways of
reading an answer do not agree on is excepted by name (`Complete`, `OneFrame`, `CountsAlone`, an empty
id), and reported in section 6.

What a server sends is bounded by two named assumptions. `SpeechAssumption`: it speaks where its API
does. `AnswerAssumption`: it sends calls and counts in messages that hold them (`Calling`, `Counting`), no
calls behind the message that ends the answer, and counts of tokens that do not go down (`Follows`). Both
parts of `Follows` are needed: calls behind the end are handled only if they come in the same chunk
(`stream/stream_processor.rs:141`), and the usage accumulator keeps Anthropic's greatest count and lets
OpenAI's zero overwrite (`stream/usage_accumulator.rs:39`). Nothing is assumed of ids, names and
arguments, nor of how Google divides calls and texts among its frames.

### Codecs, AgentSetup

Functions, no state. `Codecs` has `Message::validate` and `validate_request`, `encode` for each
API, `decode` of whole answers, and the errors of a call with what each is retried as. Texts,
ids and names are marks, joined texts the sequence of those that are not empty, and arguments a JSON
value, known by the text it is read from (`Parsed`), or a text that is none and that OpenAI's decoder
keeps as a string (`Raw`): enough to see what is dropped, reordered or joined. `Only` selects by
position, which says what `Iterator::filter` does in a form the proofs can take apart. `Paired` says
that in a body every call has exactly its result behind it. `AgentSetup` has the router, the
provider builder with its environment, tools and what `IntoTool` makes of a return value, the
catalogues and their merge, prompts and their cache breakpoints, `AgentBuilder`, and
`BuildRequest`, the request of a round. `AgentLoop` and `SseStream` reach both as
`Wire == INSTANCE`; `MCAgentLoop` takes its tools, limits and policies from an agent built there.

### ParallelNode

`calls[b]` is the buffer of branch b's `NodeContext`, `control[b]` its `ExecutionControl`,
`done[b]` what became of it and `states[b]` the state it left if it succeeded. `Fails` is the loop
over `FuturesUnordered` seeing a branch fail: it notes the error, then cancels `group` if the node is
fail-fast; `Settle` is what it returns when no branch runs any more. A branch is a graph of one node
and one step without a barrier handler, so a branch that routes by `Goto` ends in `StepsExceeded` and one
that pauses in `BarrierHandlerMissing`; what such a branch, or one that fails, had recorded is lost with its
engine. The merges are operators that return a set of at most one state. The state is a map, or an
agent's with messages, counts, a stop reason and a response; an addition to a counter wraps after
`UsizeMax`, and a merge whose sum passes it fails.

### GraphBuild

`nodes` and `edges` are the builder's, `graph` what `build` returned, with the hash
`canonical_hash()` gave the builder, if it was called (`AgentBuilder` always does), and `origin` the graph
the run began with. Names are numbers in the order of the strings: `find_all_cycles` finds a cycle from its
least node. `find_all_cycles`, `Unreachable` and `FallbackInCycle` are the analysis as functions, `Handled`
the check for barrier handlers.

What a node, a condition or a client decides is a choice (`Ends`): a task follows its edges, goes to any
name, ends the run, fails, or pauses although it is no barrier, which is found only then; a barrier is
approved, rejected with or without a `reject_target`, rerouted to any name, or cancelled. Such a step to a
name that is no edge's is a leap (`Leaps`). A nested graph with a barrier never has a handler.

`Fingerprint` is the hash the builder was given, or else what `compute_structural_hash` keeps of a graph: the
names and the edges, not what the nodes are, nor the start, the end or the order of the edges. `Restart`
offers to a checkpoint of the first graph a `Variant` of it: its edges reversed, another end, kind of
a node or hash, one edge led elsewhere, which may be the graph itself, or its start and end alone.

### McpServer

`serving` chooses among `run_stdio`, `run_http` and `run_sse`. `work` is what the server has been
sent and not yet answered, `ran` the history of the tools that ran, `call[c]` the one call a client
has under way and how it ended. `log` is everything sent over the broadcast channel of `run_sse`, of which
a session keeps its place (`next`): a receiver that is more than `Capacity` behind is told that it lagged
and jumps (`Skip`); `skipped` is the history of the answers lost so.

Over SSE the POST returns when the tool has run (`posting`, `Accepted`), and the answer may be there first:
`held[c]` is what the call's oneshot was sent meanwhile (`Told`, `Keeps`). How a call ends without an answer
is one of `Failure`: the timer of a stdio or SSE request, the drain of the pending table, an error
of reqwest (HTTP's own timer and a failed POST of SSE among them, `GiveUp`), a broken pipe, another error of a
write (`WriteFails`, after which the line may be in the pipe or not). The client's half, from `McpError` to
`ToolErrorKind`, is in the properties' `Disposition` and `ToolResult`. Not modelled: the keep-alive of a
stream, the body of a tool, and the subscriptions of `run_http`, over which this code sends nothing but
the acknowledgement: `SubscriptionManager::notify` has no caller and its module is private (`server/mod.rs:10`).

## 3. Runs and their bounds

| Run | Configuration | Asks |
|---|---|---|
| `durable_fan` | `DurableFan` | a parallel node (FailFast): one branch calls a graph with an approval and a `ManualRecovery` task, the other asks for an approval, both with a deadline; decisions, reconciliation, cancellation, one mishap |
| `durable_loop` | `DurableLoop` | a loop that asks and calls a `ManualRecovery` task every turn, budget 6 ends inside the loop, two symmetric requests, two mishaps |
| `mcp_transport` | `McpTransport` | two callers, two connections, two calls, all three transports, servers that leave, or stop taking in and go on |
| `mcp_registry` | `McpRegistry` | two names, two clients, one tool, two notices, a buffer of one, both policies |
| `checkpoint_run` | `CheckpointRun` | a graph a → b → a, end or a stray name; both stores; retention 0, 1, 2, all; budgets 3 and 5; two mishaps |
| `agent_loop` | `AgentLoop` | three rounds, up to two calls of a safe, a category and an exclusive tool, two attempts, one catalogue change, one turn kept, two opens; a stream with a channel of two, a run with checkpoints, and a durable one with one crash, panic or repeated call |
| `graph_stream` | `GraphStream` | draft → review → sign → draft or end, `sign` with a timeout, five steps, two decisions, counters moved by at most one, a channel of two |
| `sse_stream` | `SseStream` | one to three short answers in the style of each API, with empty ids, arguments that are no JSON, two texts and two calls of Google in one frame and in two; every way to cut them, LF and CRLF, a channel of two |
| `parallel_node` | `ParallelNode` | three branches, two calls between them, keys and values of two, `UsizeMax` 4, both strategies and both policies |
| `graph_build` | `GraphBuild` | every graph of three names and at most three edges that starts at the first and ends at the third, normal or fallback from the first name and conditional from the second, with and without a hash of the builder's; a task, a condition or a barrier, a task or a nested graph; three steps, one of them a leap, and one restart |
| `mcp_server` | `McpServer` | two clients, two calls, two sessions, a channel of one, all three ways to serve |
| `sse_subscription` | `SseSubscription` | a violation: see section 6 |

Properties, by run:

- **durable_fan.** `AckedDecisionKept`: a receipt is for good, whatever save fails after it.
  `GroupIsComplete`: a group is joined only when no branch of it is suspended, failed or
  cancelled, and the run completes only when all its groups have. `HaltIsFinal`: siblings of the
  branch that halted the run do nothing more. `DecisionTakesEffect`, `RunEnds`.
- **durable_loop.** The same barrier and task return every turn: an approval or a result of
  an earlier turn must not serve (`BarrierNeedsApproval`), and `ManualCalledOnce`: a `ManualRecovery` call is
  repeated only when somebody said so. The budget ends in the loop, so `Exhausted` is reached;
  `DiskIsValid` is `RunRecord::validate` on everything saved.
- **mcp_transport.** `AnswerIsOwn`, `NoStrandedWaiter`. `CallEnds`: a call ends if from some time on
  nobody is stuck in a write or a POST, which no timer ends (section 6).
- **mcp_registry.** `StaleIsTold` (whichever notice a full buffer loses), `CatalogCatchesUp`,
  `RegistrationsAreDisjoint`, `RemovedIsReleased`.
- **checkpoint_run.** `ContinuesWalk` (refinement); `TraceIsTrue`: the trace is not behind what was
  executed, counted or announced on the strength of it; `RunConcludes`.
- **agent_loop.** `WireIsPaired`: whatever batches with panics, crashes, reconciled calls and
  compactions the history has been through, the request of the next round passes the checks of
  every provider, and in the body each codec makes of it every call has its result.
  `OneAtATime`, `ReportsAreTrue`, `TokensOnce`. `RunConcludes`: the stream's consumer is told,
  and a restored run ends, unless a durable one waits for a tool that has left the catalogue.
- **graph_stream.** `DecidedByItsOwn`, `ErrorIsTold`. `CancelEnds`: of a cancellation that was sent, not
  of a handle that was dropped.
- **sse_stream.** `FramesAreReturned`: the parser rejoins what was cut. `CompleteIsWhole`: what
  `ResponseComplete` carries is the answer, compared with calls put together by hand (unless Google sent
  them in several frames), with the decoder of whole answers (if every call has an id, a name and JSON for
  arguments, and the body was not closed early), and with the last counts (unless Google sent them behind
  content); its history passes the checks of the next request unless an id is empty. `EventsInOrder`:
  what is missing was counted as dropped, or is a text before the last of its frame.
  `StreamConcludes`.
- **parallel_node.** `MergeIsSerialByKey`, `AgentMergeKeepsAll`: what a merge makes, key by key against
  some serial order of the branches (section 6 says why not all keys in one order), or against a count
  of what they recorded. `FirstFailureTold`: the error
  is the first failure, never its echo by cancellation, and the parent's state is untouched.
  `FailFastEnds`.
- **graph_build.** `DiagnosticsAreTrue`: unreachable nodes, cycles and fallback edges in cycles,
  against what runs do along edges, and that only a leap leads out of the graph. `DeclaredIsChecked`: a
  barrier that was declared is asked about before the first node; only a task that pauses is found out
  later. `RestoredKeepsEdges`, where the fingerprint was computed.
- **mcp_server.** `OutcomeIsOwn`: a result or an error code is that of the caller's own request, and what
  is never to be retried did nothing else than it says. `AnswerIsKept`: to a caller that waits something is
  under way, unless its session lagged past it. `AnswerComes`.

Type correctness (`TypeOK` of each module) is proved where there is a proof module, and holds in
earlier runs of the same configurations; no run repeats it. The same is so of `RevisionsAreSerial`,
`CallIsRecorded`, `LimitIsTold` and `AnswersAreFinal`.

`MCAgentLoop` also states six facts about the functions of `AgentSetup` as assumptions that TLC
evaluates over small arguments when the run starts: `CompositeShadows` (a name belongs to the first
source that has it, and every other registration is one conflict), `BuilderKeepsItsWord` (provider
builder calls in any order), `SmallFacts` (cache breakpoints, delays, identities),
`ForeignErrorsAreFinal` (only an error a tool gave a kind itself is retried), `KeyIsDemanded`,
`RoutesResolve`.

Why the bounds are enough. Mishaps (crashes, failed saves, external errors) are bounded
because each adds only a restart from the record: one lets every pair of adjacent steps be
separated, two (in the smaller graph) let a recovery be interrupted. Two branches give
every pairwise interleaving, and a third branch meets the group only through the same
join. Two callers are needed for the Mutex to have a waiter, two connections for an answer
of an old one to come late, two calls for an id to be mistaken. A broadcast buffer of one
with two notices overflows, as 64 with 65 do. `MaxRevision` is larger than any run of the
configurations needs, so no run ends for that reason. Budgets 3 and 5 end the walk at an
odd step and let a restore with either continue the other. Two calls of one category, of
one exclusive tool, and a mixture of them all occur in a batch; a compaction with one kept
turn cuts inside a history of two turns. One crash falls between any two steps of a durable
batch of two calls, with the catalogue changed before or after it; a second one would meet a
record of the same kind. The three ways to start an agent share their bounds; the fresh history is
the durable run's, the long one the other two's. Five steps let the loop of `GraphStream` pause twice at one
barrier and once at the other, two decisions let one be for another pause than the other,
or both for one, and a channel of two is full at the second event. In `SseStream` every cut of every body is
taken, so chunks of all sizes, the whole body in one included, meet every state of the parser;
two calls whose fragments alternate are the least that can be confused, and a channel
of two is full before the end. Three branches let a failure meet one branch that has ended and one
that runs; two calls are the least two branches can conflict with; a branch adds its number of tokens to
a base of one, so two calls reach `UsizeMax` 4 and pass it. Three nodes and three edges make a ring of two with a way in or a
way out, which three steps go round; rings of any length are the theorem's. One leap leads out of the graph,
or back to a node by no edge. Two sessions with an answer each overrun a channel of one; a POST that
returns after its answer was read needs one call only. `DurableFan` is not symmetric: its branches differ on
purpose. The theorems do not depend on any of these bounds.

Deadlock is not checked: every modelled system has states where it has ended, or where it
waits for a client that may never come. What must not stop is stated as liveness.

## 4. Fairness

- *DurableRun*: the process is scheduled (each `FrameStep` and `Launch`, `Conclude`), a host
  resumes a run that is due, the clock reaches every deadline, and somebody reconciles the
  unknown calls of a `ManualRecovery` task, without which such a run waits for ever by
  design. Nothing makes anybody decide an approval or cancel a run; a crash is never fair.
- *McpTransport*: tasks are polled, request timers fire, an opened connect or close ends.
  A write or POST ends if the server takes it; while it does not, no step of the caller is enabled
  and none is fair (`Stuck`), for `stdio.rs:241`–`253` and `sse.rs:291`–`298` have no timer.
  `Register` and `Unreachable` are strongly fair because tokio's Mutex serves its waiters in
  order. Nothing makes a server answer, or take in again what it stopped taking.
- *McpRegistry*: watchers and spawned closes are polled; a request that is never answered
  fails at its timeout, and none is stuck in a write for ever, which here is assumed: the transport does not see
  to it (*McpTransport*). Servers, and the owner of the registry, owe nothing.
- *CheckpointRun*: the executor runs on, and a host loads and restores.
- *AgentLoop*: the loop's task is scheduled; streams and tools end, since neither the executor nor
  the loop has a timeout of its own; a consumer that has not left keeps reading; a host restores or
  resumes a run that was interrupted, and somebody reconciles the calls whose outcome is unknown.
- *ParallelNode*: each branch that waits for its cancellation sees it, and the node is polled. No
  branch has to return by itself.
- *McpServer*: the server is scheduled, its tools return, a POST that was answered returns, and a
  client reads its stream. No client has to give up, and nobody has to send anything.
- *GraphStream*: the run is scheduled, its nodes end, its timers fire, and a client that holds
  the receiver reads it. Nobody has to decide a barrier: a run at an untimed one may wait for
  ever, and the properties do not say otherwise.

- *SseStream*: the task is scheduled, `idle_timeout` ends a wait for the next chunk, and the
  consumer reads on or leaves. No server owes a byte: a body that stays away ends in `Breaks`.
  A subscription has no timeout and no liveness is claimed for it.

## 5. Proofs

All eight proof modules follow one scheme: an inductive invariant, one lemma per action or
group of actions, and one theorem for each property it implies. `GraphProofs` and `McpProofs` hold
those of two components each, which is why `GraphBuild` and `McpServer` have names for their
specifications of their own (`BuildSpec`, `ServerSpec`).

Some of what follows is about data: a fold over mutations, a path through a graph, the messages of a body.
The induction it needs comes from one fact of the library, that < is well-founded on the naturals,
applied to a least counterexample (`Least`, `Induction` in `ParallelNodeProofs`), with a fold
unfolded once into the function it chooses.

**DurableRunProofs** (any graph, budgets, requests and mishaps that
`TopologyAssumption` allows). The record on disk alone is not inductive: what is saved
next is an edit of the copy in memory. The invariant says that both copies are well formed
(frames within their budgets, cursors inside their graph, decisions with their request,
tasks with their resolutions), that they agree while the session may write, and that what
each frame remembers from before its await still holds of the record after it: a barrier
past its check has an approval, a task past its check a `Started`. From it: `TypeCorrect`,
`AlwaysLoadable`, `ReceiptsAreKept`, `SavesAreSerial`, `BarriersHold`, `CallsAreRecorded`.

A second invariant, `RunInv`, is proved inductive on top of the first and relates the frames to each
other. A frame is executed only while every frame on its way to the root waits in a join for it
(`CallersWait`), an invocation polls each of its branches once (`PolledOnce`), and a halt that is
saved is on its way to the root through frames that have stopped or wait (`HaltSpreads`). In both copies
of the record a group is past its join only if its branches are done, an open frame's callers are at
the invocation that opened it, an applied approval was one, and a task that has begun is its frame's
current one (`Consistent`). And a `ManualRecovery` task has been called at most once more often than it was
released for a retry, and not more often while its start is not on disk (`CallsOK`). From it: `HaltsAreFinal`
(an action property), `ManualTasksCalledOnce`, `GroupsAreComplete`. That the frames under
execution hang from the root is part of the invariant, so nothing is assumed of `Parent` beyond its type.

**CheckpointRunProofs.** Between two saves the executor's memory is the end of the trace,
from commit to save it is one routed node ahead; the newest checkpoint exists once one was
saved and no prune drops it. From it the refinement `TraceIsOneWalk` (every step extends
the walk by one node or stutters), `BoundariesAreSaved`, `BudgetIsTotal`,
`AnnouncementsHold`, `TypeCorrect`. `TraceIsNotBehind` gathers `BoundariesAreSaved`,
`BudgetIsTotal` and `AnnouncementsHold` into the property the run checks.

**McpProofs.** *The client.* An id is its call's number, so no two calls share one; a caller
that waits holds the Mutex; it waits on the current connection, which is not 0. From it
`OwnAnswers`, `NobodyStranded`, `TypeCorrect`.

*The server* (any number of clients, calls and sessions, any capacity). What is under way is true
of the call it names, as far as that is still its client's: a request not yet answered, an answer in a
task, an answer in the shared channel for the session a client holds, what a oneshot holds, and the way the
call ended (`TruthInv`). For the channel this rests on `SessionsDiffer`: a session's number is its client's
alone and older than the counter, and whatever is in the channel is for a number given out before, so that a
new session finds nothing there for it. A request is one item of work and runs its tool once (`RunsOnce`),
so that an answer of "failed" is of the only run. From it `OutcomesAreOwn`.

`KeptInv` is `AnswerIsKept` with what makes it inductive: while a caller waits for nothing held, its
session is open, and what the server has of its request will be answered to that very session, at or ahead
of the place it reads (`Home`). From it `AnswersAreKept`.

**McpRegistryProofs.** A registered client is watched unless its removal is under way
(`WatchOK`, `Ending`), an answer in flight belongs to a refresh that is (`Arriving`), and
a client stale against its server is told or excused (`Ahead`). From it `StalenessIsTold`,
for any number of servers and tools and any buffer. The second invariant, `Books`, is about the registry's
own maps: `stores` holds a name once and clients opened before (`Indexed`), an operation that
waits keeps its client out of them until it is installed (`AtWork`), and under the `Error` policy what
each server was registered with is in the index under its name, through the removal of any other
(`ClaimsStand`). From it `TypeCorrect` and `RegistrationsStayDisjoint`.

**AgentLoopProofs.** `BatchInvariance`: no attempt beyond the limit (`Counted`), a call is under way
only in an open batch and is stuck only in a durable one (`Attended`), serial groups work their calls
off in order (`InOrder`), an exclusive call of a durable batch runs only when all others are
answered (`ExclusiveLast`), a panicked call is over unless the batch is durable (`PanicsAreOver`), every report is
true. It holds through crashes, resumes and reconciliations. `LoopInvariance`: rounds are counted, the
pending calls are those of the last response, one open speaks per round. `LoopRunsBatches`: the loop
implements `BatchSpec`, so the batch's theorems carry over: `CallsTakeTurns`, `BatchReportsTruly`,
`AnswersStay` (an answer survives every restart of the run). With the loop's own: `RoundsAreLimited`,
`StreamSpeaksOnce`.

A third invariant, `HistoryInv`, is about the history. Between the rounds it is paired; from a response
to the end of its batch the last message is that response and all before it is paired (`Waits`). This is
inductive only with what the batch may be in: its calls are those of the response, so that `ToolEnd`
writes one result for each (`AnswersPaired`), and a run that is restored goes on either at the model, with
the history paired and no batch, or at the tools, with the batch kept or given up as a whole (`HistoryInvariance`).
The step that could break it is the compaction: `CutBetweenTurns` shows that the place where the history is
cut holds no result, because a result is the start of no turn, and `SuffixPaired` that what follows such a
place is paired.

From it `RequestsArePaired`. What stands behind a call is found by its distance, so the point is what a codec
leaves out: Anthropic's drops the system messages, Google's also the messages without a part. The rank of a
position in a set of positions is the inverse of `Position` (`PositionIs`), a run of neighbours keeps its
distances (`RankRuns`), and therefore any selection that keeps the results and the messages with calls is paired
again (`OnlyPaired`); a message with calls has parts (`CallsAreParts`). A turn has the calls and the answer of its
message (`TurnFits`), though they stand among texts and thinking and Google's lose their ids.
`NotRefused` goes through the checks: a result's id is its call's, which some response made.

**GraphProofs.** *The stream of a run.* What the decision channel and the wildcard cache hold was sent; every
pause left has an occurrence below its barrier's counter, and the one that waits is the last
numbered and not yet left. From it `OwnDecisions` and `TypeCorrect`.

*The graph that is built and run.* A built graph is whole: its edges join its nodes (`Whole`). A run
stands at a node of it unless a leap led elsewhere (`OnGraph`), came along an edge of the first graph, of the
kind it says, at every step that was no leap (`Followed`), and runs only if each of its declared barriers, nested
ones included, has a handler (`MayRun`). That every edge is one of the first graph's holds across restarts because
a computed fingerprint keeps names and edges; where the builder was given the hash, `Followed` speaks of the first
graph only. A restored graph may have other kinds of nodes, so `MayRun` cannot come from the fingerprint: it
comes from `validate_persistable`, which is asked again. From it `HandlersAreAskedForFirst`,
`RestoredRunsKeepEdges`. `DiagnosticsHold` needs facts about graphs: a node
that a run reached by edges is in every set that holds the start and is closed under them (`WalkIsReached`), and
of a run that comes back to a node every step on the way lies on a ring of the graph: from where it leads there is a
way back, the shortest one meets no node twice (`ShortestWay`), and the ring it closes can be turned until its least node
comes first, the one `find_all_cycles` starts from (`CycleThrough`, `WalkIsListed`).

**SseStreamProofs** (any answer, any cuts, any room). Until the task ends,
nothing terminal is in the channel or received; while it ends, its one event left is terminal;
then that event is the last of the channel or of what was received, if the consumer is there.
From it `TheEndIsLast` and `TheEndIsTold`. What `Decode` makes of a frame stays opaque.

A second invariant, `CutInv`, says what the parser is as a function of how many bytes were read,
whatever the chunks. `WrittenIs` spells a message symbol by symbol and `BodySpelled` a body, by induction
along the messages; so every byte of the body belongs to an offset of a message. `Between` gives the parser at
that offset: its buffer is the line it is in, its data the payload of the lines before, where a half of a
character may have become a replacement. `ByteFits` shows that one byte moves it to the next offset, with a
case for each kind of line feed (`EventEnds`, `DataEnds`, `BlankEnds`), and `FeedReaches` takes it along a
chunk. With the frames found and not yet handled, this is `CutsDoNotMatter`, and `FramesAreReturned` follows (`FramesComeWhole`).

A third, `TellInv`, is what a consumer is told. `DecodeSpeaks` says of each decoder that a frame has a text or a
thought among its chunks just when its message says one (of a text in the wrong place nobody hears:
`SpeechAssumption` excludes it), `CarriedIs` that a frame carries its own message, by `CutInv`. What is said of a
frame is then the last text of its message and its thoughts (`TokensSay`, `Uttered`), and the texts before are so
many passed over (`Over`). All that was said so far, text by text, is `Expected`. What was sent is embedded in it,
in order, up to the number of events sent, dropped and passed over, and with every critical one (`Passed`); what
waits to be emitted is the rest (`Waiting`). An event sent extends the embedding, one dropped or passed over skips a
place that is not critical, a frame appends to both (`TellingGoesOn`).

For a subscriber not even whole frames can be counted on, as the parser cuts lines in wrong places (section 6).
`SubInv` says what is left: the messages it was told of, those whose payload begins in the data that waits
for a blank line, in the buffer and on the wire follow each other. Whatever a line is, it takes what it has
from the text ahead, and `drain_until` never moves back past it (`ByteStands`, `FeedStands`); a notification
names a message whose payload begins in its frame (`CarriedOpens`). Both together are `EventsComeInOrder`.

A fourth, `WholeInv`, on top of `CutInv` and `TellInv`, is what the accumulators hold after n messages: the
fragments those messages tell (`DeltasTold`), gathered by index with the last id and name of each, an empty one
included, and its arguments in order (`Gathered`), and the last counts (`CountAt`). `PushGathers` adds one fragment
to what is gathered, `PushAllIs` the chunks of a frame, and `DecodeHeard` says of each decoder that
a frame brings just the fragments of its message. At the end `FinalizeGathered` says that what was gathered,
sorted, makes a call for each index, each finished as `finalize` does: parsed, repaired or left a text, whatever
`JSON` and `Repaired` are; and `MadeIs` that these are the calls put together by hand, if Google sent them in one
frame. `DeltasEnd` says that nothing follows the message that set `is_done`. A call with an id, a name and JSON for
arguments is finished as it is decoded (`FinishedIsDecoded`), so that the whole answer with these calls decodes to
them (`DecodedWhole`); and a history with the calls is paired in the body of each API, and valid unless an id is
empty (`TalkPasses`), with the turns taken apart by `Only`. They make `ResponseIsWhole`, and so `AnswersComeWhole`.

**ParallelNodeProofs** (any number of branches, any states, any merge). While the node runs the
parent's state is the base; a branch that has ended without success has left an error, or said that it
suspended or stopped; the group is cancelled only when there is an error or a stop; so an error that is
first and a cancellation was caused from without. From it `TheFirstFailureIsTold`.

A second invariant, `Kept`, says what a branch's buffer is to the state it left: its mutations applied
to the base. With it `MergesAreSerialByKey`, for any keys, values, branches and mutations: along the
branches, by induction, the merged state holds under each key what the base holds or what one
branch made of it, and only one may have changed it; under one key the order that puts this branch
last does the same (`LastOneCounts`).

With it also `AgentMergesKeepAll`. Along the mutations of one branch (`AgentMessages`), as long as it has
not replaced the history it holds the parent's messages and one of its own for each call, and once it has,
only its own; its tokens are the parent's and its sum, which did not wrap around because no partial sum is
greater than the whole (`AgentTokens`). Then by cases of the merge: appended parts are flattened and
counted branch by branch (`CountFlattened`), a single replacement is by a branch that replaced, and the
others appended nothing. `ParallelAssumption` says here that what the branches append is none of
the messages the parent had, which is how the model tells them apart.

*Assumptions.* The named `ASSUME`s on constants of each module, evaluated by TLC in every
run, and nothing else.

*Model-checked only.* All liveness (`DecisionTakesEffect`, `RunEnds`, `CallEnds`,
`CatalogCatchesUp`, `RemovedIsReleased`, both `RunConcludes`, `CancelEnds`, `ErrorIsTold`,
`StreamConcludes`, `FailFastEnds`, `AnswerComes`), which is out of the prover's reach.
The facts about `Codecs` and `AgentSetup` are evaluated over small arguments.

## 6. What the code does against its documentation

One disagreement has a violation run, whose counterexample is a behaviour of the code:

- `sse_subscription`: `SseStreamParser::feed` adds its moving start to offsets that count from
  the start of the buffer, and panics at the second line feed of a chunk.

Seen while modelling, without a run of its own:

*Durable runs and graphs*

- `NodeScope::approve` saves the request and the status `Suspended` in two updates
  (`durable/scope.rs:334`). After a crash between them the record is `Running` with a pending request.
  `resume` sees the request and returns `Suspended` without saving that (`durable/runtime.rs:159`), and
  `submit_decision` demands the saved status (`:234`), so it refuses every decision from then on: only the
  deadline of the request, or a cancellation, ends the run. Both barriers of `durable_fan` have a deadline,
  as `RunEnds` needs.
- A durable resume fails if the tool of a call has left the catalogue, even if the call's result is
  saved: the lookup comes first (`tools/durable.rs:99`).
- A decision for another barrier, or another pause, than the one that waits is put into
  `pending_queue` for a later wait, and ends the run as cancelled (`node/barrier_sink.rs:234`), so
  that there is none, against `barrier_sink.rs:130` and `docs/v02-graph-design.md:230`.
- `checkpoint/checkpoint_data.rs:83` promises that no mismatch of graphs is silent. The computed hash has
  neither the start, the end, the kinds of the nodes nor the order of the edges: a restore under such a
  variant is accepted in silence, with other ends and other first choices; `RestoredKeepsEdges` says no more
  than that the edges it follows are the first graph's. A hash given to `GraphBuilder::canonical_hash` replaces the
  computed one (`graph/graph_builder.rs:207`), and then any edges are accepted. The agent's builder always gives
  one, of its model, tools and prompt (`lellm-agent/src/runtime/builder.rs:433`).
- `build` does not look at names outside of edges: a barrier's `reject_target`, a client's `Reroute`, a node's
  `Goto` may lead to a node that is not there, which the run finds out when it gets there
  (`graph/run_loop.rs:165`–`184`). A node that is no barrier may pause; without a handler that is found out then
  too, as `graph/graph_core.rs:353` says.
- An edge from a node to itself is not a cycle for `find_all_cycles`
  (`graph/graph_analysis.rs:42`), which then says "graph is a DAG" (`:116`); a node only a
  `ConditionNode` or a routing node leads to is called unreachable. `DiagnosticsAreTrue` excepts both.
- `DuplicateNode` and `InvalidFallback` (`build_error.rs:9`) are never raised.
- `StateMerge` is documented to let later branches overwrite (`state/state_core.rs:112`); it
  fails on a conflict.
- `StateMerge` compares states, not mutations (`state/state_core.rs:117`): a branch that writes what
  the base already holds counts as not having written. With a base {x: 0, y: 0}, a branch that writes x := 0,
  y := 1 and one that writes x := 1, y := 0 merge into {x: 1, y: 1}, which neither order of the two makes;
  `MergeIsSerialByKey` therefore asks for an order key by key.
- `replace_state` changes the state past the log that `exec/execution_engine.rs:39` calls the only
  way in.
- `BufferedSink` drops the newest chunk, not the oldest (`stream_emitter.rs:59`).
- The tail of `DurableRuntime::execute` replaces a saved `Rejected` with `Cancelled` when the
  host cancels meanwhile (`durable/runtime.rs:179`); `docs/durable-execution.md:38` calls
  the rejection the saved terminal result.
- The state is not changed by a decision: `BarrierNode::apply_decision_to_ctx`
  (`node/barrier_node.rs:92`) has no caller, so `Modify` modifies nothing, against step 5 of
  `docs/v02-graph-design.md:228`.
- `GraphComplete` is sent with `try_send` (`exec/execution_loop.rs:389`) and lost on a full
  channel, against "exactly once" (`docs/v02-graph-design.md:676`); so is `BarrierWaiting`.
- Dropping the `GraphHandle` closes the cancel channel, and the next wait for a decision takes
  that as a cancellation (`node/barrier_sink.rs:218`); `docs/v02-graph-design.md:501` says that it cancels
  nothing. The model does what the code does, and `CancelEnds` speaks only of cancellations that were sent.
- `load_latest` of the in-memory store finds nothing after the newest checkpoint was
  deleted by id, although older ones remain.

*MCP*

- No timer runs while a request is written: `request_timeout` begins behind `write_all` and `flush` over stdio
  (`transport/stdio.rs:241`–`256`) and behind the POST over SSE (`transport/sse.rs:291`–`315`), whose client has
  none either. A server that stops reading keeps the caller, and with it the client's Mutex: every other call
  waits, and so does `close()`, which could end it. `CallEnds` excepts this.
- A full channel of notifications drops the newest by `docs/mcp-design.md:261`; tokio's broadcast drops the oldest
  and tells the receiver how many it lost. `StaleIsTold` holds of either: a lost notice is one of its excuses, and
  any notice that is left makes the watcher fetch the whole list.
- Over HTTP a late answer is no timeout: reqwest's timer (`transport/http.rs:410`) ends in `TransportError::Http`
  (`:421`), as a lost connection does, and so does a failed POST of SSE (`transport/sse.rs:298`). The agent's tool
  then reports `Internal`, never `Timeout`, and the disposition is `Backoff` (`protocol/error.rs:116`), though the
  tool may have run. `OutcomeIsOwn` therefore promises nothing of `Backoff`, `Immediate` and `Reconnect`: whoever
  follows them may run a tool twice.
- `shutdown` of the registry awaits each watcher twice (`tools/mcp/registry.rs:370`, `:381`); a
  watcher that stopped within the first wait has given its output, and polling its `JoinHandle`
  again panics, against `docs/mcp-design.md:451`. In `McpRegistry` the state is
  `doing.op = "panicked"`, and reachable.
- The `Error` policy is documented to fail on a conflict (`tools/mod.rs:189`); a static catalogue only
  notes the conflict as a diagnostic and shadows.
- The index keeps the names of tools whose server was removed after an override.
- A connection `Closed` by its owner is `Disconnected` again when its reader ends later
  (`transport/sse.rs:226`).
- An unknown tool is answered with −32603 (`server/handler.rs:212`), which the client takes for a
  passing failure, and every error becomes `McpError::Server`: `InvalidParams` and `MethodNotFound`
  are never made.
- `subscriptions: true` is announced by every server (`server/handler.rs:147`), while
  `subscriptions/listen` is answered −32601 over stdio and the deprecated SSE. The list of wanted
  notifications is echoed and not used; `SubscriptionManager::notify` has no caller.
- A session of the deprecated SSE server that lags loses the answers it missed. `AnswerComes` excepts
  them.
- A subscription whose server ends lines with CRLF never commits a frame
  (`transport/http.rs:139`): a blank line is not empty then.
- `connect` says `Ready` (`transport/stdio.rs:224`, `sse.rs:266`) after the reader it spawned
  may already have said `Disconnected` and left; the state then stays `Ready` on a connection
  nobody reads, against `docs/mcp-design.md:221`. Every call ends all the same (`CallEnds`).
- Under `Override`, a replaced server keeps its place in the `IndexMap`, so a server
  registered earlier can shadow it (`tools/mcp/registry.rs:61`, `:259`).

*Agent and providers*

- `base_url.join` (`base.rs:195`) with paths that begin with "/" (`openai_compat.rs:206`) replaces the
  path of the base, so `https://openrouter.ai/api/v1`, as in `docs/DESIGN.md:217` and `base.rs:164`,
  sends to `/v1/chat/completions` of the host.
- A summary is a System message (`context/local_compactor.rs:62`), and the codecs of Anthropic and
  Google keep the last System message only (`anthropic.rs:49`, `google.rs:50`): after a compaction
  the system prompt, which `local_compactor.rs:4` always keeps, is not sent.
- A tool call without an id is decoded with the id "" by the whole-answer decoders, and
  `Message::validate` then refuses the history that holds it.
- Google's `functionResponse` takes its name from the call's id, which is the name only if Google
  made the call; and its streams ask `generateContent` (`google.rs:170`).
- Reasoning is sent to Anthropic (`anthropic.rs:158`), `UnsupportedFeature` by
  `lellm-core/src/request.rs:140`; llama.cpp gets `reasoning: "off"` where `request.rs:139` and
  `openai_compat.rs:591` say `thinking: false`.
- `ToolCachePolicy::Auto` marks the last tool only; `config.rs:99` says every unmarked one.
- `RequestOptions::apply` skips `None` only; `request_opts.rs:59` says empty values too.
- `2_u32.pow(attempt)` (`retry.rs:26`) overflows at 32 attempts.
- `Result<T, E: Display>` is not what `IntoToolResult` takes (`lellm-core/src/error.rs:304`): E must
  be an `IntoToolError`.
- `invoke` gives the graph `4 * max_iterations + 1` steps (`runtime.rs:212`), four an iteration
  by the comment at `:127`; a round that compacts takes five, so with three such rounds the
  run ends in `StepsExceeded` in `AgentLoop`. `durable.rs:29` counts six.
- Tokens that find no room are dropped (`base.rs:67`), so the streamed text may be shorter than
  the answer: `docs/DESIGN.md:350` allows it, `docs/DESIGN.md:586` calls it a correctness bug.
- A character cut by a chunk becomes two replacement characters (`stream/sse_parser.rs:31`);
  `intact` is FALSE then, and no property demands otherwise.
- The usage OpenAI sends in a frame behind the finish reason is lost unless both come in one
  chunk (`stream/stream_processor.rs:141`), and a `usage` of null counts as zeros
  (`openai_compat.rs:366`). `CompleteIsWhole` compares with what has arrived.
- By `docs/DESIGN.md:584`–`590` text, calls and usage of a stream must equal those of the whole answer, and a
  difference is a correctness bug. Besides dropped tokens these differ:
  - Of several texts in a frame `handle_frame` keeps the last (`stream/stream_processor.rs:181`), and counts none as
    dropped. `EventsInOrder` accounts for them (`PassedOver`), so that nothing else can be missing.
  - Google's calls are numbered within a frame (`google.rs:308`). Calls of two frames come under one index: the
    second's name replaces the first's, their arguments are concatenated, and `robust_parse` takes the first object
    of the two. `CompleteIsWhole` speaks of calls in one frame.
  - Google's usage is read only in a frame that has no text, call or finish reason (`google.rs:344`), and lost in
    others. `CompleteIsWhole` demands it of the former (`CountsAlone`).
  - An id or a name that comes again as an empty string replaces the one before
    (`stream/tool_call_accumulator.rs:57`), and `Message::validate` then refuses the next request. One that is
    missing is "unknown" in a stream, and "" in a whole answer.
  - Arguments that are no JSON are repaired, or kept as they are, in a stream (`stream/tool_call_accumulator.rs:102`);
    OpenAI's decoder of whole answers keeps the string (`openai_compat.rs:274`). Empty arguments are {} in the one and
    the string "" in the other. `CompleteIsWhole` compares calls that have an id, a name and JSON.
- A body that ends cleanly before `Done` is a complete response (`stream/stream_processor.rs:66`).
- `stream()` sends its request outside of `timeout` (`base.rs:306`), which `base.rs:421` says
  covers it.
- `Exclusive` tools run beside the safe and the category groups in a plain batch
  (`tools/executor.rs:292`), although `lellm-core/src/tool.rs:102` calls them globally
  exclusive; the durable batch runs them last (`tools/durable.rs:79`).
- A panic in a serial group reports the calls of the group that had already finished as
  errors (`tools/executor.rs:323`): `ReportsAreTrue` names the exception.
- `tool_choice` is not sent in any round of the loop, the first included
  (`config.rs:260`), against `docs/DESIGN.md:1053`.
- A consumer that disconnects does not cancel the loop (`event_bridge.rs:20`); the model's
  `Leave` changes nothing but the channel.

## 7. Not modelled

- *Whole components*: the derive macros (code at compile time), the facade (re-exports), the agent
  templates (a graph of agents made out of prompts, with no control of its own beside the graph's).
- *Graph*: what nodes compute; serialisation of states and records; the inline pass of the compiler;
  the texts of diagnostics; `max_visits` of an edge, which no run reads; `BufferedSink`; `list`, load
  by id and delete by id of the checkpoint stores, which no executor calls; version and signature
  mismatches (the fingerprint is in `GraphBuild`). In `GraphBuild`: a nested graph without a declared barrier, which
  ends in `BarrierHandlerMissing` if an inner node pauses all the same; which branches a condition was made with
  (it may go anywhere); and a durable run's look at its cancellation token.
- *Agent*: durations and token estimates, which are free choices at the guards that ask; truncation of
  results; the non-streaming invoke of the LLM invoker, which the loop does not call; the approval
  barrier of the ReAct graph, which `invoke` and `invoke_stream` refuse at the start for want of
  a handler and which `DurableRun` models; cancellation of a durable batch; a change of a
  tool's `replay_version` or policy between two processes; `set_conflict_policy` on a registry in use.
- *Providers*: the wording of texts and errors, how broken JSON in
  arguments is repaired (what it is repaired to is a constant), the token usage of a whole answer, the mock
  provider.
- *MCP*: keep-alives of a stream, the bodies of tools, the subscriptions a server accepts and never serves
  (`SubscriptionManager::notify` is called by nobody), wire records without influence on control.

## 8. Plan

The order was by how much of the system's promise rests on a part: durable runs, the transport
under every MCP tool, the registry, checkpointed runs, the agent loop, the stream of a plain run,
streamed answers; then the parallel node, the builder and its analysis, the MCP server, and the
codecs and the agent's setup as functions that the loop and the streams go through. What
follows:

1. Models of the compiler's inline pass, compared with the graph before it, and of the templates'
   graphs over `AgentLoop`.
