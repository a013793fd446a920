# adk-rs in TLA+

A verification project for [adk-rs](../src/README.md), a Rust framework for LLM
agents: agents run under a *runner* that streams their events to the caller and
persists them in a *session store*; an *HTTP server* and an *A2A server* expose
runners to clients; agents call models, tools, MCP servers and remote agents.
The modules are written from the code under `src/src`; paths below are relative
to it.

## 1. The system

| Part | State | Operations | Talks to |
|---|---|---|---|
| Runner (`runner/runner.rs`) | `active`: invocation id -> cancellation token; per invocation a context with the *live session* | `start`, `resume`, polling the returned stream, dropping it, `cancel` | agents (polls their event streams), session store, plugins, compaction |
| Session stores (`services/mem/session.rs`, `services/sql/*`) | sessions (log of events, state), `app:` and `user:` state | create, get, list, delete, append (locked) | called by the runner and by HTTP handlers |
| LLM agent (`agents/llm_agent.rs`) | request contents, iteration, resumed ids | model call, tool dispatch through confirmation and consent, transfer, escalate, pause, replay | model, tools, live session |
| Workflow agents (`agents/{sequential,loop,parallel}_agent.rs`) | position, checkpoints in the log | run sub-agents in order, in a loop, in spawned tasks over a channel | sub-agents |
| Compaction (`runner/compaction.rs`, `core/event.rs`) | markers in the log | choose a window, summarise, hide what is covered | runner, LLM agent |
| A2A task service (`a2a/task_service.rs`) | task records, a broadcast channel per task, push configurations | create, status, history, artifact, subscribe, cancel | A2A server, push notifier |
| A2A server (`a2a/server.rs`) | one handler per request, one spawned drain per `message/stream` | `message/send`, `message/stream`, `tasks/*`, push configurations | task service, runner |
| Push notifier (`a2a/push_notifier.rs`) | one subscriber task per configuration, a map of their handles | register, unregister, deliver with retries | task service, webhooks |
| A2A client (`a2a/client.rs`) | the request of one run | send, read SSE frames, turn them into events | A2A server, its own runner |
| Authentication (`auth/*`) | cached credentials, pending consents | resolve, exchange, refresh, begin and complete a consent | tools, the runner's preprocessor, an authorization server |
| Model providers (`providers/*`) | Gemini's map of explicit caches; decoders of one stream each | build a request, send with retries, decode a stream | model servers |
| MCP client (`mcp/*`) | pending calls, the writer's lock, a session id, a cached tool list | connect, call, list | an MCP server over stdio or HTTP |
| HTTP server (`server/*`) | none of its own; handlers with session snapshots | sessions, `run`, `run_sse`, artifacts | session store, runner, artifacts |
| Artifacts, memory (`services/fs.rs`, `services/mem/*`) | versioned files; texts and vectors | save, load, delete, list; add, search | runner, tools, HTTP server |
| Tools, plugins, code execution, evaluation, CLI | little or none | | |

What is hard in it, and what has to be right:

* **Runner and store.** Every invocation works on its own snapshot of the
  session and merges its events into the store one by one, in four separate
  critical sections; the agent has pushed the same event into the live session
  already, and parallel branches interleave their pushes. Sessions are created
  on demand, and deleted under running invocations. The stored log must stay an
  append-only log without duplicates, in the order callers saw; the state must
  be the replay of the log.
* **SQL stores.** Each call is several statements; a merge of two state columns
  must not lose a key, a failure must not be reported as success, and a read of
  four statements must not show a value without its event.
* **Cancellation.** The token is registered by `start` and deregistered by a
  guard that lives inside a lazily polled stream. `cancel` must reach a run
  until it ends, and only until then.
* **Agents.** A pause (confirmation, consent, long-running tool) must suspend
  every enclosing workflow, and a resume must continue where it stopped: no
  sub-agent skipped or run again, no confirmed tool run twice, every call
  answered, by its owner, before the model is asked again.
* **Models.** A streamed response must be what it would have been unstreamed,
  with its signatures; what an agent keeps must be sendable to every provider;
  a cache shared by concurrent calls must never change an answer or fail a call.
* **A2A tasks.** The run's drain, `tasks/cancel` and the handlers of the same
  task write its status independently; statuses are written under a mutex and
  broadcast after it, into queues that overflow. A task must be settled with
  all of its output whenever a drained run ends, every stream of updates must
  end, the remote caller must learn how the run ended, webhooks must get the
  final status and be stopped when (and only when) replaced.
* **Compaction.** History must hold each event or a summary that saw it, and
  must not separate answers from calls.
* **Auth, MCP, HTTP, artifacts.** Single-use consents that can be retried;
  refresh tokens that are replaced under concurrent refreshes; answers routed to
  their calls across timeouts and drops; clients that are told of events and
  artifacts that other requests delete.

`PROJECT.json` lists the hazards at their lines, with the properties that cover each.

## 2. Modules

| Module | Models | Uses |
|---|---|---|
| `EventLog` | what is said of a session's log: no duplicates, the selection of some of its events | |
| `SessionLog` | what a session store promises: per session, absent or an append-only duplicate-free log | `EventLog` |
| `InMemorySessionService` | the in-memory store and the session record | `EventLog` |
| `Runner` | the runner over that store | `InMemorySessionService`, `SessionLog` (refinement) |
| `SessionTable` | what the SQL stores promise: rows that change one call at a time | |
| `SqlSessionService` | both SQL stores, statement by statement, with their locks | `SessionTable` (refinement) |
| `WorkflowAgents` | trees of sequential, loop and parallel agents under a runner, across resumes | |
| `LlmAgent` | LLM agents of one tree in one session, over several messages | `EventLog` |
| `Compaction` | windows, markers and the assembled history, with overlapping invocations | |
| `ModelWire` | contents and the three providers' wire formats, JSON of a part | |
| `ModelStream` | decoding and aggregating one streamed response | `ModelWire` |
| `ModelClient` | bodies, retries and Gemini's explicit cache under concurrent calls | |
| `TaskService` | task records and broadcast channels | |
| `A2aServer` | request handlers, drains, cancels and resubscribes | `TaskService` |
| `RemoteA2aAgent` | the A2A client, composed with the server | `A2aServer` |
| `PushNotifier` | push configurations and their subscribers | `TaskService` |
| `CredentialManager` | resolve, consent and refresh against an authorization server | |
| `McpClient` | the MCP client over its two transports, and its server | |
| `ArtifactService` | versioned artifacts, in memory and as files | |
| `ApiServer` | the HTTP handlers over store, runs and artifacts | `InMemorySessionService`, `ArtifactService` |
| `MC<module>` | a small instance of each specification | |
| `EventLogProofs` | lemmas on logs, for the proofs below | `EventLog` |
| `RunnerProofs` | theorems about `Runner` and `Compaction` | `EventLogProofs` |
| `SqlSessionServiceProofs` | theorems about `SqlSessionService` | |
| `WorkflowAgentsProofs` | theorems about `WorkflowAgents` | `EventLogProofs` |
| `LlmAgentProofs` | theorems about `LlmAgent` | `EventLogProofs` |
| `A2aProofs` | theorems about `A2aServer`, `RemoteA2aAgent` and `PushNotifier` | `EventLogProofs` |
| `ClientProofs` | theorems about `McpClient`, `ModelClient` and `CredentialManager` | |
| `ApiServerProofs` | theorems about `ApiServer` and `ArtifactService` | `EventLogProofs` |

Each module states a type invariant (`TypeOK`; `ArtifactTypeOK` is part of `ApiServer`'s). A module whose theorems
share a proof module with another's has names of its own for it, and for its specification: `CompactionSpec`,
`ModelSpec`, `CredentialSpec`, `NotifierSpec`, `ClientSpec` (the remote client with its server).

### Runner and session store

A *handle* `h` is one call of `start` or `resume`, and the stream it returned.
Its `pc` follows the code:

| `pc` | Place in the code | Actions |
|---|---|---|
| `new`, `create`, `insert` | `load_or_create_session`; `create_session` before and after `contains_key` | `Load`, `CreateCheck`, `CreateInsert` |
| `loaded` | before `active.insert` | `Register` (with the preprocessors) |
| `live`, `scoped`, `mirror` | the critical sections of `append_event_locked` | `AppendLive`, `AppendScoped`, `AppendMirror` |
| `before_run`, `ready` | plugins; the stream exists and has not been polled | `BeforeRun`, `FirstPoll`, `DropUnpolled` |
| `awaiting` | `s.next().await` | `AgentEmit`, `TakeEvent`, `AgentEnd`, `AgentError` |
| `hook` | `plugins.on_event`, then suspended at `yield` | `Hook` |
| `compact` | after `after_run(None)` | `Compact` |
| `done`, `dropped`, `failed` | the stream ended or was dropped after / before its first poll; `start` returned an error | |

`Cancel`, `CancelHandle` and `Delete` belong to other callers. The variables are
the fields of the code (`sessions`, `active`, the context's `live` session, the
`seed` snapshot of an append) and two histories, `yielded` and `cut`, which only
the properties read.

Abstractions. An event is its identity `<<handle, number>>`: 0 the user event, then
the agent's events, last the compaction event. Every event carries a state delta,
and a session's state is the event that wrote it last; the `app:`/`user:` slots
are the set of events whose deltas reached them. A partial event is not
persisted and changes nothing. The agent is what the runner sees of it: branches
that push an event into the live session (LLM agents) or do not (workflow agents
and a few markers) and hand it over in any order, an end or an error. `start` without
a session id always creates a fresh session and is not a call of its own. An
in-memory append has no `await` inside, so a stream is never dropped in the middle
of one; other threads still run between its critical sections.

### SQL session stores

One transaction per call, one action per statement (`InsertEvent`, `SelectState`,
`UpdateRow`, `Upsert`, `InsertSession`, `DeleteEvents`, `DeleteRow`, `Commit`); what it
writes is kept with the transaction until it commits. SQLite is one lock (`Database`),
taken by the first write; PostgreSQL has one per row, and `SELECT .. FOR UPDATE` takes it
where there is a row. `Abort` is a failed statement, a busy database, the victim of a
deadlock or a dropped future; a commit whose answer is lost is `Commit` with a failed
call. `get_session` is four reads of committed data. The abstract `SessionTable` allows the
two things the code does when a call found no row: an append writes over a session created
since, a delete leaves it.

### LLM agent

One invocation at a time, many messages. `pc` is the place in `LlmAgent::run`: `begin`
(`before_agent`, the request), `replay` (`replay_resumed_tool_calls`), `head` (the loop's guards),
`ask` (the model), `tools` (`dispatch_tool_call` for each call of the turn), `idle` between messages. A call is
the number of its id. `Gate` is the order of the code: confirmation, then consent, then the
tool, whose effect is in `Does`. `EmitAnswers` is the end of a turn in the order of the
code: transfer, escalation, pause, final answer, the model again. A replay dispatches the calls of the message in the order in which the message lists their ids, which may be any.
`contents` is the request kept by hand, `log` the session. Histories: `ran`, `approvals`, `cut`. The calls of one turn run one after the
other, as in the code.

### Workflow agents

An agent is its path from the root, `Kind` gives the tree. The streams of the code are
pulled: an item that a leaf yields goes up through the pipelines above it in one poll, to
the top of its *task* (the root, polled by the runner, or a child of a parallel agent,
polled by a spawned task), and everything below is suspended until it is taken (`hand`).
The runner takes it (`Take`), or the branch sends it into the bounded channel (`Send`), where
the merged stream receives it (`Receive`). What one poll does between two items
is one action: a pipeline's sub-agent has ended and the pipeline checks the flags, then
returns, yields a checkpoint or enters the next one (`NextInSequence`, `AfterCheckpoint`,
`NextInLoop`). A stream that is dropped takes its whole task's streams with it; spawned
branches stay and notice at their next send (`SendFails`). `Resume` starts a new
context over the persisted checkpoints `ckpt`; branches left over from the run before are not
followed further, since nobody reads their context. A leaf is an LLM agent that emits
events and then finishes, pauses, escalates, fails or sees the cancellation. The names of agents are taken
to be unique, as `base.rs:14` asks. `made`, `got`, `finished`, `stopped` and `cuts` are
histories for the properties.

### Compaction

An event has a serial `id`, the `time` of a clock when it is made (two events may get the same), and
its place in the log when it is stored, later: the user's event waits for the preprocessing of credentials
(`Begin`, `Store`), an LLM agent pushes its events to its live session (`copy`, taken when the invocation
begins) and hands them on through the channels of parallel branches, and the runner takes each out of the
copy and appends it to copy and log (`Make`, `hand`, `Store`). `End` computes the window on the copy;
`Summarised` makes and stores the marker with the window's range and the events it saw. `Window`, `Due`,
`CoversOf` and `Raw` are `compaction_window` and `history_with_compaction`: a marker covers what is before it in the
log and has a time in its range. A message may answer a call that an earlier, paused invocation left open.
A range is of the times at the window's ends, so that an event which `Overtook` an older one on its way
to the log can be in the range of a marker that never saw it, or out of the range of one that did. The properties
say what holds but for such events. The log is the in-memory store's, in the order of the appends.

### Models

`ModelWire` has a part as a kind, a body of tokens, a signature and an id, and the request
each provider's `convert.rs` makes of a history. `ModelStream` lets a provider send any
response of `Plans` in its own framing (Anthropic block by block with late signatures, OpenAI
fragments by index, Gemini one response per event), ended in order, early or by an error; the
agent merges the chunks (`Merged`). `ModelClient` has calls with the attempts of
`send_with_retry` and the slots of `resolve_cache`: the lock is held by `Hit`, released in `Miss`,
and taken again by `Created` and `CreateFailed`. The server is external: it creates,
loses and evicts entries, and its answers may be lost.

### A2A

A task is identified with the `message/*` request that creates it, since ids are random.
`hpc` is the handler (`start_task`, then the answer or the stream of
updates), `dpc` the loop that drains the run (awaited by `message/send`, spawned by
`message/stream`), `cpc` and `wpc` the calls of `tasks/cancel` and
`tasks/resubscribe`. Writing a status or an artifact and broadcasting it are two
actions, because the mutex is released between them; so are the check and the write of
`cancel_task`. A receiver has a queue that drops its oldest update when it is full.
The runner is its interface: `start` may fail, the stream yields up to `MaxEvents`
events and ends or fails, a flipped token changes nothing by itself (an agent may or may not
see it in time). A client can only cancel or follow a task whose id it was told
(`Known`). `Disconnect` drops a handler at any of its suspension points.
`RemoteA2aAgent` reads the server's frames (`ReadFrame`) and answer (`ReadAnswer`) and yields events
(`heard`); its broken connection is the server's `Disconnect`.

`PushNotifier` has `register` as three steps (`RegisterRemoves`, `RegisterSpawns`,
`RegisterInserts`), because other calls run between taking the old handle, subscribing and
inserting the new one, and the two deletions of a delete call as two. A subscriber receives, posts with retries and
removes the entry of its configuration when it ends; an abort takes effect at its next
await. The run of the task is reduced to the updates it broadcasts and the status it ends with; it may be
canceled at any time before a terminal state, as in `A2aServer`, and dropped with the caller of `message/stream`
(`RunDropped`). The `working` update is left out: `start_task` sends it before anyone but itself has the
task's id (`server.rs:870-896`), so no subscriber of a set call hears it. `muddled` is the
history of the configurations that one of the three races of the code has touched.

### Authentication, MCP

`CredentialManager` has one tool and one user. A token is a number, a refresh token and an
expiry are named by the token they came with. `resolve` and `complete_consent` are one action
per await; the authorization server may replace refresh tokens (`rotates`), and a code buys one
token. `McpClient` has a call from its id to its end: over stdio the entry in `pending`, the
writer's lock, the body and the newline, the answer, the timeout; over HTTP the POST, the head,
the SSE stream. The server reads complete lines, answers in any order, asks with ids of its own, stops
reading, exits or restarts. A request of its own that has the number of a call is taken for its answer, null; when it comes
before the call waits for its answer, the null stays in the call's channel (`early`) and is returned then. Over HTTP
every response may name the session id that is echoed from then on (`Captured`).

### HTTP server and artifacts

A request is a handler with its snapshot of the session; an append is one step (its
critical sections are in `Runner`), a run is its user event, events that may announce an
artifact, and its end. A create imports events one by one, with ids that the client chooses and may repeat: the
answer is the handler's snapshot, where a repeated event is twice, and the store has it once. The in-memory artifact
service is one step per call, the file service one per file operation: directory, scan, open (which truncates), write,
read; a removal takes entry by entry, those made meanwhile too (`Unlink`, `Removes`), and then the directory, and
may fail at any of them (`RemoveDir`). A run that is dropped with its client (`Disconnect`) gives up the
save of its tool between two file operations; the one it waits for goes on without it, which is the
making of the directory, or the open and the write of the file together, one blocking task (`Abandon`). Other handlers are
not dropped: over the in-memory store create, patch and delete have nothing to wait for, and a dropped load or artifact
delete answers nobody while its file operation goes on as in the model. The history `stale` has the events whose artifact was deleted after it was saved, whether or
not anybody has been told of it yet. Resuming through `/run` with an `invocation_id` is in module `Runner`.

## 3. Runs

| Run | Checks | Instance, distinct states |
|---|---|---|
| `runner` | no event twice; store order = yield order; state = replay; registered exactly while in flight; the store implements `SessionLog` | 2 calls (the second may resume the first), 1 session, an agent with 2 events in flight beside one that emits none, creation on demand, deletes at any time; 1.5 million |
| `sql` | acknowledged appends are durable; a read shows no value without its event; both stores implement `SessionTable` | 3 appends, 2 of them to one `app:` row, a create, a delete, a read; SQLite and PostgreSQL; failures and lost answers; 1.4 million |
| `workflow` | checkpoints count finished sub-agents only; nothing begins after a pause or an escalation above it; finished steps not run again; runs and spawned tasks end | a leaf, then a parallel agent over a sequence of two leaves and a loop of two iterations; channel of 1; 1 resume, resumable or not; 410 thousand |
| `llm_agent` | confirmed tools run at most as often as approved; requests are the conversation; calls are answered before the model is asked, by their owner | 2 agents that can transfer to each other, 7 tools of all kinds and an unknown one, 3 messages, 3 calls, faults; 1.4 million |
| `compaction` | the history's summaries saw what they stand for; answers keep their calls | 3 invocations, 2 at a time, agents make events up to the third and 2 are on their way at once, interval 1, overlap 1; 2.3 million up to symmetry |
| `model_stream` | streamed = unstreamed; signed thoughts go back as they came; every answer finds its call at every provider | 3 providers, all responses of up to 3 blocks of up to 2 fragments, interleavings, early ends, errors; 91 thousand |
| `model_client` | a request reads its own prefix; an entry serves no more calls than configured; no call fails because of the cache | 3 calls, 2 prefixes with a common system instruction, 1 retry, 2 calls per entry, 2 entries; 2.1 million |
| `remote_a2a` | settled tasks have all output; drained runs settle; resubscribes end; the remote caller learns how the run ended; its calls end | 1 request of either method, 1 cancel, 1 resubscribe, 3 events, queues of 2; 119 thousand |
| `push` | one subscriber per stored configuration outside the three races; none is stopped for another's sake; the final status is posted | 2 registrations of one id and a deletion of all, or of two ids and a deletion of one; 1 cancel at any time, runs that complete, pause, fail or are dropped, queue of 1, 2 attempts, end of the server; 1.0 million |
| `auth` | a failed redirect can be retried; the stored refresh token can be used | 2 tool calls, 2 callbacks of one flow, 6 kinds of configuration, 3 tokens, failures at every await; 889 thousand up to symmetry |
| `mcp` | a call gets the answer to its own request; only dropped calls spoil lines; calls end | the handshake, a call, two lists, both transports, one request of the server's own; 385 thousand |
| `api_server` | clients find what they were told of; a deleted session comes back only through a request that held it; announced artifacts load | 3 requests: `run_sse` or create; `run`, patch or load; delete, load or artifact delete; both artifact services; up to 2 imported events; 1.5 million |

Together the runs take every action of every specification. For each property there is a
mutant of the code in `PROJECT.json` (a dropped guard, a changed order, a missing reset)
that the same run refutes.

**The bounds.** Two handles are enough for every pairwise race on a session; an
interference between three would need one of them to change what another has snapshotted
or registered, which two already show. Two agent events are the least that can be
pushed in one order and handed over in another. One session: sessions share only the
`app:`/`user:` state, which is in the model. For SQL two appends race for each row and the
third runs beside both. One A2A task: tasks share nothing but the runner; queues of one or two
overflow with the updates of a run (32 in the code). The tree of `workflow` nests every kind of
agent in another, a channel of 1 fills with the first item (64 in the code), and one resume shows every way to
leave a run. For LLM agents three messages are a call, its
confirmation and the same decision sent again. Three invocations that may all be compacted have
markers whose overlaps reach behind the ones before, and two events on their way at once overtake each other. Three blocks are the least with something
between two thoughts or two calls. Two model calls race to create one entry and the third
uses what they leave. Two callbacks have the one race of a flow; three tokens are a
grant, a refresh and a second refresh. In `mcp` four calls are one more than can be
writing, waiting and dropped at once. Two versions of an artifact are
the least with a latest one, and two imported events the least that can have one id. All specifications are finite and stop when all calls have
ended, so deadlock is not checked.

**Fairness** is assumed in `WorkflowAgents`, `RemoteA2aAgent`, `PushNotifier` and `McpClient`, always weak, and
only of what the async runtime guarantees: a future that is ready is polled, a timeout
fires, a connected client that reads goes on reading, and a run is finite (`max_iterations`,
`MaxEvents`; model and tool calls that return). Nothing is assumed of people and other
programs: nobody has to call, cancel, disconnect, drop, pause or resume, an MCP server
need not answer and a webhook may fail every time. In `PushNotifier` it is
enough that the runtime goes on with something that is ready, because everything takes finitely many steps.
A write to a child process goes on only as long as the child reads,
and the property `CallEnds` of `McpClient` says so.

## 4. Proofs

Eight modules prove lemmas and theorems, about twelve specifications, for every value of the constants
that their named assumptions allow. The assumptions only give the constants their types, keep names
of different kinds apart (`HandleAssumption` of `Runner`: `None` is no handle) and make bounds numbers; two sets have to be
finite, the calls of `McpClient`, since their ids are counted, and the agents of a tree, since sub-agents are numbered.

Every safety theorem has one shape: an invariant `I`, the lemmas `Init => I` and `I /\ [Next]_vars => I'` (the
second with a case for each action), and `I => Property`. Where a table says "by `A`", `A` has been proved
before and is assumed in the step; every step also assumes type correctness.

**Runner** (assumes `HandleAssumption`, `EmitsAssumption`, `AutoCreateAssumption`, `EventAssumption`, `NoEventAssumption`)

| Theorem | `Spec =>` | Inductive invariant, and why it is needed |
|---|---|---|
| `TypeCorrect` | `[](TypeOK /\ CurrentEvent)` | both together: the types after `AppendMirror` need the event in hand to be of one of the three kinds |
| `CancelReachesExactlyInFlight` | `[]RegisteredWhileInFlight` | `RegistryInv`: a call that has not registered has an id nobody shares; one that has, and is alone under its id, owns its entry until it ends |
| `EventsLoggedOnce` | `[]NoDuplicateEvents` | `LogInv`: an event in any log, live session or snapshot was issued by its handle, so a new one is in none of them; the one to be appended is not in the live log (`CurrentNotLive`) |
| `ReceivedInStoredOrder` | `[]PersistedInYieldOrder` | `WriteInv`: unless the handle was cut, its session is there, what it has still to append is not in it, and its agent's events are there as received, with the one in hand once `AppendMirror` has put it there. Without "still to append is not in it" the mirror could skip an event the caller then sees |
| `StateFollowsTheLog` | `[]StateIsReplay` | itself, by `WriteInv`: the event an append writes is the last of its log, because it was not there |
| `StoreImplementsLog` | `ImplementsSessionLog` | each step is a step of `SessionLog` or a stutter; by `LogInv` for the log that an append restores, and `CreateInv` for creation on demand |

**Compaction** (in `RunnerProofs`; assumes `IntervalAssumption`, `BoundsAssumption`)

| Theorem | `CompactionSpec =>` | Inductive invariant, and why it is needed |
|---|---|---|
| `CompactionTypeCorrect` | `[]CompactionTypeOK` | `CompactionInv`, below |
| `NothingKnownIsLost` | `[]Remembered` | `CompactionInv`: a window reaches to the end of the copy and has every event of it from the window's first on (`WindowFacts`), and an invocation that summarises adds nothing to its copy (`WindowsOK`), so that its marker `Spans` the copy, by place: what the summary did not see is before the window's first event, and if its time is in the range it overtook that event (`MarkersOK`). The property alone says nothing of a window that is being summarised |
| `AnswersAreCoveredToo` | `[]AnswersKeepTheirCalls` | the same, with `AnswersOK`: an answer is not older than its call; and `HandsOK` and `CopiesOK`: what is stored after a marker was never in the copy of the marker's invocation, so that an answer it knew is before the marker. The last event of the window ends the range: an answer it knew is in the range unless it overtook that event |

**Workflow agents** (assumes `TreeAssumption`, `BoundAssumption`)

| Theorem | `Spec =>` | Inductive invariant, and why it is needed |
|---|---|---|
| `TypeCorrect` | `[]TypeOK` | `WorkflowTypes`, with the domains of what is indexed by agents |
| `StopIsHeeded` | `NothingAfterStop` | `TreeInv`. Above an active agent everything runs (`PathRunning`) and each pipeline is at its place (`ActiveAtPlace`); the pipelines above a leaf that has paused or escalated stay at it (`StoppedStay`); under an agent not begun nothing is active or has stopped (`FreshBelow`). That a pipeline does not go on needs to know why its sub-agent has ended: by itself, or paused or cancelled, or by an error or an escalation that is on its way up and will end what is above (`PipelineEnds`, `BranchEnds`). Since two agents part at a common ancestor (`Parting`), a leaf that begins next to one that has stopped is in another place of a pipeline, or in another branch of a parallel agent |
| `CheckpointedIsFinished` | `[]CheckpointMeansFinished` | `TreeInv` with `PassedDone` (what a pipeline has passed has run to its end), and `CheckpointsDone`: a checkpoint on its way to the log, in a hand or a channel, counts what has run to its end, as those in the log do |
| `FinishedStaysFinished` | `FinishedNotRerun` | `ResumeInv`, for resumable invocations that only a pause has stopped: a sequence with sequences only above it is past its checkpoint (`PastCheckpoint`), after a pause it only returns (`OnlyReturns`), and above a finished leaf some sequence has counted it, or is about to (`IsCounted`) |

**SQL session stores** (assumes `SqlAssumption`)

| Theorem | `Spec =>` | Inductive invariant, and why it is needed |
|---|---|---|
| `TypeCorrect` | `[]TypeOK` | itself |
| `AppendsAreDurable` | `[]AckedIsDurable` | itself: the commit that acknowledges inserts the event, and only a delete's commit removes one |
| `ReadsAreBacked` | `[]ReadIsBacked` | `HoldInv`: a call that found or wrote the row of its session has its lock until it ends (`RowLocked`), so that what an append merges into is still what is stored (`BaseIsState`). `ReadInv`: each value in a column is of a stored event (`StateIsBacked`, `SharedIsBacked`), and so is what a read has so far (`ReadSoFar`), unless a delete came in between |
| `TransactionsAreAtomic` | `ImplementsSessionTable` | by `HoldInv`: a commit is the one step of `SessionTable`, computed from what is stored at that moment, everything before it a stutter |

**LLM agent** (assumes `AgentAssumption`, `LimitAssumption`)

| Theorem | `Spec =>` | Inductive invariant, and why it is needed |
|---|---|---|
| `TypeCorrect` | `[]TypeOK` | `TypeInv`: between turns nothing is left of the last one; a call is dispatched once and by the agent that made it (`TurnInv`) |
| `OwnersAnswer` | `[]AnsweredByOwner` | `OwnersInv`, a part of `TypeInv`: the answers of a turn that are not in the log yet are to calls of the agent that runs |
| `ToolsRunAsApproved` | `[]RunsAsApproved` | `ApprovedInv`: the runs of a call, and one more while its approval in this message is unused, are at most its approvals |
| `CallsAreAnswered` | `[]AnsweredWhenAsked` | `AnsweredInv`: a call without an answer was cut or is in the turn that runs its tools |
| `RequestsAreConversations` | `[]RequestIsConversation` | `RequestInv`: while tools run the request is behind the log by its last entry, the model's calls |

**A2A server and client** (in `A2aProofs`; assumes `ReceiverAssumption`, `MaxEventsAssumption`, `TurnsAssumption`, and `NobodyAssumption` and `CapacityAssumption` of `TaskService`)

| Theorem | | Inductive invariant, and why it is needed |
|---|---|---|
| `ServerTypeCorrect` | `Spec => [](TypeOK /\ HasHead)` | `HasHead`: a drain that announces an artifact has one in its queue |
| `AllOutputSettled` | `Spec => []SettledHasAllOutput` | `ServerInv`: what the record has and what the drain has still to apply make up what the run has emitted. The record has the first messages and the chunks that are not waiting (`RecordOK`); the queue has the other messages, all of them and in order, and the chunks that wait (`QueueOK`). The property is about empty queues only |
| `ClientRefinesServer` | `ClientSpec => Spec` | each step of the client is a step of the server, or one the server does not see; so the theorems about the server hold of the two together |
| `ClientTypeCorrect` | `ClientSpec => []AllTypeOK` | with `QueueFits`: queued updates are about events of the run |
| `EndIsTold` | `ClientSpec => []StreamTellsTheEnd` | `TellsInv`: a call waits while its handler is there and subscribed (`CallInv`); the final status is the last update of the queue (`QueueTells`); as long as the queue cannot overflow, the first text has been heard or is queued (`NothingLost`); what was heard agrees with the outcome (`Told`) |

**Push notifier** (in `A2aProofs`; assumes `SetterAssumption`, `NoneAssumption`, `AsksAssumption`, `AttemptsAssumption`, `UpdatesAssumption`, and `NobodyAssumption` and `CapacityAssumption` of `TaskService`)

| Theorem | `NotifierSpec =>` | Inductive invariant, and why it is needed |
|---|---|---|
| `TypeCorrect` | `[]NotifierTypeOK` | with `TaskOfRun`: a run that began has a task record, and one that wrote its final status knows which |
| `OneSubscriberRuns` | `[]OneSubscriberPerConfig` | `HandleInv`: a handle in the map is of a call that has ended and of that key. `ConfigInv`, for each key that is not `muddled`: the calls about it do not overlap (`Apart`), what they have done so far (`Progress`), who runs and is stored meanwhile (`Subscribers`); the property alone says nothing in the middle of a registration |
| `WebhooksAreStoppedForAReason` | `[]StoppedOnlyIfReplaced` | the same: who is aborted was in the map, and outside the races its configuration was replaced |

**Authentication** (in `ClientProofs`; assumes `AuthAssumption`)

| Theorem | `CredentialSpec =>` | Inductive invariant, and why it is needed |
|---|---|---|
| `CredentialTypeCorrect` | `[]CredentialTypeOK` | itself |
| `FailedRedirectsCanBeRetried` | `[]RetryPossible` | `CodeOfFlow`: a callback that has exchanged its code has used a code of its own flow |
| `StoredTokensWork` | `[]StoredRefreshTokenLives` | `TokenInv`: a refresh token obtained and not stored yet is alive, and, if the server replaces them, nobody else has it, so nobody can have it replaced before it is stored; `ServiceInv`: without a credential service nothing is stored |

**MCP client** (in `ClientProofs`; assumes `CallAssumption`, `HandshakeAssumption`, `MaxAskedAssumption`, `NobodyAssumption`)

| Theorem | `Spec =>` | Inductive invariant, and why it is needed |
|---|---|---|
| `TypeCorrect` | `[](TypeOK /\ Counted)` | `Counted`: the counter is one more than the number of calls that have an id; without it nothing bounds the ids |
| `AnswersReachTheirCalls` | `[]AnswersAreOwn` | itself, with `EarlyAsked`: what is in the channel of a call before it waits has come with a request of the server's own |
| `LinesAreWhole` | `[]OnlyDroppedSpoil` | `LineInv`: who writes holds the lock, and the line not ended yet has, before the bytes of the call that writes, only those of dropped calls |

**Model client** (in `ClientProofs`; assumes `ClientAssumption`, `NoneAssumption`)

| Theorem | `ModelSpec =>` | Inductive invariant, and why it is needed |
|---|---|---|
| `ModelTypeCorrect` | `[](ModelTypeOK /\ EntriesOK)` | `EntriesOK`: the entry that a slot names (`SlotOK`), that a call has created and not put into its slot yet, or that its body refers to (`CallOK`) was made for that prefix; an entry lost by the server keeps its name |
| `PrefixIsRead` | `[]ReadsItsPrefix` | a part of `EntriesOK` |
| `CacheIsOptional` | `[]CacheNeverInTheWay` | a part of `EntriesOK`: a request without reference to an entry has its prefix in it, and one with a reference that is refused is sent again without |
| `EntriesServeAtMost` | `[]ServesAtMostIntervals` | `UsesInv`: the calls that took an entry are at most the uses its slot counts (`UsesCounted`); an entry created and not in a slot yet has been taken by nobody (`OwnRefs`), and names not made yet neither (`TakersMade`). Without the first a slot could count less than was taken, without the second a call could put an entry into its slot that others have taken already |

**HTTP server and artifacts** (assumes `ApiAssumption`, `ArtifactAssumption`, `NoEventAssumption`)

| Theorem | `Spec =>` | Inductive invariant, and why it is needed |
|---|---|---|
| `TypeCorrect` | `[]TypeOK` | with `JobInv`: what a call of the artifact service knows at each of its file operations |
| `DeletedStayDeleted` | `[]DeletedUnlessHeld` | `HeldInv`: no request is about to write to a deleted session that none had found |
| `ToldEventsAreStored` | `[]ToldIsStored` | `LogInv`: a session that was not taken away has exactly the events of the run so far, in order (`Stored`); what a client of `run_sse` was told is those events (`Told`); a session that is not there was deleted. `BroughtInv`: the log has each event that a create has imported so far once, in the order of the snapshot without its repetitions |
| `AnnouncedCanBeLoaded` | `[]AnnouncedLoads` | `KeptInv`: outside `overlapped` and `stale` the file of a version is what its save wrote, from the save to the event and to the client that is told (`SavedInv`), since a name has one writer, at a new version (`FileInv`); what a load has found so far is no older than what its client hoped for (`LoadInv`). `ForgottenKept`: each entry that a removal takes is forgotten with it |

`EventLogProofs` has what these need of logs. Recursion over a log is a recursive function, `Selected`, in
`EventLog`; what it returns is shown from two facts about functions with that recursion, that there is one and that any two agree
(`SelectionExists`, `SelectionsAgree`), by induction for a *set* of numbers (`SetInduction`, from the well-foundedness of
the naturals), because the provers cannot take an induction theorem with an operator as its parameter. `MaxFacts`, on the
greatest number of a set, and `PathIsAgents` of `WorkflowAgentsProofs`, that the prefixes of an agent's path are agents, are done in the same way.

Only model-checked:

* Liveness (`CallEnds`, `FinalIsPosted`, `AllTasksEnd`, `RunSettlesTask`, `WatcherFinishes`), which is out of the prover's reach.
* The three properties of `ModelStream`, which compare folds over whole responses: that a fold over a stream of any length gives the
  response needs induction over data.

## 5. What the models show

Some properties hold only with an exception that the code makes; each names it in its
formula, so that everything else is checked:

* `RegisteredWhileInFlight` is about polled streams alone under their id: a stream dropped
  before its first poll, and a `start` that fails after registering, stay in `active`
  (`runner.rs:328`, against the comment at `runner.rs:45`).
* `OneSubscriberPerConfig` leaves out configurations in `muddled`: two registrations of one
  id, a set and a delete, or the cleanup of an ending subscriber that removes its
  successor's entry, leave a subscriber nobody can stop (`push_notifier.rs:94-118`, although
  line 80 calls registering idempotent).
* `FinalIsPosted` lets a subscriber end on `canceled` where the task was canceled: the drain writes the run's own
  status over it (`server.rs:503-519`), and that one is not posted. A run dropped with its caller has no final status.
* `OnlyDroppedSpoil` allows what a dropped call leaves in the line: the next request is lost with it
  (`mcp/stdio.rs:161-170`). `AnswersAreOwn` allows null where the server's own request has the number of a call.
* `StoredRefreshTokenLives` excuses a refresh token whose replacement a dropped or failed
  save has lost (`auth/manager.rs:140`), and a message that carries an old credential.
* `AnsweredWhenAsked` leaves out calls `cut` by an error, such as an unknown tool after others of the
  turn have run (`llm_agent.rs:485`).
* `CheckpointMeansFinished` leaves out cancelled invocations: a cancelled sub-agent is counted like a
  finished one. `FinishedNotRerun` leaves out a step that finished while another branch paused:
  it gets no checkpoint and runs again (`sequential_agent.rs:126`).
* `AnnouncedLoads` leaves out names that two saves on files have run over each other on: both take the same
  version (`services/fs.rs:72`), and a latest version that is still being written is an error. It also leaves out
  what was saved before its name was deleted, or while its files were being removed: with three requests, one can delete the name between another's save and
  the event that announces it, so that a client is told of an artifact that is gone. The instance of `api_server` was too
  small for that; the proof showed it.
* `ToldIsStored` counts an event that was imported twice under one id once, as the store does
  (`services/mem/session.rs:79`), and leaves out sessions that were deleted, or created a second time, under a
  request: two creates that both pass `contains_key` replace each other (`services/mem/session.rs:120-139`).
* `Remembered` and `AnswersKeepTheirCalls` leave out events that `Overtook` an older one: a marker's range is of the
  times of its window's first and last event in the log (`compaction.rs:202`), and not, as `event.rs:54-57` says,
  of the earliest and the latest. An event made later and stored earlier can be summarised and out of the range, so that it stays
  in the history beside its summary, or in the range and in no summary.
* `StreamedIsWhole` leaves out OpenAI streams closed early, which claim to have stopped.
* `StreamTellsTheEnd` is about runs nobody cancelled: the drain writes its final status over an
  acknowledged cancel (`server.rs:407-410`, against `types.rs:399`).

And some behaviour of the code is in the models without a property about it:

* After `start_task` has recorded the invocation id, the task reads `submitted` while its agent runs: the
  first record is written again (`server.rs:932`, against line 884).
* Of a streamed run the client gets the text of the first chunk only; later artifact updates have no
  parts (`task_service.rs:247`: `Vec::append` empties the list that is then broadcast).
* Inside a loop, a sequence finds its checkpoint of the iteration before and skips sub-agents (`sequential_agent.rs:105`).
* A replayed call that has to wait again does not pause the invocation (`llm_agent.rs:1001`, against line 538).
* The client-credentials flow asks for the user's consent and is never exchanged (`auth/manager.rs:147`).
* Over stdio the timeout of a call covers the wait for the answer and not the write before it
  (`mcp/stdio.rs:30`); a child that exits fails nobody, the calls wait for their timeouts. An HTTP session id that the
  server no longer knows is echoed for ever.
* A failed creation of a cache entry replaces an entry another call has just made; a 429 on a cached request
  invalidates a good entry.
* Compaction markers are not summarised again; events of concurrent invocations that a later range
  hides are in no summary (`Remembered` is about events the invocation knew), nor is an event that overtook an older
  one just before the window's first; a session paused at a call and compacted before its answer keeps the answer
  without the call.
* A session read from an SQL store has its events in the order of their times, not of the appends
  (`sqlite_backend.rs:213`). `Compaction` does not follow a clock that is set back, nor a resumed invocation, which keeps its id.
* `start_run` appends the state delta of a request before it refuses it (`adk_web.rs:365`), and a
  `/run` that fails midway answers 500 although its events are stored.

Outside of the models: a `Retry-After` that is infinite panics (`providers/common.rs:25`); an agent run as a tool pushes
its events into its parent's live session, where they are seen and never stored (`tools/agent_tool.rs:86`).

## 6. Plan

The system's concurrent and stateful parts are modelled, and every safety property of the runs but those of `ModelStream` is
proved. What could be added:

1. `ModelStream` as a step-by-step refinement of the unstreamed response, so that what is folded is a state and not a definition.
2. An agent run as a tool (`AgentTool`), which needs `LlmAgent` and `Runner` in one state space.
3. The chain of plugins at the points where `Runner` has one plugin.

## 7. Not modelled

* Memory services: searches over texts and vectors, without state that a second call could disturb beyond a list.
* The live session of Gemini, embedders, the interactions API: one connection, one caller, frames passed through.
* `AgentTool` and the OpenAPI tools: the first is a nested run of an agent on its parent's context, which needs
  `LlmAgent` and `Runner` in one state space; the second builds requests.
* Plugins as a chain: the runner's points where one can fail a run are in `Runner`.
* Code execution, evaluation, command line, telemetry, macros, schemas, serialisation other than of parts: input,
  output and data conversion without shared state.
