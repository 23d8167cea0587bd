# Formal model of VOLK AI

TLA+ specifications of the backend of this repository, model-checked with TLC
and, for most of the safety properties, proved with TLAPS for every number of
requests, tasks and events. Paths are relative to the repository root; `app/`
stands for `backend/app/`.

## 1. The system

A user talks to an agent in a *session*. The FastAPI backend keeps the session
as one MongoDB document, runs the agent as an asyncio task inside its own
process, and carries messages and events between the two over Redis streams.
The agent works in a Docker *sandbox*, which has its own small HTTP server. A
second product, *Claw*, gives a user a long-lived container with a gateway of
its own, reached through a Node plugin. A Vue client and a separate TypeScript
prototype for an editor complete the repository.

| Part | State it keeps | Operations | Hard behaviour |
|---|---|---|---|
| Session service (`agent_domain_service.py`, `agent_service.py`) | none: works on `Session` objects it loads | create, chat, stop, delete, shutdown | requests race; every object it holds may be stale |
| Agent task runner (`agent_task_runner.py`) | its flow | `run`, publish + store an event, handlers for failure and cancellation | cancelled at any await, interrupted by a new message |
| Task registry (`redis_task.py`) | `_task_registry`, `_execution_task` | create, get, run, cancel, done, destroy | registry and asyncio state must agree |
| Stream queue (`redis_stream_queue.py`) | two Redis streams per task, a pop lock | put, get (blocking), pop, is_empty | blocking read against task end; lock expiry |
| Session document (`mongo_session_repository.py`) | status, task id, events, counters | save (whole document), update_status, add_event, delete | whole-document save against field updates |
| Plan-act flow (`flows/plan_act.py`, `agents/planner.py`, `agents/execution.py`) | flow status, plan | plan, execute a step, update, summarise, wait | wait and resume through a new task; interruption |
| Agent memory and tool loop (`agents/base.py`, `models/memory.py`) | messages per agent | ask, invoke tools, roll back, compact | every tool call needs its answer |
| Claw lifecycle (`claw_domain_service.py`, `claw_repository.py`) | one document per user with its messages | create, provision, expire, delete, append | provisioning in the background; read-modify-write |
| Claw chat (`claw_service.py`) | event bus, chat state per user | send, subscribe, publish | two chats of one user; reconnecting clients |
| Claw gateway plugin (`claw/volk-ai-claw/src`) | socket, pending requests, run map | connect, request, prompt, disconnect | reconnects, late and duplicate answers |
| Sandbox shell (`sandbox/app/services/shell.py`) | process, output and console per session | exec, view, wait, write, kill | several readers and commands on one session |
| Sandbox supervisor (`services/supervisor.py`, `core/middleware.py`) | shutdown timer | activate, extend, cancel, auto-extend | timer against request |
| Users (`models/user.py`, `email_service.py`, `token_service.py`) | credits, e-mail codes in Redis | consume, send code, verify | read-check-write |
| Web client (`frontend/src/api/client.ts`) | token refresh in progress | refresh, retry | single flight |

What makes them correct, in one line each:

* **Sessions**: a session is RUNNING only while somebody is going to settle it;
  a stop reaches what runs; every stream ends in an event at which clients
  stop; no message is lost or answered twice; a deleted session stays deleted.
* **Flow and memory**: the step resumed after a question is the one that asked;
  the conversation sent to the model answers every tool call exactly once.
* **Claw**: at most one container per user in use; no message of the history
  lost; a catch-up snapshot and the live stream together show each chunk once.
* **Sandbox**: output is attributed to the command that wrote it; a cancelled
  or extended timer never shuts the sandbox down.
* **Users, client**: a counter counts every use; every queued request is
  released.

`PROJECT.json` lists the hazards of the code line by line, with the properties
that cover each.

## 2. Modules

| Module | What it is |
|---|---|
| `AgentSession` | the session service, task runner, registry, streams and session document as one concurrent system |
| `PlanActFlow` | the plan-act flow, its two agents and the executor's conversation, over several runs of one session |
| `PopQueue`, `StreamQueue` | what a message queue's `pop` promises, what Redis streams with a lock do, and that they keep it |
| `TaskShutdown` | the end of the backend process while tasks run |
| `SessionFields`, `FileLinks` | the unread count, shared flag and files of a session; signed links and the pages that make them |
| `Accounts`, `TokenRefresh` | accounts and verification codes in the backend; the web client's tokens |
| `McpTools` | MCP servers, their tools and names |
| `ClawLifecycle`, `ClawChat`, `ClawHistory`, `GatewayBridge` | a claw's document and container, its live chat, its merged history, the plugin in the container |
| `ShellSession`, `SupervisorTimeout`, `SandboxFiles` | the sandbox's shell, its shutdown timer, its file service |
| `MCAgentSession`, `MCSandbox`, `MCClaw`, `MCServices`, `MCProgress` | instances for TLC |
| `AgentSessionProofs`, `PlanActFlowProofs`, `StreamQueueProofs`, `ClawLifecycleProofs`, `SupervisorTimeoutProofs` | theorems and TLAPS proofs about the module of the name |
| `ServicesProofs`, `ClawProofs`, `SandboxProofs` | those about the components that `MCServices`, `MCClaw` and `MCSandbox` put together |

### AgentSession

The backend is one asyncio loop. Code between two awaits is atomic; at an await
anything else may run. A step of the model resumes one coroutine, runs it to its
next await, and includes the effect of the Redis or MongoDB command of that
await. What a coroutine read by an earlier command stays in its own state
(`snap`, `ref`, `cursor`) and may be stale at its next step.

| Variable | In the code |
|---|---|
| `exists`, `status`, `taskId`, `log` | the `SessionDocument`: its presence, `status`, `task_id`, `events` |
| `registry` | `RedisStreamTask._task_registry` |
| `exec` | `_execution_task` of each task: no task object yet, `None`, created but not started, started, finished |
| `rpc` | the await of `AgentTaskRunner.run` at which the execution is |
| `cancelling` | `cancel()` was called on the asyncio task and `CancelledError` not yet thrown |
| `event`, `emitted` | the event being published; how many this flow has emitted (a bound) |
| `input`, `output` | the streams `task:input:<id>` and `task:output:<id>` |
| `taken` | the messages popped so far (history variable) |
| `pc`, `snap`, `ref`, `cursor` | per request: its await, the `Session` it loaded, its local `task`, the last stream entry it read |

| Actions | Code |
|---|---|
| `Find` | the `find_by_id...` that starts chat, stop and delete |
| `Reuse` | chat on a RUNNING session takes `_get_task(session)`, which may be `None` |
| `CreateSandbox`, `GetBrowser`, `CreateTask` | `_create_task` with its up to three whole-document saves |
| `Put`, `StoreMessage`, `Run`, `ChatError` | the rest of the message branch and the `except` of `chat` |
| `Watch`, `Read`, `Loop`, `Disconnect` | the reading loop, with and without a message, and the client that leaves |
| `Stop`, `Delete` | `stop_session` (registry removal, cancellation, COMPLETED), `delete_session` |
| `Begin`, `NeverStarted`, `Exit` | the asyncio life of `_execute_task` and `_on_task_done` |
| `Prepare`, `Check`, `Pop`, `OpenFlow`, `MarkRunning`, `Emit`, `Store`, `Park`, `Peek`, `Settle` | `AgentTaskRunner.run` and the part of `PlanActFlow.run` that touches the session |
| `Fail`, `Cancelled`, `AbortStore`, `AbortSettle` | the handlers of `run` |
| `Restart` | the process restarts: memory is lost, MongoDB and Redis stay |

Deliberate abstractions. The flow is a free choice of events (`Emit`): any
number up to `MaxEvents` of events after which a client reads on, an error in
the middle, then a `WaitEvent` or a `DoneEvent`, or a failure. Title, plan, step,
tool and message events are one kind, because the chat loop treats them alike.
`log` is the set of stored events, named by writer and stream position. The pop
lock is always got: a stream has one consumer here, and `StreamQueue` has the lock. A Redis or MongoDB command does not
fail by itself (a failure in a handler would end the run as a second
cancellation there does, which is modelled). `update_*` on a missing document is
a silent no-op, as in the code, where the result that is tested is never false.
A watcher or a chat that reuses a task starts reading at any position up to the
end: the client sends the last event id it has seen.

### PlanActFlow

`AgentSession` treats a flow as a free choice of events; `PlanActFlow` is what is
inside it: `PlanActFlow.run`, the generators it drives (`create_plan`,
`execute_step`, `update_plan`, `summarize`), the tool loop `BaseAgent.execute`
below them and the conversation that outlives a run. A step runs the generators
up to their next await or yield.

| Variable | In the code |
|---|---|
| `session`, `stored` | `Session.status`; the plan of the last `PlanEvent` of the session (`get_last_plan`) |
| `inbox`, `sent` | the task's input stream; a bound |
| `pc` | the await or yield at which the run is, `"off"` between runs |
| `flow`, `plan`, `step` | `PlanActFlow.status` and `.plan`, the local `step` |
| `idx`, `got`, `iter` | in `execute`: the position in `message.tool_calls`, `tool_responses`, the turn of the loop |
| `memory` | the executor's memory: its last message, the calls of the last answer and which are answered; `lost` collects the calls that some request left unanswered (history) |
| `made` | a bound on the steps the planner invents |
| `asked`, `told`, `exhausted` | history: the step that asked, the steps reported as completed, a loop that ran out of turns |

| Actions | Code |
|---|---|
| `Start`, `Enter` | `run` before its loop: roll-back, status, last plan |
| `BeginPlan`, `TakePlan`, `StorePlan` | `create_plan` and what the flow does with its `PlanEvent` |
| `StartStep`, `RequestStep`, `Wait`, `FinishStep` | `execute_step` |
| `BeginUpdate`, `Revise` | `update_plan` |
| `BeginSummary`, `FinishSummary`, `Complete`, `Done` | the end of `run` |
| `Respond`, `Conclude`, `Exhaust`, `Unknown`, `Call`, `Invoke`, `SendResults` | `ask_with_messages` and the loop of `execute` |
| `Advance` | the status change after each generator |
| `NewTask`, `Rerun`, `Message`, `Stop`, `Abort`, `Crash` | the service and the runner around the flow: a new task, an old one run again, a message that interrupts at the next yield (`Yield`), a stop, a failure or cancellation at any await, the loss of the process |

Deliberate abstractions. One flow of a session runs at a time, so the memory an
agent has cached is the stored one; that the service does not always see to it is
a finding of `AgentSession`. A step is its identity and whether `is_done`: a
FAILED step is overwritten with COMPLETED before the plan is looked at again.
The steps the planner invents are new and pending. Consecutive yields of one
piece of code, such as title and message, are one. The planner has
`tool_choice = "none"`, so its conversation has no calls to answer and is left
out. A tool is a question (`message_ask_user`), a tool the agent has, or one it
does not have; retries of a tool end in a result or in the error text, which are
alike here.

### PopQueue and StreamQueue

`PopQueue` is what `pop` of `domain/external/message_queue.py` promises: messages
leave in the order they came, each to one caller at most. `StreamQueue` is
`redis_stream_queue.py`: `Acquire`, `Retry`, `GiveUp` are `_acquire_lock` (SET NX
EX, up to fifty attempts), `Look` and `LookAtNone` XRANGE, `Delete` XDEL, `Release`
and `Unlock` the compare-and-delete script, `Expire` Redis's own. A caller may be
cancelled, or its command fail, at each await (`CancelLock`, `CancelInside`,
`CancelRelease`, which differ in what the `finally` still does). `Late` says whether
a caller may hold the lock for longer than its ten seconds. `QueueSpec` is the
refinement: with `queue <- stream` and a caller holding what it has deleted, every
step of the stream is one of the queue or a stutter.

### TaskShutdown

The end of the process, `lifespan` in `main.py` down to `RedisStreamTask.destroy`
and `AgentTaskRunner.destroy`, while tasks run: the stores are closed first
(`CloseStores`), then the registry is walked with the position and size a Python
dictionary iterator has (`CancelNext`, `LoopEnds`, `SizeChanged` for its
RuntimeError), each runner is destroyed (`DestroySandbox`, `CleanUp`,
`CleanUpFails`), all of it within `wait_for`'s thirty seconds (`TimesOut`). The
executions end meanwhile (`Finish`, `Fail`) and leave the registry.

### SessionFields and FileLinks

What `AgentSession` leaves out of the session document. `SessionFields` has the
unread count, the shared flag and the list of files: routes that change one
field, chats that write the whole document back while a sandbox is created
(`Sandbox`, `Browser`, `Create`), readers that reset the count when they leave,
runners that publish before they count, and `_sync_file_to_storage` with its old
entry removed before the upload (`LookUp`, `Remove`, `Upload`, `UploadFails`,
`Add`). A chat that found the document before another one watched a task to its
end brings an old count back when it saves (`stale`, `revived`); nothing in the
code prevents it, so the model does not either, and the property about the count
makes an exception of such a count until it is reset. The files are a set of
entries, each of a path and the event that stored it: which of two entries of one
path a look finds is left open. `FileLinks` has files, the pages of a session that sign a link for every
attachment, one await each, and the links with their lives; deletion, sharing and
the clock run between them.

### Accounts, TokenRefresh

`Accounts` has login, registration, sending a verification code and resetting a
password, with one step for each command to the users collection and the cache:
what a request writes is what it read. `get_current_user` answers "anonymous" for
every caller, so the operations on the caller's own account and the credits reach
no document; `Accounts` and `SessionFields` say so where it matters.

`TokenRefresh` is one tab of the web client: `QueueUp`, `Lead`, `NothingToRefresh`
are the three ways into `refreshAuthToken`, `Refreshed` and `RefreshFails` its
ends, beside `Login`, `Logout` and tokens that expire. `Tight` says that nobody
logs in or out while a refresh is on its way.

### McpTools

`MCPClientManager` over a configuration chosen at the start: each entry is
connected, initialised and listed in turn (`Open`, `Handshake`, `List`), fails in
one of the ways it can (`Fail`), and is offered under composed names; `Resolve` is
how `call_tool` takes a name apart again. Names are short sequences over an
alphabet in which "mcp" is one character, since the prefix is what they may share.

### ClawLifecycle, ClawChat, ClawHistory, GatewayBridge

A claw from four sides. `ClawLifecycle` is the document of one user, and the
requests and background tasks that read it, wait and write it back: a step is one
command to MongoDB or Docker (`Find` and `Save` are the two of every update,
`AppendFind` and `AppendSave` those of a message), `Boot`, `Ready` and `Raise` the
provisioning, `Health` the look of `get_claw`, `ContainerEnds` and `Crash` what may
happen to a container and to the backend. `ClawChat` is the live side: two
messages that share `_chat_states`, the event bus, and WebSockets that subscribe,
are told what they missed and show what comes. Meanwhile the claw may be deleted,
by its user or because it expired, and made again (`there`): `append_message` then
stores nothing and raises nothing, and "done" is published all the same (`bereft`
holds the messages that were under way). An append is one step here, since
`ClawLifecycle` has its read and its save. `ClawHistory` is the merge
`_merge_histories` makes of two ordered sources with clocks of their own, one
native message a step.

`GatewayBridge` is the plugin in the container. A start makes a client and a
bridge (`Gens`); the client has one connection with its handshake, its timers and
its reconnection; the bridge has the three maps from prompts and runs to open
streams. Its `onReady` and `onClose` go to the bridge of the latest start, as the
closures of `index.js` do. The gateway is external: it accepts, refuses, answers
and ends what it likes.

### ShellSession, SupervisorTimeout, SandboxFiles

The three services of the sandbox. `ShellSession` is one session: commands that
terminate the process before them and wait for it (`Start`, `Terminate`,
`Create`, `Install`), readers that add what a process wrote to the session and to
its newest console record (`Read`, `ReadGarbled`, `ReadEnd`), and processes that
write and end as they like, with or without regard to SIGTERM. `SupervisorTimeout`
is the deadline: the user's calls, the middleware that extends it, timers that
sleep and then call supervisord in a thread, and the calls that stop this very
process.

`SandboxFiles` is the file service. A text is a sequence of units, the text that is
looked for, ends of lines of either kind and others; requests read and write a unit
at a time, others run between any two, and any step may fail and leave the file as
far as it was written. `Check`, `Piece`, `EndOfFile` are a read, also of a download,
which Starlette sends in chunks and uvicorn breaks off when it is not as long as it
was declared (both external); `Open` empties or makes the file, `Put` writes where
the last piece ended or, to append, at the end, `PutEnds` and `PutFails` end it; a
sudo write goes through the one temporary file they share (`Temp`, `Open`, `Put`,
`Unlink`), whose writing is one step, since only its removal and other sudo writes
meet it. `Answer` is what `read_file` makes of a text: without sudo a file opened as
text has its line ends turned into single newlines (`Plain`), a range of lines is cut
out and joined (`Joined`), and what is longer than `max_length` is cut and marked
(`Shorten`). A replacement writes that answer back, so it changes line ends, too;
`Wanted` says so. Three history variables say which requests are exceptions:
`before`, the text a request's file had when it was accepted; `crossed`, requests
beside which two writers were in each other's way; `torn`, requests whose file was
emptied or overwritten under them.

### MC modules

`MCAgentSession` defines the sets of requests that come together and the symmetry.
The other four put several components into one run: each EXTENDS one of them
(`ShellSession`, `ClawLifecycle`, `TokenRefresh`, `SupervisorTimeout`), whose
properties it checks by name, and has the others as instances.
Components that share no state need not be multiplied: in `MCSandbox`, `MCClaw`,
`MCServices` and `MCProgress` a variable `part`, chosen once, says whose behaviour
this is; that component's `Next` is taken and the others rest in an initial state.
The reachable states are the sum of the components', each sees all of its own
behaviours, and every property is an invariant (or a temporal property) of the
whole because the resting components satisfy it. All but `MCProgress` have the
components' bounds as constants, given in their configurations, so that the
theorems hold for all of them.

`MCProgress` states the fairness of all six components at once. That is no more
than the fairness of the part that moves: for the resting ones no fair action is
enabled that could not be taken, since those are initial states with no request
under way, a sandbox that was shut down (`TimerRests`), and a backend that was
(`ShutdownRests`).

### Mutants

Directly before some definitions stands a second one, marked "Mutant of", that a
plausible slip of the code would give. No specification uses it. `PROJECT.json`
names for each property of a passing run the mutant with which that run fails,
which shows that the property depends on that line.

## 3. Model checking

Sets of requests, tasks and messages are model values. Runs that expect no
violation:

| Run | Bounds | Question |
|---|---|---|
| `session_requests` | 2 chats with 1 stop, or with 1 deletion; 2 tasks; no extra events | RUNNING is always going to be settled, however requests race; the registry holds no finished or cancelled task; what the document keeps was published, also when a stale save brings a deleted session back |
| `session_clients` | 2 chats of which one's client may leave, or 1 chat, 1 watcher, 1 stop and 1 deletion; 1 extra event; 1 restart | a second message interrupts a flow, a client leaves, the process restarts: streams end with a closing event, and no message is processed twice |
| `session_liveness` | 1 chat, 1 watcher, 1 stop, 1 extra event, fairness | an execution that was started finishes; a reader with a closing event ahead is released |
| `flow` | 2 messages, 3 steps, 2 calls in an answer, 2 turns of the tool loop | a waiting session resumes at the step that asked with the answer in place; no step reported completed starts again; only a finished plan is summarised; which calls the model may find without a result |
| `queue_lock` | 2 callers, 3 messages, 2 attempts, cancellation at every await, fairness | the stream implements `PopQueue` while a lock outlasts its holder, and the lock is freed |
| `sandbox` | 2 commands, a write and a wait on one shell with 2 pieces of output each; deadlines of 0, 1 and 3 minutes within 6; 2 file requests of any kind on 1 file, with sudo and without, that may fail at each piece; texts of 2 units, one a CRLF; one range of lines; a read returns 3 units at most | see `MCSandbox` |
| `claw` | 2 creates, 1 look, 1 deletion and a crash of the backend; 2 messages with 1 client while the claw may be deleted, or 1 with 2 while it may be deleted and made again, 2 pieces; 3 messages in either history; 2 streams, 1 start over 2 connections | see `MCClaw` |
| `services` | 3 account requests, 2 mails; 2 chats, 2 events, 1 flip of the flag; 1 file, 1 page, 4 ticks; 2 servers out of 4 names; 2 calls, 1 stream, 2 users, 3 tokens | see `MCServices` |
| `progress` | 1 create with a look, the setting of a key and a chat; 2 commands at once and a kill; 5 minutes; 3 tasks; 1 stream and 1 fetch over 2 starts; 2 calls with a logout; fairness | creations settle, requests end, shutdowns end; the deadline is the one the user asked for last |

Why these bounds are enough. Two chats and two tasks are what every race of a
session needs: a stale and a fresh snapshot, a live and an abandoned task; the
third request stops, deletes or watches. `Mixes` names the sets of requests that
come together, so that one run holds several such races without their product.
Three steps of a plan let it be revised while one is done, one asks and one is
open; two messages let a session ask and be answered, or be interrupted, stopped
or run again; two calls are the least in which a question or an unknown tool
stands beside another call, two turns the least in which a loop goes on or is
exhausted. Two create requests, two commands, two file requests or two callers of
`pop` are the races those components are written against; a deadline needs three
different minutes, a lock two attempts, a merge three messages of which each is
within the window of the next. `CHECK_DEADLOCK FALSE` stands where a system rests
once its requests have ended.

Three more runs show where the code departs from what the repository says of it:

| Run | What it says | What TLC shows |
|---|---|---|
| `session_orphan` | "Stop an active session" (`backend/README.md:200`) | RUNNING is written by the flow, long after `_create_task`: two chats that load the session before that create a task each, `task_id` names only the later one, and a stop cancels only that |
| `claw_history` | "Append a message to the claw's chat history" | an append is a read and a save of the whole document: of two appends, or of an append and a save of `get_claw`, one is lost |
| `files_replace` | "Replace string in file" | `str_replace` writes back what a read returned, and a read is cut at its default length: where what is looked for occurs in that part, the shortened text with its "(truncated)" mark replaces the file, and the rest of a longer one is gone |

### Further disagreements

Each of these properties stands in its module, with the statement it quotes, and
is violated under the configuration named, kept beside the module, or with the
constants given.

| Property | Shown by | What happens |
|---|---|---|
| `AgentSession!NoMessageStranded` | `AgentSession_stranded.cfg` | a chat puts its message on the stream of a runner that has looked for the last time, and `run()` starts nothing |
| `AgentSession!DeletedForGood` | `AgentSession_resurrect.cfg` | `_create_task` saves a session loaded before its deletion, and a save inserts |
| `AgentSession!ResponseEnds` | `AgentSession_stuck.cfg` | a stop cancels a coroutine that had no turn yet; its reader waits in XREAD BLOCK 0 |
| `PlanActFlow!AskWaits` | all four bounds 1 | only `execute_step` turns a question into a wait; one that is asked in the summary is not waited for |
| `StreamQueue!ReturnedOnce` | `Poppers {p1, p2}`, `Late TRUE`, `Cancels FALSE`, `MaxPuts 3`, `MaxTries 2` | a holder that outlives its lock and the next one take the same message |
| `StreamQueue!NoneMeansEmpty` | `StreamQueue_lock.cfg` with this invariant | `None` is also the answer to a lock that was not got |
| `TaskShutdown!AllDestroyed` | `Tasks {t1, t2, t3}` | the loop over the registry meets a dictionary that changed |
| `TaskShutdown!ContainerRemoved` | as above | `destroy()` of a sandbox without a container name removes nothing |
| `SessionFields!SharedAsAsked`, `!FilesStay` | `SessionFields_unshare.cfg`; 1 chat, 1 path, `Faults TRUE`, 2 events, no flips | a stale save undoes an unshare; an upload that fails after the old entry was removed |
| `SessionFields!OneTaskPerDay` | 2 chats, 1 path, no faults or flips, 1 event | nobody has a document to charge |
| `FileLinks!UnshareEndsAccess` | 2 files, 1 page, `Deleting TRUE`, `LinkLife 2`, `ScreenLife 1`, `MaxClock 3`, 2 links | signed links outlive the flag |
| `FileLinks!SessionOpens` | as above | one deleted attachment makes the whole page fail |
| `Accounts!NewestStays`, `!ResetSticks` | 1 e-mail, 3 requests, `Serial FALSE`, `CacheFails FALSE`, `Resend 1`; and 1 password, `Kinds {"send", "verify"}`, `Expiry 3`, 2 mails, `MaxClock 5`, or 2 passwords, `Kinds {"login", "send", "verify"}`, `Expiry 2`, 1 mail, `MaxClock 2` | a late attempt writes an old code back; a login writes the old password back |
| `McpTools!CallReachesTool` | `Names` and `ToolNames` as in `MCServices`, `Kinds {"works"}`, 2 servers | a prefix that starts another takes its calls |
| `McpTools!OfferedIsCallable` | 1 name, 1 tool, `Kinds {"works"}`, 1 server | the agent looks tools up where MCP tools are not |
| `ClawLifecycle!ReturnsRunning` | 2 creates, nothing else | the second create resets a claw that has just become RUNNING |
| `ClawChat!CaughtUp` | `ClawChat_catchup.cfg` | pieces between the subscription and the catch-up are shown twice |
| `ShellSession!OutputStored`, `!OwnOutput` | 1 command and nothing else, `Garbled TRUE`, 2 pieces, `FairSpec`; 2 serial commands, 1 piece | a read that ends within a character ends the reader; an old reader adds to the newest record |
| `SupervisorTimeout!CancelHolds`, `!RestartsServices` | `SupervisorTimeout_cancel.cfg`, `SupervisorTimeout_restart.cfg` | a cancelled timer's call goes on in its thread; the restart stops this service before it starts the others |
| `SandboxFiles!OwnText` | 2 requests, 2 paths, `Ops {"write"}`, `SudoUse {TRUE}`, texts of at most 1 of 2 units, no ranges, `MaxLength 1` | two sudo writes share one temporary file |
| `GatewayBridge!ReadyIsServed` | `GatewayBridge_restart.cfg` | the old connection's `close` arrives after a restart and resets the new bridge |
| `GatewayBridge!EveryStreamEnds` | `GatewayBridge_stop.cfg` | after a stop there is no bridge left to tell its streams |
| `TokenRefresh!TokensAreTheUsers` | 1 call, 2 users, `Tight FALSE`, 3 tokens | a refresh that is answered after a logout stores a token again |

Some properties that hold make an exception of what the code lets happen, and say
so: `NoStrayContainer` of claws that were deleted, whose containers live on;
`DoneIsStored` of a claw deleted while a message is under way, where "done" is
published with nothing stored and no error (`claw_repository.py:70-71`,
`claw_service.py:142`); `UnreadIsOwed` of a count that a stale save brought back
(`agent_domain_service.py:83`); `AnsweredAsAsked` and `ReadsWhatIsThere` of files with
two writers at once, whose mixtures nothing excludes.


### Fairness

Weak fairness throughout: a coroutine that can go on does, a timer that is due
fires, and MongoDB, Redis, Docker and supervisord answer or fail. Each module
leaves out of its fairness what nothing obliges: that a client sends a request or
leaves, that a failure, a cancellation or a restart happens, that a process ends
by itself (only a killed one does), that a gateway accepts a connection. In
`GatewayBridge` the gateway answers a prompt and ends its run, which the plugin
relies on: it has no timer of its own for a run. In `TaskShutdown` only the loop
and the timeout are fair; that `destroy()` of a runner returns is not assumed.
That a flow ends is the bound `MaxEvents`: in the code the plan and
`max_iterations` bound it. `PlanActFlow` states no liveness: nothing in the code
keeps the planner from adding steps for ever. `ClawLifecycle!CreatingSettles` is
checked with one create request and no crash of the backend, the conditions its
comment gives.

## 4. Proofs

TLC checks the instances of section 3. The theorems below hold for every value of
the constants that the named assumptions of the modules allow (sets of requests
that do not overlap, bounds that are natural numbers, finite sets where something
is counted); TLC evaluates each assumption in the runs. Wherever a property is not
inductive by itself the proof names the invariant that is, has a lemma for the
initial states and one for a step with a case for every action, and a temporal last
step.

| Module | Theorem | Property |
|---|---|---|
| `AgentSessionProofs` | `TypesHold`, `TypeCorrect` | `TypeOK` |
| | `RegistryStaysFresh` | `RegistryFresh` |
| | `StatusIsSettled` | `SettledStatus` |
| | `StreamsEndClosing` | `StreamEndsClosing` |
| | `HistoryFollowsStream` | `PersistedWasPublished` |
| | `MessagesGoOnce` | `NoDoubleProcessing` |
| `PlanActFlowProofs` | `FlowTypeCorrect` | `TypeOK` |
| | `AnswerGoesToAsker` | `ResumesAsker` |
| | `ToldStepsStayDone` | `NoStepTwice` |
| | `SummaryComesLast` | `SummaryIsLast` |
| | `NoOpenCallSent` | `CallsAnswered` |
| | `QuestionIsAnswered` | `AnswerReachesQuestion`, an action property |
| `StreamQueueProofs` | `TypeCorrect` | `TypeOK` |
| | `StreamImplementsQueue` | `~Late /\ Spec => QueueSpec`, the refinement of `PopQueue` |
| | `OneReturn` | `~Late /\ Spec => []ReturnedOnce` |
| `ClawLifecycleProofs` | `TypesHold` | `TypeOK` |
| | `ContainersBelong` | `NoStrayContainer` |
| | `RunningHasAnswered` | `OnlyReadyRuns` |
| `SandboxProofs` | `TypesHold` | `TypeOK`, with `Session` |
| | `CommandReplaces` | `Serial => (Spec => []OneAlive)` |
| | `ViewIsConsole` | `Serial => (Spec => []ViewMatchesConsole)` |
| | `OutputIsKept` | `Serial => (Spec => []NoOutputLost)` |
| | `ServicesTypeCorrect` | `AllTypeOK` of `MCSandbox` |
| | `ReadersGetWhatIsThere` | `ReadsWhatIsThere`, an action property |
| | `ChangesAreMade` | `AnsweredAsAsked`, an action property |
| `SupervisorTimeoutProofs` | `TypesHold` | `TypeOK` |
| | `UserHasTheSay` | `UserDecides` |
| `ClawProofs` | `PartsTypeCorrect` | `AllTypeOK` of `MCClaw` |
| | `HistoryIsExact` | `MergeIsExact` |
| | `EndsAreStored` | `DoneIsStored` |
| | `PiecesReachClients` | `NoGaps` |
| | `StreamsAreKept` | `StreamsKept` |
| `ServicesProofs` | `AllTypesHold` | `AllTypeOK` of `MCServices` |
| | `TokensStayShared` | `TokensAreShared` |
| | `AccountsAreKept` | `AccountsKept` |
| | `UnreadStaysOwed` | `UnreadIsOwed` |
| | `PublicLinksLapse` | `PublicAccessLapses` |
| | `WorkingToolsReached` | `ToolsReached` |

### The arguments

**Sessions.** The invariants come in layers:

* `TypeInv` adds to `TypeOK` that a runner about to pop has a message
  (`QueueReady`) and that only chats that carry a message get as far as posting
  one (`ChatsPost`); without the first, `Head` and `Tail` have no type.
* `RegInv` adds `CancelsRunning`: a cancellation is pending only for an execution
  that is ready or live. A task about to be started by `run()` is therefore not
  being cancelled, and a registered one neither finished nor cancelled.
* `SettleInv` adds `SavesIdle`: a chat on its way through `_create_task` holds a
  snapshot whose status is not RUNNING. Then no stale save can write RUNNING;
  only `MarkRunning` does, from a runner that is going to settle it.
* `StreamInv` adds `RunInv`: the last entry of a stream of an execution that is
  past its last publication, in each of the places it may be, is a closing
  event, so that `Exit` finds one.
* `LogInv` asks of every snapshot in a request's hands what
  `PersistedWasPublished` asks of the document, since a stale save makes the one
  the other; streams only grow.
* `MessageInv` adds `Unseen`: the message of a chat that has not come to its
  `put` is on no stream and was never taken.

**Flow.** `IInv` says where a run may be in each state of the flow (`Places`), how
the flow's own plan stands to the stored one (`Plans`: the same while a step is
executed, so that a run given up there is resumed from what was stored), that no
reported step is open in a plan whose next step may still be taken (`Kept`), that
a session waits only where nothing moves the plan on (`Waits`), that the summary
is reached with nothing open in the stored plan (`Summed`), and which calls of the
conversation have their results at every place of the tool loop (`Conversation`,
`Question`). The operators on plans (`Next` step, merge, completion) have lemmas
of their own; that a set of numbers has a least one comes from the library's
well-founded induction on subsets.

**Queue.** The invariant says that a caller inside the lock is the one the lock
names (`HolderInside`), so that there is one at most, that what it is about to
delete is still the first message (`FirstInHand`), and that a caller that has not
looked yet holds nothing (`NothingRead`). With it each step maps to a step of the
queue or a stutter; `OneReturn` then follows from the queue's own invariant.
`~Late` is needed: without it the property is among the disagreements above.

**Claw.** Requests carry claws from one command to the next and write them back, so
the invariant speaks of what a request holds (`Fine`): its claw is the document's
or one that was deleted, and if it says that it runs, and where, its container has
answered. A step changes what one request holds (`Turn`), and what is fine for the
others stays so because ids that are known, or have answered, are never forgotten.
`Counted` bounds the ids by the requests that have begun.

**Claw's chat.** `MCClaw` lets TLC have one client or one message; the theorems
hold for `Chat!Spec`, too, where any number of both come and go. The events a client
was sent and those in its queue are one sequence (`Events`): delivery leaves it as it
is, publishing appends to it, closing the connection cuts it. `ChatInv` says that of
every message whose end is in that sequence the answer is stored, unless an error is
there or the claw was deleted under it (`DonesOf`; a message under way without a claw is
`bereft`), that behind a piece come all the later ones that were published
(`PiecesOf`), and what was stored of an answer that has ended.

**Claw's history.** `MergeInv` follows the two sources through the loop. They stay
as they were, each in the order of its clock (`Sources`); what was merged begins with
the database's messages (`Begins`); each text taken from the claw has a message of
its own in it, one of the database only if that was used up (`TakenAreHome`, an
injection that grows by a step); a file is shown where the database has it, or else
once (`FilesOnce`). `PartnersLeft` is the part that makes copies impossible: if all
of the claw's texts can be paired with messages of the database at all, those not
taken yet still can with the ones not used. The code takes the first message that
fits; where another text was to have that one, the two swap, and both are close
enough because each source is in order. Sorting keeps what a sequence holds, since
the place of each message (how many go before it) is that of no other
(`SortIsPermutation`). The theorem holds for `Merge!Spec` by itself as well.

**Claw's plugin.** `GateInv` says that only the client of the latest start, while it
is not stopped, connects (`LinkIs`), and that a stream has a handler just as long as
it waits, and has heard all there was of its run while the connection its prompt
went over is up (`StreamIs`).

**Shell.** `TypeOK` needs that whatever uses the session finds one, with a process
and a console record (`Session`); this holds however commands race. The other
three are about a client that sends one command at a time (`Serial`, what the
agent does): then what a command saw of the session before its awaits is still so
(`SameSession`), which processes may run is known at each of its points
(`AliveIs`), and the pieces a process wrote are those in the console and those in
the pipe (`Accounted`). Without `Serial` TLC refutes them.

**Files.** Any number of requests read and write at once. `FilesInv` says first that
a writer not in `crossed` is the only one of its file and, with sudo, of the temporary
file, also for the readers beside it (`Crossings`); then, for each request, where it
may be (`Places`) and that what it writes to or copies from is there (`Has`). A writer
that is not crossed has its file as it found it until the file is opened, and has read
the beginning of it; what it is about to write is the text it was given or the
replacement in what it found (`BodyIs`); from then on the file is what was kept of the
old text followed by as much of the new one as was written (`Stand`, `Grown`). A
reader that was not torn has read the beginning of what the file is, and one that was
not crossed has, in each place, a unit of the text it found or of one that some writer
means for that place, as has the file (`ReaderIs`). What `FlattenSeq` makes of a text in which
something is replaced is a lemma (`Flattens`): the library's induction theorems
cannot be applied, but a set of numbers that holds 1 and with each number the next
holds all of them, since the numbers it leaves out would have a least. The types of
the timer come from `SupervisorTimeoutProofs`, which `SandboxProofs` instantiates.

**Timer.** The timer the service knows is the only one asleep and is due at the
deadline (`OneTimer`); while a deadline is the user's the middleware is off
(`UsersOwn`).

**Tokens.** That all who wait have one leader needs the type of the calls only;
that tokens are the user's needs that the refresh on its way is, too
(`FlightIsTheUsers`, under `Tight`, which `TokensAreShared` has as its hypothesis).

**Services.** `AllSpec` is the specification that the run `services` checks. Each
component's invariant is kept by its own steps, and the others leave its variables
alone.

* Accounts (`UsersInv`): what a request read still holds when it writes. A password
  on its way into the collection was given to the account, a cache entry on its way
  into the cache is of a mail that was sent, and neither is ever taken back.
* Unread count (`FieldsInv`): the count is at most the number of messages that were
  counted and not watched to the end (`Counted`); a reader that leaves puts it at
  zero, having seen a done event, and messages after that are new. The same holds of
  the count in a document that a chat is going to write back, unless the chat found it
  before some task was watched to its end (`stale`); only such a chat brings an old
  count back (`revived`), which stands until the next reset or save of a document
  that is not stale (`CountsHold`).
* Links (`LinksInv`): a page of the public is signed while the session is shared or
  in the tick it ceased to be.
* MCP (`McpInv`): what is offered is what the servers that answered have. That a
  composed name is taken apart again is a lemma on prefixes: when no server's
  prefix starts another's, one server fits a name at most.

### Model-checked only

* Liveness and the properties of `progress` under fairness, and whatever needs
  ENABLED, are out of this prover's reach.
* Beyond `max_length` a replacement does not make what is asked of it:
  `AnsweredAsAsked` leaves those out, and `files_replace` shows what they do.
* `TaskShutdown`, whose run asks for liveness.

## 5. Not modelled

`PROJECT.json` gives the reason part by part. In short: adapters of browsers,
search engines, GridFS and third-party servers, which are input and output without
state of the system's own; the user interface; text processing (the repair of
malformed JSON, the wording of prompts, the view conversions); the operations on
the caller's own account and on credits, which no request reaches while every
caller is "anonymous"; file uploads, the workspace and the device identity of the
claw's plugin; the editor's prototype, scripts and the mock server, which are
apart from the system. Fields nobody races for (title, latest message) are left
out of the session document.

## 6. Plan

1. The composition of `AgentSession` with `PlanActFlow`, in which the free choice
   of events is the flow's and two flows may share one memory.
2. An abstract session (idle, running, settled) that `AgentSession` implements.
