---------------------------- MODULE AgentSession ----------------------------
(***************************************************************************)
(* One chat session of the backend: its MongoDB document, the in-memory    *)
(* task registry, the Redis streams of every task created for it, the      *)
(* asyncio execution of each task (AgentTaskRunner.run) and the HTTP        *)
(* requests that race on all of them: chat with a message, chat without    *)
(* one (a client that reconnects), stop, delete; and a backend restart.    *)
(*                                                                         *)
(* Granularity.  Everything runs on one asyncio loop, so code between two  *)
(* awaits is atomic.  A step here resumes a coroutine, runs it up to its   *)
(* next await and includes the effect of the Redis or MongoDB command that *)
(* await issues.  Every value read by an earlier command may be stale by   *)
(* then, which is where the races of this component live.                  *)
(***************************************************************************)
EXTENDS Naturals, Sequences, FiniteSets

CONSTANTS
    Chats,        \* chat requests that carry a user message
    Watchers,     \* chat requests without a message: a client reconnecting
    Stops,        \* POST /sessions/{id}/stop
    Deletes,      \* DELETE /sessions/{id}
    Flaky,        \* the requests whose client may disconnect at any await
    Mixes,        \* sets of requests that come to one session; the others never do
    Tasks,        \* the pool of task ids (uuid4 in the code)
    NoTask,       \* None
    MaxEvents,    \* bound: events a flow may emit before it waits or is done
    MaxRestarts   \* bound: restarts of the backend process

Readers  == Chats \cup Watchers
Requests == Readers \cup Stops \cup Deletes

ASSUME SessionAssumption ==
    /\ Flaky \subseteq Readers
    /\ NoTask \notin Tasks
    /\ Requests \cap Tasks = {}
    /\ Chats \cap (Watchers \cup Stops \cup Deletes) = {}
    /\ Watchers \cap (Stops \cup Deletes) = {}
    /\ Stops \cap Deletes = {}
    /\ MaxEvents \in Nat
    /\ MaxRestarts \in Nat

ASSUME MixesAssumption == Mixes \subseteq SUBSET Requests

VARIABLES
    exists,      \* the session document is in MongoDB
    status,      \* its status field
    taskId,      \* its task_id field
    log,         \* its events field, as a set
    registry,    \* RedisStreamTask._task_registry
    exec,        \* per task: its _execution_task
    rpc,         \* per task: the await its runner is at
    cancelling,  \* per task: cancel() was called, CancelledError not yet thrown
    event,       \* per task: the event the runner is publishing
    emitted,     \* per task: events the current flow has emitted
    input,       \* per task: the Redis stream task:input:<id>
    output,      \* per task: the Redis stream task:output:<id>
    taken,       \* messages some runner has popped (history)
    pc,          \* per request: the await it is at
    snap,        \* per request: the Session object it loaded
    ref,         \* per request: its local variable task
    cursor,      \* per request: how much of output[ref] it has read
    restarts     \* restarts so far

docVars    == <<exists, status, taskId, log>>
runVars    == <<registry, exec, rpc, cancelling, event, emitted>>
redisVars  == <<input, output, taken>>
reqVars    == <<pc, snap, ref, cursor>>
vars       == <<docVars, runVars, redisVars, reqVars, restarts>>

-----------------------------------------------------------------------------
(* Data *)

Status == {"pending", "running", "waiting", "completed"}

\* What a client can tell apart in the event stream: "msg" is every event
\* after which the chat loop keeps reading (title, plan, step, tool, message).
Closing   == {"done", "error", "wait"}
EventKind == Closing \cup {"msg"}

\* A stored event: a user message or error written by a request, or the
\* pos-th entry of a task's output stream (the code stores the stream id).
LogEntry == [by : Requests \cup Tasks, pos : Nat]
UserEntry(r)     == [by |-> r, pos |-> 0]
ErrorEntry(r)    == [by |-> r, pos |-> 1]
AgentEntry(t, i) == [by |-> t, pos |-> i]

Snapshot == [status : Status, taskId : Tasks \cup {NoTask}, log : SUBSET LogEntry]
NoSnap   == [status |-> "pending", taskId |-> NoTask, log |-> {}]

\* exec: no Task object yet; an object without _execution_task; the asyncio
\* task created but not yet started; started; finished.
ExecState == {"unborn", "none", "ready", "live", "done"}

\* Where a started runner may be: in run()'s try block or in its handlers.
Body    == {"init", "check", "pop", "open", "mark", "flow", "store", "park",
            "peek", "settle", "exit"}
Handler == {"abortstore", "abortsettle", "abortexit"}
RunPC   == {"idle"} \cup Body \cup Handler

ReqPC == {"new", "found", "saved", "browsed", "put", "posted", "run", "read",
          "loop", "end"}

TypeOK ==
    /\ exists \in BOOLEAN
    /\ status \in Status
    /\ taskId \in Tasks \cup {NoTask}
    /\ log \in SUBSET LogEntry
    /\ registry \in SUBSET Tasks
    /\ exec \in [Tasks -> ExecState]
    /\ rpc \in [Tasks -> RunPC]
    /\ cancelling \in [Tasks -> BOOLEAN]
    /\ event \in [Tasks -> EventKind]
    /\ emitted \in [Tasks -> Nat]
    /\ input \in [Tasks -> Seq(Chats)]
    /\ output \in [Tasks -> Seq(EventKind)]
    /\ taken \in SUBSET Chats
    /\ pc \in [Requests -> ReqPC]
    /\ snap \in [Requests -> Snapshot]
    /\ ref \in [Requests -> Tasks \cup {NoTask}]
    /\ cursor \in [Requests -> Nat]
    /\ restarts \in Nat

\* RedisStreamTask.done
Done(t) == exec[t] \in {"unborn", "none", "done"}

\* RedisStreamTask.get(session.task_id), None when it is not registered
Lookup(id) == IF id \in registry THEN id ELSE NoTask

Init ==
    /\ exists = TRUE
    /\ status = "pending"
    /\ taskId = NoTask
    /\ log = {}
    /\ registry = {}
    /\ exec = [t \in Tasks |-> "unborn"]
    /\ rpc = [t \in Tasks |-> "idle"]
    /\ cancelling = [t \in Tasks |-> FALSE]
    /\ event = [t \in Tasks |-> "msg"]
    /\ emitted = [t \in Tasks |-> 0]
    /\ input = [t \in Tasks |-> <<>>]
    /\ output = [t \in Tasks |-> <<>>]
    /\ taken = {}
    /\ pc \in {[r \in Requests |-> IF r \in m THEN "new" ELSE "end"] : m \in Mixes}
    /\ snap = [r \in Requests |-> NoSnap]
    /\ ref = [r \in Requests |-> NoTask]
    /\ cursor = [r \in Requests |-> 0]
    /\ restarts = 0

-----------------------------------------------------------------------------
(* The session document.  An update_* or add_event on a missing document   *)
(* is a silent no-op: the UpdateResult the repository tests is never false.*)

SetStatus(s) == status' = IF exists THEN s ELSE status

AddEvent(e) == log' = IF exists THEN log \cup {e} ELSE log

\* save() writes every field of the loaded Session, and creates the document
\* again when it is gone.
SaveSession(s, id) ==
    /\ exists' = TRUE
    /\ status' = s.status
    /\ taskId' = id
    /\ log' = s.log

-----------------------------------------------------------------------------
(* AgentTaskRunner.run, inside RedisStreamTask._execute_task.              *)

AtRun(t, at) == exec[t] = "live" /\ rpc[t] = at /\ ~cancelling[t]

GoRun(t, at) == rpc' = [rpc EXCEPT ![t] = at]

\* Mutant of Abort: the handlers publish no closing event.
AbortSilently(t, k) ==
    /\ UNCHANGED output
    /\ GoRun(t, "abortstore")

\* Mutant of Abort: they publish an event of a kind no client knows.
AbortAsCancelled(t, k) ==
    /\ output' = [output EXCEPT ![t] = Append(@, "cancelled")]
    /\ GoRun(t, "abortstore")

\* An exception reached run()'s handlers, which first publish a closing event.
Abort(t, k) ==
    /\ output' = [output EXCEPT ![t] = Append(@, k)]
    /\ GoRun(t, "abortstore")

\* The asyncio task gets its first turn.
Begin(t) ==
    /\ exec[t] = "ready"
    /\ ~cancelling[t]
    /\ exec' = [exec EXCEPT ![t] = "live"]
    /\ GoRun(t, "init")
    /\ UNCHANGED <<docVars, registry, cancelling, event, emitted, redisVars,
                   reqVars, restarts>>

\* A task cancelled before its first turn never enters _execute_task: neither
\* the runner's handlers nor _on_task_done run.
NeverStarted(t) ==
    /\ exec[t] = "ready"
    /\ cancelling[t]
    /\ exec' = [exec EXCEPT ![t] = "done"]
    /\ cancelling' = [cancelling EXCEPT ![t] = FALSE]
    /\ UNCHANGED <<docVars, registry, rpc, event, emitted, redisVars, reqVars,
                   restarts>>

\* ensure_sandbox and the MCP connections.
Prepare(t) ==
    /\ AtRun(t, "init")
    /\ GoRun(t, "check")
    /\ UNCHANGED <<docVars, registry, exec, cancelling, event, emitted,
                   redisVars, reqVars, restarts>>

\* while not await task.input_stream.is_empty()
Check(t) ==
    /\ AtRun(t, "check")
    /\ GoRun(t, IF input[t] = <<>> THEN "settle" ELSE "pop")
    /\ UNCHANGED <<docVars, registry, exec, cancelling, event, emitted,
                   redisVars, reqVars, restarts>>

\* Mutant of Pop: the message is read from the stream and not deleted.
PopWithoutDelete(t) ==
    /\ AtRun(t, "pop")
    /\ taken' = taken \cup {Head(input[t])}
    /\ emitted' = [emitted EXCEPT ![t] = 0]
    /\ GoRun(t, "open")
    /\ UNCHANGED <<docVars, registry, exec, cancelling, event, input, output,
                   reqVars, restarts>>

\* _pop_event: the runner is the only consumer of its stream, so the pop lock
\* is free and the stream that was not empty still is not.
Pop(t) ==
    /\ AtRun(t, "pop")
    /\ taken' = taken \cup {Head(input[t])}
    /\ input' = [input EXCEPT ![t] = Tail(@)]
    /\ emitted' = [emitted EXCEPT ![t] = 0]
    /\ GoRun(t, "open")
    /\ UNCHANGED <<docVars, registry, exec, cancelling, event, output, reqVars,
                   restarts>>

\* PlanActFlow.run loads the session and raises when it is gone.
OpenFlow(t) ==
    /\ AtRun(t, "open")
    /\ IF exists
       THEN GoRun(t, "mark") /\ UNCHANGED output
       ELSE Abort(t, "error")
    /\ UNCHANGED <<docVars, registry, exec, cancelling, event, emitted, input,
                   taken, reqVars, restarts>>

\* ... and marks it RUNNING.
MarkRunning(t) ==
    /\ AtRun(t, "mark")
    /\ SetStatus("running")
    /\ GoRun(t, "flow")
    /\ UNCHANGED <<exists, taskId, log, registry, exec, cancelling, event,
                   emitted, redisVars, reqVars, restarts>>

\* The flow yields its next event, which is put on the output stream.  An
\* ErrorEvent (an unknown tool, too many iterations) does not end the flow.
Emit(t) ==
    /\ AtRun(t, "flow")
    /\ \E k \in EventKind :
         /\ k \in {"msg", "error"} => emitted[t] < MaxEvents
         /\ event' = [event EXCEPT ![t] = k]
         /\ output' = [output EXCEPT ![t] = Append(@, k)]
    /\ emitted' = [emitted EXCEPT ![t] = @ + 1]
    /\ GoRun(t, "store")
    /\ UNCHANGED <<docVars, registry, exec, cancelling, input, taken, reqVars,
                   restarts>>

\* Mutant of Store: the event is stored under the id of the next entry.
StoreAhead(t) ==
    /\ AtRun(t, "store")
    /\ AddEvent(AgentEntry(t, Len(output[t]) + 1))
    /\ GoRun(t, IF event[t] = "wait" THEN "park" ELSE "peek")
    /\ UNCHANGED <<exists, status, taskId, registry, exec, cancelling, event,
                   emitted, redisVars, reqVars, restarts>>

\* The published event is appended to the session document under its stream id.
Store(t) ==
    /\ AtRun(t, "store")
    /\ AddEvent(AgentEntry(t, Len(output[t])))
    /\ GoRun(t, IF event[t] = "wait" THEN "park" ELSE "peek")
    /\ UNCHANGED <<exists, status, taskId, registry, exec, cancelling, event,
                   emitted, redisVars, reqVars, restarts>>

\* WaitEvent: the session waits for the user and the runner returns.
Park(t) ==
    /\ AtRun(t, "park")
    /\ SetStatus("waiting")
    /\ GoRun(t, "exit")
    /\ UNCHANGED <<exists, taskId, log, registry, exec, cancelling, event,
                   emitted, redisVars, reqVars, restarts>>

\* A message that arrived meanwhile makes the runner drop the flow it is in.
Peek(t) ==
    /\ AtRun(t, "peek")
    /\ GoRun(t, IF input[t] # <<>> \/ event[t] = "done" THEN "check" ELSE "flow")
    /\ UNCHANGED <<docVars, registry, exec, cancelling, event, emitted,
                   redisVars, reqVars, restarts>>

\* The queue was empty: COMPLETED.
Settle(t) ==
    /\ AtRun(t, "settle")
    /\ SetStatus("completed")
    /\ GoRun(t, "exit")
    /\ UNCHANGED <<exists, taskId, log, registry, exec, cancelling, event,
                   emitted, redisVars, reqVars, restarts>>

\* Any await of the flow, of the sandbox or of MCP may raise.
Fail(t) ==
    /\ AtRun(t, "init") \/ AtRun(t, "flow")
    /\ Abort(t, "error")
    /\ UNCHANGED <<docVars, registry, exec, cancelling, event, emitted, input,
                   taken, reqVars, restarts>>

\* CancelledError is thrown at the await the runner is at.  In the try block
\* the handler publishes a DoneEvent; in a handler it leaves run() at once.
Cancelled(t) ==
    /\ exec[t] = "live"
    /\ cancelling[t]
    /\ cancelling' = [cancelling EXCEPT ![t] = FALSE]
    /\ IF rpc[t] \in Body
       THEN Abort(t, "done")
       ELSE GoRun(t, "abortexit") /\ UNCHANGED output
    /\ UNCHANGED <<docVars, registry, exec, event, emitted, input, taken,
                   reqVars, restarts>>

\* The handlers then store that event and set COMPLETED.
AbortStore(t) ==
    /\ AtRun(t, "abortstore")
    /\ AddEvent(AgentEntry(t, Len(output[t])))
    /\ GoRun(t, "abortsettle")
    /\ UNCHANGED <<exists, status, taskId, registry, exec, cancelling, event,
                   emitted, redisVars, reqVars, restarts>>

AbortSettle(t) ==
    /\ AtRun(t, "abortsettle")
    /\ SetStatus("completed")
    /\ GoRun(t, "abortexit")
    /\ UNCHANGED <<exists, taskId, log, registry, exec, cancelling, event,
                   emitted, redisVars, reqVars, restarts>>

\* Mutant of Exit: _on_task_done forgets _cleanup_registry.
ExitRegistered(t) ==
    /\ AtRun(t, "exit") \/ AtRun(t, "abortexit")
    /\ exec' = [exec EXCEPT ![t] = "done"]
    /\ GoRun(t, "idle")
    /\ UNCHANGED <<docVars, registry, cancelling, event, emitted, redisVars,
                   reqVars, restarts>>

\* Mutant of Exit: _on_task_done waits for an on_done that waits for the task.
ExitHangs(t) ==
    /\ AtRun(t, "exit") \/ AtRun(t, "abortexit")
    /\ registry' = registry \ {t}
    /\ GoRun(t, "idle")
    /\ UNCHANGED <<docVars, exec, cancelling, event, emitted, redisVars, reqVars,
                   restarts>>

\* run() returned: _on_task_done removes the task from the registry.
Exit(t) ==
    /\ AtRun(t, "exit") \/ AtRun(t, "abortexit")
    /\ exec' = [exec EXCEPT ![t] = "done"]
    /\ registry' = registry \ {t}
    /\ GoRun(t, "idle")
    /\ UNCHANGED <<docVars, cancelling, event, emitted, redisVars, reqVars,
                   restarts>>

RunnerStep(t) ==
    \/ Begin(t) \/ NeverStarted(t) \/ Prepare(t) \/ Check(t) \/ Pop(t)
    \/ OpenFlow(t) \/ MarkRunning(t) \/ Emit(t) \/ Store(t) \/ Park(t)
    \/ Peek(t) \/ Settle(t) \/ Cancelled(t) \/ AbortStore(t) \/ AbortSettle(t)
    \/ Exit(t)

-----------------------------------------------------------------------------
(* AgentDomainService.chat                                                 *)

GoReq(r, at) == pc' = [pc EXCEPT ![r] = at]

\* The loaded session is not used any more.
DropSnap(r) == snap' = [snap EXCEPT ![r] = NoSnap]

\* The request is over and its locals with it.
EndReq(r) ==
    /\ GoReq(r, "end")
    /\ DropSnap(r)
    /\ ref' = [ref EXCEPT ![r] = NoTask]
    /\ cursor' = [cursor EXCEPT ![r] = 0]

\* Every request first loads the session, and fails when it is gone.
Find(r) ==
    /\ pc[r] = "new"
    /\ IF exists
       THEN /\ GoReq(r, "found")
            /\ snap' = [snap EXCEPT ![r] =
                          [status |-> status, taskId |-> taskId, log |-> log]]
            /\ UNCHANGED <<ref, cursor>>
       ELSE EndReq(r)
    /\ UNCHANGED <<docVars, runVars, redisVars, restarts>>

\* A RUNNING session keeps the task the registry has for it.  The client
\* resumes after the last event it saw, or from the start.
Reuse(r) ==
    /\ pc[r] = "found"
    /\ r \in Chats
    /\ snap[r].status = "running"
    /\ LET t == Lookup(snap[r].taskId) IN
       /\ ref' = [ref EXCEPT ![r] = t]
       /\ IF t = NoTask
          THEN UNCHANGED cursor
          ELSE \E c \in 0 .. Len(output[t]) : cursor' = [cursor EXCEPT ![r] = c]
    /\ GoReq(r, "put")
    /\ DropSnap(r)
    /\ UNCHANGED <<docVars, runVars, redisVars, restarts>>

\* Any other status: _create_task creates a sandbox if there is none, and saves.
CreateSandbox(r) ==
    /\ pc[r] = "found"
    /\ r \in Chats
    /\ snap[r].status # "running"
    /\ SaveSession(snap[r], snap[r].taskId)
    /\ GoReq(r, "saved")
    /\ UNCHANGED <<runVars, redisVars, snap, ref, cursor, restarts>>

\* It gets the browser of the new sandbox, or of the one there was, and saves.
GetBrowser(r) ==
    /\ \/ pc[r] = "found" /\ r \in Chats /\ snap[r].status # "running"
       \/ pc[r] = "saved"
    /\ SaveSession(snap[r], snap[r].taskId)
    /\ GoReq(r, "browsed")
    /\ UNCHANGED <<runVars, redisVars, snap, ref, cursor, restarts>>

\* ... then it registers a new task and saves its id.
CreateTask(r) ==
    /\ pc[r] = "browsed"
    /\ \E t \in Tasks :
         /\ exec[t] = "unborn"
         /\ exec' = [exec EXCEPT ![t] = "none"]
         /\ registry' = registry \cup {t}
         /\ ref' = [ref EXCEPT ![r] = t]
         /\ SaveSession(snap[r], t)
    /\ GoReq(r, "put")
    /\ DropSnap(r)
    /\ UNCHANGED <<rpc, cancelling, event, emitted, redisVars, cursor, restarts>>

\* The message goes on the task's input stream.
Put(r) ==
    /\ pc[r] = "put"
    /\ ref[r] # NoTask
    /\ input' = [input EXCEPT ![ref[r]] = Append(@, r)]
    /\ GoReq(r, "posted")
    /\ UNCHANGED <<docVars, runVars, output, taken, snap, ref, cursor, restarts>>

\* A failure is stored as an ErrorEvent and ends the stream: the sandbox or
\* its browser is not to be had, or the RUNNING session has no task (None has
\* no input_stream).
ChatError(r) ==
    /\ \/ pc[r] = "found" /\ r \in Chats /\ snap[r].status # "running"
       \/ pc[r] = "saved"
       \/ pc[r] = "put" /\ ref[r] = NoTask
    /\ AddEvent(ErrorEntry(r))
    /\ EndReq(r)
    /\ UNCHANGED <<exists, status, taskId, runVars, redisVars, restarts>>

StoreMessage(r) ==
    /\ pc[r] = "posted"
    /\ AddEvent(UserEntry(r))
    /\ GoReq(r, "run")
    /\ UNCHANGED <<exists, status, taskId, runVars, redisVars, snap, ref,
                   cursor, restarts>>

\* task.run() starts an execution unless one is going on.
Run(r) ==
    /\ pc[r] = "run"
    /\ exec' = IF Done(ref[r]) THEN [exec EXCEPT ![ref[r]] = "ready"] ELSE exec
    /\ GoReq(r, "read")
    /\ UNCHANGED <<docVars, registry, rpc, cancelling, event, emitted,
                   redisVars, snap, ref, cursor, restarts>>

\* Without a message the client only follows the task, if it is still going.
Watch(r) ==
    /\ pc[r] = "found"
    /\ r \in Watchers
    /\ LET t == Lookup(snap[r].taskId) IN
       IF t = NoTask \/ Done(t)
       THEN EndReq(r)
       ELSE /\ ref' = [ref EXCEPT ![r] = t]
            /\ \E c \in 0 .. Len(output[t]) : cursor' = [cursor EXCEPT ![r] = c]
            /\ GoReq(r, "read")
            /\ DropSnap(r)
    /\ UNCHANGED <<docVars, runVars, redisVars, restarts>>

\* Mutant of Read: the loop reads on after a WaitEvent.
ReadPastWait(r) ==
    /\ pc[r] = "read"
    /\ cursor[r] < Len(output[ref[r]])
    /\ IF output[ref[r]][cursor[r] + 1] \in Closing \ {"wait"}
       THEN EndReq(r)
       ELSE /\ cursor' = [cursor EXCEPT ![r] = @ + 1]
            /\ GoReq(r, "loop")
            /\ UNCHANGED <<snap, ref>>
    /\ UNCHANGED <<docVars, runVars, redisVars, restarts>>

\* XREAD BLOCK 0: waits for as long as it takes for the next entry.
Read(r) ==
    /\ pc[r] = "read"
    /\ cursor[r] < Len(output[ref[r]])
    /\ IF output[ref[r]][cursor[r] + 1] \in Closing
       THEN EndReq(r)
       ELSE /\ cursor' = [cursor EXCEPT ![r] = @ + 1]
            /\ GoReq(r, "loop")
            /\ UNCHANGED <<snap, ref>>
    /\ UNCHANGED <<docVars, runVars, redisVars, restarts>>

\* while task and not task.done
Loop(r) ==
    /\ pc[r] = "loop"
    /\ IF Done(ref[r])
       THEN EndReq(r)
       ELSE GoReq(r, "read") /\ UNCHANGED <<snap, ref, cursor>>
    /\ UNCHANGED <<docVars, runVars, redisVars, restarts>>

\* The client goes away: the generator is cancelled at its await.
Disconnect(r) ==
    /\ r \in Flaky
    /\ pc[r] \notin {"new", "end"}
    /\ EndReq(r)
    /\ UNCHANGED <<docVars, runVars, redisVars, restarts>>

-----------------------------------------------------------------------------
(* AgentDomainService.stop_session, AgentService.delete_session            *)

\* Mutant of Stop: the task is cancelled and the status is not written.
StopWithoutStatus(r) ==
    /\ pc[r] = "found"
    /\ r \in Stops
    /\ LET t == Lookup(snap[r].taskId) IN
       /\ registry' = registry \ {t}
       /\ cancelling' = [u \in Tasks |-> cancelling[u] \/ (u = t /\ ~Done(t))]
    /\ EndReq(r)
    /\ UNCHANGED <<docVars, exec, rpc, event, emitted, redisVars, restarts>>

\* task.cancel() takes the registered task of the loaded session out of the
\* registry and, unless it is done, cancels its execution; then COMPLETED.
Stop(r) ==
    /\ pc[r] = "found"
    /\ r \in Stops
    /\ LET t == Lookup(snap[r].taskId) IN
       /\ registry' = registry \ {t}
       /\ cancelling' = [u \in Tasks |-> cancelling[u] \/ (u = t /\ ~Done(t))]
    /\ SetStatus("completed")
    /\ EndReq(r)
    /\ UNCHANGED <<exists, taskId, log, exec, rpc, event, emitted, redisVars,
                   restarts>>

\* The document goes; the task, if any, is left to itself.
Delete(r) ==
    /\ pc[r] = "found"
    /\ r \in Deletes
    /\ exists' = FALSE
    /\ status' = "pending"
    /\ taskId' = NoTask
    /\ log' = {}
    /\ EndReq(r)
    /\ UNCHANGED <<runVars, redisVars, restarts>>

RequestStep(r) ==
    \/ Reuse(r) \/ CreateSandbox(r) \/ GetBrowser(r) \/ CreateTask(r)
    \/ Put(r) \/ StoreMessage(r) \/ Run(r) \/ Watch(r) \/ Read(r) \/ Loop(r)
    \/ Stop(r) \/ Delete(r)

-----------------------------------------------------------------------------
\* The backend process restarts: registry, executions and requests are gone,
\* MongoDB and Redis are not.
Restart ==
    /\ restarts < MaxRestarts
    /\ restarts' = restarts + 1
    /\ registry' = {}
    /\ exec' = [t \in Tasks |-> IF exec[t] = "unborn" THEN "unborn" ELSE "done"]
    /\ rpc' = [t \in Tasks |-> "idle"]
    /\ cancelling' = [t \in Tasks |-> FALSE]
    /\ pc' = [r \in Requests |-> IF pc[r] = "new" THEN "new" ELSE "end"]
    /\ snap' = [r \in Requests |-> NoSnap]
    /\ ref' = [r \in Requests |-> NoTask]
    /\ cursor' = [r \in Requests |-> 0]
    /\ UNCHANGED <<docVars, event, emitted, redisVars>>

Next ==
    \/ \E t \in Tasks : RunnerStep(t) \/ Fail(t)
    \/ \E r \in Requests : Find(r) \/ RequestStep(r) \/ ChatError(r) \/ Disconnect(r)
    \/ Restart

Spec == Init /\ [][Next]_vars

\* The event loop resumes every coroutine whose await is over, and Redis and
\* MongoDB answer.  Nothing obliges a client to send a request, a failure to
\* happen, a client to leave or the process to restart.
Fairness ==
    /\ \A t \in Tasks : WF_vars(RunnerStep(t))
    /\ \A r \in Requests : WF_vars(RequestStep(r) \/ ChatError(r))

FairSpec == Spec /\ Fairness

-----------------------------------------------------------------------------
(* Properties *)

LastOf(s) == s[Len(s)]

\* The runner of t will still write a final status to the session.
WillSettle(t) ==
    /\ exec[t] = "live"
    /\ \/ rpc[t] \in Body \ {"exit"}
       \/ rpc[t] \in {"abortstore", "abortsettle"} /\ ~cancelling[t]

\* A session never stays RUNNING with nobody left to change that: while it is
\* RUNNING some runner is still on its way to WAITING or COMPLETED, whatever
\* chats, stops, deletions, failures and cancellations did in between.  (A
\* restart of the process does leave it RUNNING.)
SettledStatus ==
    restarts = 0 /\ exists /\ status = "running" => \E t \in Tasks : WillSettle(t)

\* What RedisStreamTask.get returns is never a finished execution nor one whose
\* cancellation is on its way, so a chat never adopts a task that a stop or the
\* end of its run has already given up.
RegistryFresh ==
    \A t \in registry : exec[t] \notin {"unborn", "done"} /\ ~cancelling[t]

\* However an execution ended (done, waiting, failed, cancelled, interrupted by
\* a new message), if it published anything the last thing it published makes
\* the chat loop of every client that reads on stop.
StreamEndsClosing ==
    \A t \in Tasks :
        restarts = 0 /\ exec[t] = "done" /\ output[t] # <<>>
            => LastOf(output[t]) \in Closing

\* The history in the session document never shows an agent event before the
\* stream has it: a client that resumes after the last event of the history
\* starts inside the stream.  Holds through stale saves too.
PersistedWasPublished ==
    \A e \in log : e.by \in Tasks => e.pos \in 1 .. Len(output[e.by])

\* Every message is in at most one place: on one input stream, or taken by one
\* runner.  No message is processed twice, by one task or by two.
NoDoubleProcessing ==
    \A t \in Tasks : \A i \in 1 .. Len(input[t]) :
        /\ input[t][i] \notin taken
        /\ \A u \in Tasks : \A j \in 1 .. Len(input[u]) :
              input[u][j] = input[t][i] => u = t /\ j = i

\* Every execution that got its first turn finishes, be it cancelled, failed,
\* interrupted or left to drain its queue.
WindsUp == \A t \in Tasks : exec[t] = "live" ~> exec[t] = "done"

\* The closing event a reader's loop is heading for.
ClosingAhead(r) ==
    /\ pc[r] \in {"read", "loop"}
    /\ \E i \in cursor[r] + 1 .. Len(output[ref[r]]) : output[ref[r]][i] \in Closing

\* A client that has a closing event ahead of it in the stream is released,
\* whether the task is still going, has finished or is cancelled meanwhile.
ReaderReleased == \A r \in Readers : ClosingAhead(r) ~> pc[r] = "end"

-----------------------------------------------------------------------------
(* Statements of the repository that the code does not keep *)

\* "Process agent's message queue": once nothing runs any more and no request
\* is under way, a message still on a queue belongs to a task that reported an
\* error.
AtRest ==
    /\ \A t \in Tasks : exec[t] \notin {"ready", "live"}
    /\ \A r \in Requests : pc[r] \in {"new", "read", "end"}
NoMessageStranded ==
    AtRest => \A t \in Tasks :
                 input[t] # <<>> => \E i \in 1 .. Len(output[t]) : output[t][i] = "error"

\* "Stop an active session": between requests, an execution that goes on and was
\* not cancelled is the one a stop request would find.
StopReachesEveryTask ==
    exists /\ (\A r \in Chats : pc[r] \in {"new", "read", "end"})
        => \A t \in Tasks :
              exec[t] = "live" /\ ~cancelling[t] => t = Lookup(taskId)

\* "Delete a session": a deleted session does not come back.
DeletedForGood == [][~exists => ~exists']_vars

\* "Send a message to the session and receive streaming response": the response
\* to a posted message comes to an end.
ResponseEnds == \A r \in Chats : pc[r] = "read" ~> pc[r] # "read"
=============================================================================
