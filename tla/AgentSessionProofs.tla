------------------------- MODULE AgentSessionProofs -------------------------
(***************************************************************************)
(* Theorems about AgentSession, for any number of requests and tasks, any   *)
(* bound on events and any number of restarts.  An invariant is proved in   *)
(* three steps: it holds initially, every action preserves it, and it       *)
(* implies the property; each action is a case of its own.                  *)
(***************************************************************************)
EXTENDS AgentSession, SequenceTheorems, TLAPS

\* A runner that saw a message on its queue still finds one when it pops: it is
\* the queue's only consumer.  Without this Pop would take the head of nothing.
QueueReady ==
    \A t \in Tasks : exec[t] = "live" /\ rpc[t] = "pop" => input[t] # <<>>

\* Only a chat with a message gets as far as a task's input stream.
ChatsPost ==
    \A r \in Requests :
        pc[r] \in {"saved", "browsed", "put", "posted", "run"} => r \in Chats

TypeInv == TypeOK /\ QueueReady /\ ChatsPost

\* The types hold of a session nobody has touched.
LEMMA InitType == Init => TypeInv
  BY SessionAssumption DEF Init, TypeInv, TypeOK, QueueReady, ChatsPost, Status, LogEntry,
     ExecState, RunPC, Body, Handler, ReqPC, EventKind, Closing, Snapshot, NoSnap,
     Requests, Readers

\* Updating a function at one point keeps its range.
LEMMA UpdateType ==
  ASSUME NEW D, NEW S, NEW f \in [D -> S], NEW x \in D, NEW y \in S
  PROVE  [f EXCEPT ![x] = y] \in [D -> S]
  OBVIOUS

\* A sequence one has appended to is not empty and ends with what was appended.
LEMMA AppendGrows ==
  ASSUME NEW S, NEW s \in Seq(S), NEW e \in S
  PROVE  /\ Append(s, e) \in Seq(S)
         /\ Append(s, e) # <<>>
         /\ LastOf(Append(s, e)) = e
<1>1. Len(Append(s, e)) = Len(s) + 1 /\ Append(s, e)[Len(s) + 1] = e
  BY AppendProperties
<1>2. Len(s) \in Nat /\ Len(<<>>) = 0
  OBVIOUS
<1> QED BY <1>1, <1>2 DEF LastOf

\* The locals of a request that is over are those of one that has not begun.
LEMMA NoSnapType == NoSnap \in Snapshot
  BY DEF NoSnap, Snapshot, Status, LogEntry

\* What the handlers' first step does to the types.
LEMMA AbortType ==
  ASSUME TypeInv, NEW t \in Tasks, NEW k \in EventKind, Abort(t, k)
  PROVE  /\ output' \in [Tasks -> Seq(EventKind)]
         /\ rpc' \in [Tasks -> RunPC]
         /\ \A u \in Tasks : rpc'[u] = "pop" => rpc[u] = "pop"
  BY DEF TypeInv, TypeOK, Abort, GoRun, RunPC, Body, Handler

\* What the end of a request does to the types.
LEMMA EndReqType ==
  ASSUME TypeInv, NEW r \in Requests, EndReq(r)
  PROVE  /\ pc' \in [Requests -> ReqPC]
         /\ snap' \in [Requests -> Snapshot]
         /\ ref' \in [Requests -> Tasks \cup {NoTask}]
         /\ cursor' \in [Requests -> Nat]
         /\ ChatsPost'
  BY DEF TypeInv, TypeOK, ChatsPost, EndReq, GoReq, DropSnap, NoSnap, Snapshot,
     Status, LogEntry, ReqPC

\* The runner's steps keep every variable in its type.
LEMMA RunnerType ==
  ASSUME TypeInv, NEW t \in Tasks, RunnerStep(t) \/ Fail(t)
  PROVE  TypeInv'
<1> USE SessionAssumption DEF TypeInv, TypeOK, QueueReady, ChatsPost, docVars, runVars,
      redisVars, reqVars, GoRun, AtRun, RunPC, Body, Handler, ExecState
<1>1. CASE Begin(t) BY <1>1 DEF Begin
<1>2. CASE NeverStarted(t) BY <1>2 DEF NeverStarted
<1>3. CASE Prepare(t) BY <1>3 DEF Prepare
<1>4. CASE Check(t) BY <1>4 DEF Check
<1>5. CASE Pop(t) BY <1>5 DEF Pop
<1>6. CASE OpenFlow(t)
  <2>1. CASE exists BY ZenonT(60), <1>6, <2>1 DEF OpenFlow
  <2>2. CASE ~exists BY <1>6, <2>2, AbortType DEF OpenFlow, EventKind, Closing
  <2> QED BY <2>1, <2>2
<1>7. CASE MarkRunning(t) BY <1>7 DEF MarkRunning, SetStatus, Status
<1>8. CASE Emit(t) BY <1>8 DEF Emit
<1>9. CASE Store(t) BY <1>9 DEF Store, AddEvent, AgentEntry, LogEntry
<1>10. CASE Park(t) BY <1>10 DEF Park, SetStatus, Status
<1>11. CASE Peek(t) BY <1>11 DEF Peek
<1>12. CASE Settle(t) BY <1>12 DEF Settle, SetStatus, Status
<1>13. CASE Fail(t) BY <1>13, AbortType DEF Fail, EventKind, Closing
<1>14. CASE Cancelled(t)
  <2>1. CASE rpc[t] \in Body BY <1>14, <2>1, AbortType DEF Cancelled, EventKind, Closing
  <2>2. CASE rpc[t] \notin Body BY ZenonT(60), <1>14, <2>2 DEF Cancelled
  <2> QED BY <2>1, <2>2
<1>15. CASE AbortStore(t) BY <1>15 DEF AbortStore, AddEvent, AgentEntry, LogEntry
<1>16. CASE AbortSettle(t) BY <1>16 DEF AbortSettle, SetStatus, Status
<1>17. CASE Exit(t) BY <1>17 DEF Exit
<1> QED BY <1>1, <1>2, <1>3, <1>4, <1>5, <1>6, <1>7, <1>8, <1>9, <1>10, <1>11,
           <1>12, <1>13, <1>14, <1>15, <1>16, <1>17 DEF RunnerStep

\* ... and so do the requests' steps.
LEMMA RequestType ==
  ASSUME TypeInv, NEW r \in Requests,
         Find(r) \/ RequestStep(r) \/ ChatError(r) \/ Disconnect(r)
  PROVE  TypeInv'
<1> USE SessionAssumption DEF TypeInv, TypeOK, QueueReady, ChatsPost, docVars, runVars,
      redisVars, reqVars, GoReq, DropSnap, NoSnap, Snapshot, Status,
      LogEntry, ReqPC, ExecState
<1>1. CASE Find(r)
  <2>1. CASE exists
    <3>1. TypeOK'
      <4> DEFINE s == [status |-> status, taskId |-> taskId, log |-> log]
      <4>a. s \in Snapshot OBVIOUS
      <4>b. snap' = [snap EXCEPT ![r] = s] BY <1>1, <2>1 DEF Find
      <4>1. snap' \in [Requests -> Snapshot] BY <4>a, <4>b, UpdateType
      <4>2. pc' \in [Requests -> ReqPC] BY ZenonT(60), <1>1, <2>1 DEF Find
      <4> QED BY <1>1, <2>1, <4>1, <4>2 DEF Find
    <3>2. QueueReady' BY <1>1, <2>1 DEF Find
    <3>3. ChatsPost' BY <1>1, <2>1 DEF Find
    <3> QED BY <3>1, <3>2, <3>3
  <2>2. CASE ~exists BY <1>1, <2>2, EndReqType DEF Find
  <2> QED BY <2>1, <2>2
<1>2. CASE Reuse(r)
  <2>1. TypeOK'
    <3>1. ref' \in [Requests -> Tasks \cup {NoTask}] BY <1>2 DEF Reuse, Lookup
    <3>2. cursor' \in [Requests -> Nat]
      <4> DEFINE t == Lookup(snap[r].taskId)
      <4>1. CASE t = NoTask BY <1>2, <4>1 DEF Reuse
      <4>2. CASE t # NoTask
        <5>1. PICK c \in 0 .. Len(output[t]) : cursor' = [cursor EXCEPT ![r] = c]
          BY <1>2, <4>2 DEF Reuse
        <5>2. c \in Nat OBVIOUS
        <5> QED BY <5>1, <5>2, UpdateType
      <4> QED BY <4>1, <4>2
    <3>3. pc' \in [Requests -> ReqPC] BY <1>2 DEF Reuse
    <3>4. snap' \in [Requests -> Snapshot] BY <1>2 DEF Reuse
    <3> QED BY <1>2, <3>1, <3>2, <3>3, <3>4 DEF Reuse
  <2>2. QueueReady' BY <1>2 DEF Reuse, Lookup
  <2>3. ChatsPost' BY <1>2 DEF Reuse, Lookup
  <2> QED BY <2>1, <2>2, <2>3
<1>3. CASE CreateSandbox(r) BY <1>3 DEF CreateSandbox, SaveSession
<1>4. CASE GetBrowser(r) BY <1>4 DEF GetBrowser, SaveSession
<1>5. CASE CreateTask(r) BY <1>5 DEF CreateTask, SaveSession
<1>6. CASE Put(r)
  <2>1. TypeOK' BY <1>6 DEF Put
  <2>2. QueueReady'
    <3>1. ASSUME NEW t \in Tasks, input[t] # <<>> PROVE input'[t] # <<>>
      <4>1. Append(input[t], r) # <<>>
        <5>1. input[t] \in Seq(Chats) /\ r \in Chats BY <1>6 DEF Put
        <5> QED BY <5>1, AppendGrows
      <4>2. input'[t] \in {input[t], Append(input[t], r)} BY <1>6 DEF Put
      <4> QED BY <3>1, <4>1, <4>2
    <3> QED BY <1>6, <3>1 DEF Put
  <2>3. ChatsPost' BY <1>6 DEF Put
  <2> QED BY <2>1, <2>2, <2>3
<1>7. CASE ChatError(r) BY <1>7, EndReqType DEF ChatError, AddEvent, ErrorEntry
<1>8. CASE StoreMessage(r) BY <1>8 DEF StoreMessage, AddEvent, UserEntry
<1>9. CASE Run(r) BY <1>9 DEF Run
<1>10. CASE Watch(r)
  <2> DEFINE t == Lookup(snap[r].taskId)
  <2>1. CASE t = NoTask \/ Done(t) BY <1>10, <2>1, EndReqType DEF Watch
  <2>2. CASE ~(t = NoTask \/ Done(t))
    <3>1. TypeOK'
      <4>1. ref' \in [Requests -> Tasks \cup {NoTask}]
        <5>1. ref' = [ref EXCEPT ![r] = t] BY <1>10, <2>2 DEF Watch
        <5>2. t \in Tasks \cup {NoTask} BY DEF Lookup
        <5> HIDE DEF t
        <5> QED BY <5>1, <5>2
      <4>2. cursor' \in [Requests -> Nat]
        <5>1. PICK c \in 0 .. Len(output[t]) : cursor' = [cursor EXCEPT ![r] = c]
          BY <1>10, <2>2 DEF Watch
        <5>2. c \in Nat BY <5>1
        <5>3. cursor \in [Requests -> Nat] BY DEF TypeOK
        <5> HIDE DEF t
        <5> QED BY <5>1, <5>2, <5>3, UpdateType
      <4>3. pc' \in [Requests -> ReqPC] BY ZenonT(60), <1>10, <2>2 DEF Watch
      <4>4. snap' \in [Requests -> Snapshot]
        <5>1. snap' = [snap EXCEPT ![r] = NoSnap] BY <1>10, <2>2 DEF Watch
        <5> HIDE DEF NoSnap
        <5> QED BY <5>1, NoSnapType, UpdateType
      <4> QED BY <1>10, <2>2, <4>1, <4>2, <4>3, <4>4 DEF Watch
    <3>2. QueueReady' BY <1>10, <2>2 DEF Watch, Lookup
    <3>3. ChatsPost' BY <1>10, <2>2 DEF Watch, Lookup
    <3> QED BY <3>1, <3>2, <3>3
  <2> QED BY <2>1, <2>2
<1>11. CASE Read(r)
  <2> DEFINE closing == output[ref[r]][cursor[r] + 1] \in Closing
  <2>1. CASE closing BY <1>11, <2>1, EndReqType DEF Read
  <2>2. CASE ~closing
    <3>1. TypeOK'
      <4>1. cursor[r] + 1 \in Nat OBVIOUS
      <4>2. cursor' = [cursor EXCEPT ![r] = cursor[r] + 1] BY <1>11, <2>2 DEF Read
      <4>3. cursor' \in [Requests -> Nat] BY <4>1, <4>2, UpdateType
      <4>4. pc' \in [Requests -> ReqPC] BY <1>11, <2>2 DEF Read
      <4> QED BY <1>11, <2>2, <4>3, <4>4 DEF Read
    <3>2. QueueReady' BY <1>11, <2>2 DEF Read
    <3>3. ChatsPost' BY <1>11, <2>2 DEF Read
    <3> QED BY <3>1, <3>2, <3>3
  <2> QED BY <2>1, <2>2
<1>12. CASE Loop(r)
  <2>1. CASE Done(ref[r]) BY <1>12, <2>1, EndReqType DEF Loop
  <2>2. CASE ~Done(ref[r])
    <3>1. TypeOK' BY ZenonT(60), <1>12, <2>2 DEF Loop
    <3>2. QueueReady' BY <1>12, <2>2 DEF Loop
    <3>3. ChatsPost' BY <1>12, <2>2 DEF Loop
    <3> QED BY <3>1, <3>2, <3>3
  <2> QED BY <2>1, <2>2
<1>13. CASE Stop(r) BY <1>13, EndReqType DEF Stop, SetStatus
<1>14. CASE Delete(r) BY <1>14, EndReqType DEF Delete
<1>15. CASE Disconnect(r) BY <1>15, EndReqType DEF Disconnect
<1> QED BY <1>1, <1>2, <1>3, <1>4, <1>5, <1>6, <1>7, <1>8, <1>9, <1>10, <1>11,
           <1>12, <1>13, <1>14, <1>15 DEF RequestStep

\* Type correctness, and a runner that pops always finds a message.
THEOREM TypeCorrect == Spec => []TypeInv
<1>1. Init => TypeInv BY InitType
<1>2. TypeInv /\ [Next]_vars => TypeInv'
  <2> SUFFICES ASSUME TypeInv, [Next]_vars PROVE TypeInv'
    OBVIOUS
  <2>1. CASE \E t \in Tasks : RunnerStep(t) \/ Fail(t) BY <2>1, RunnerType
  <2>2. CASE \E r \in Requests :
               Find(r) \/ RequestStep(r) \/ ChatError(r) \/ Disconnect(r)
    BY <2>2, RequestType
  <2>3. CASE Restart
    BY <2>3 DEF Restart, TypeInv, TypeOK, QueueReady, ChatsPost, ExecState, RunPC, ReqPC,
       NoSnap, Snapshot, Status, docVars, redisVars
  <2>4. CASE UNCHANGED vars
    BY <2>4 DEF vars, docVars, runVars, redisVars, reqVars, TypeInv, TypeOK, QueueReady,
       ChatsPost
  <2> QED BY <2>1, <2>2, <2>3, <2>4 DEF Next
<1> QED BY <1>1, <1>2, PTL DEF Spec

\* The types alone: what every request, runner and restart leaves in the document,
\* the registry, the executions, the streams and the requests' locals.
THEOREM TypesHold == Spec => []TypeOK
<1>1. TypeInv => TypeOK
  BY DEF TypeInv
<1> QED BY <1>1, TypeCorrect, PTL

-----------------------------------------------------------------------------
(* The registry *)

\* Only an execution that has still to end can be under cancellation.
CancelsRunning == \A t \in Tasks : cancelling[t] => exec[t] \in {"ready", "live"}

RegInv == TypeInv /\ RegistryFresh /\ CancelsRunning

\* Steps that touch neither the registry nor an execution.
LEMMA RegistryUntouched ==
  ASSUME RegInv, UNCHANGED <<registry, exec, cancelling>>
  PROVE  RegistryFresh' /\ CancelsRunning'
  BY DEF RegInv, RegistryFresh, CancelsRunning

\* A runner leaves the registry when its execution ends.
LEMMA RunnerRegistry ==
  ASSUME RegInv, NEW t \in Tasks, RunnerStep(t) \/ Fail(t)
  PROVE  RegistryFresh' /\ CancelsRunning'
<1> USE DEF RegInv, RegistryFresh, CancelsRunning, TypeInv, TypeOK, AtRun
<1>1. CASE Begin(t) BY <1>1 DEF Begin
<1>2. CASE NeverStarted(t) BY <1>2 DEF NeverStarted
<1>3. CASE Cancelled(t) BY <1>3 DEF Cancelled
<1>4. CASE Exit(t) BY <1>4 DEF Exit
<1>5. CASE \/ Prepare(t) \/ Check(t) \/ Pop(t) \/ OpenFlow(t) \/ MarkRunning(t)
           \/ Emit(t) \/ Store(t) \/ Park(t) \/ Peek(t) \/ Settle(t) \/ Fail(t)
           \/ AbortStore(t) \/ AbortSettle(t)
  <2>1. UNCHANGED <<registry, exec, cancelling>>
    BY <1>5 DEF Prepare, Check, Pop, OpenFlow, MarkRunning, Emit, Store, Park,
       Peek, Settle, Fail, AbortStore, AbortSettle
  <2> QED BY <2>1, RegistryUntouched
<1> QED BY <1>1, <1>2, <1>3, <1>4, <1>5 DEF RunnerStep

\* A request registers a task with its execution, and unregisters the one it cancels.
LEMMA RequestRegistry ==
  ASSUME RegInv, NEW r \in Requests,
         Find(r) \/ RequestStep(r) \/ ChatError(r) \/ Disconnect(r)
  PROVE  RegistryFresh' /\ CancelsRunning'
<1> USE DEF RegInv, RegistryFresh, CancelsRunning, TypeInv, TypeOK
<1>1. CASE CreateTask(r) BY <1>1 DEF CreateTask
<1>2. CASE Run(r) BY <1>2 DEF Run, Done
<1>3. CASE Stop(r) BY <1>3 DEF Stop, Done, ExecState
<1>4. CASE \/ Find(r) \/ Reuse(r) \/ CreateSandbox(r) \/ GetBrowser(r) \/ Put(r)
           \/ StoreMessage(r) \/ Watch(r) \/ Read(r) \/ Loop(r) \/ Delete(r)
           \/ ChatError(r) \/ Disconnect(r)
  <2>1. UNCHANGED <<registry, exec, cancelling>>
    BY <1>4 DEF Find, Reuse, CreateSandbox, GetBrowser, Put, StoreMessage, Watch,
       Read, Loop, Delete, ChatError, Disconnect, runVars
  <2> QED BY <2>1, RegistryUntouched
<1> QED BY <1>1, <1>2, <1>3, <1>4 DEF RequestStep

\* What the registry hands out has neither finished nor been cancelled.
THEOREM RegistryStaysFresh == Spec => []RegistryFresh
<1>1. Init => RegInv
  BY InitType DEF Init, RegInv, RegistryFresh, CancelsRunning
<1>2. RegInv /\ TypeInv' /\ [Next]_vars => RegInv'
  <2> SUFFICES ASSUME RegInv, TypeInv', [Next]_vars
               PROVE  RegistryFresh' /\ CancelsRunning'
    BY DEF RegInv
  <2>1. CASE \E t \in Tasks : RunnerStep(t) \/ Fail(t) BY <2>1, RunnerRegistry
  <2>2. CASE \E r \in Requests :
               Find(r) \/ RequestStep(r) \/ ChatError(r) \/ Disconnect(r)
    BY <2>2, RequestRegistry
  <2>3. CASE Restart
    BY <2>3 DEF Restart, RegInv, RegistryFresh, CancelsRunning
  <2>4. CASE UNCHANGED vars
    BY <2>4, RegistryUntouched DEF vars, runVars
  <2> QED BY <2>1, <2>2, <2>3, <2>4 DEF Next
<1>3. RegInv => RegistryFresh
  BY DEF RegInv
<1> QED BY <1>1, <1>2, <1>3, TypeCorrect, PTL DEF Spec

-----------------------------------------------------------------------------
(* The status of the session *)

\* SettledStatus is inductive by itself, given the types: only MarkRunning makes
\* the session RUNNING (a stale save never does, because a chat creates a task
\* only for a session that is not), and a runner that stops being the one who
\* will settle it writes another status in the same step, or the stop does.
LEMMA StatusUntouched ==
  ASSUME SettledStatus, UNCHANGED <<exec, rpc, cancelling, restarts>>,
         exists' /\ status' = "running" => exists /\ status = "running"
  PROVE  SettledStatus'
  BY DEF SettledStatus, WillSettle

\* A runner's steps keep somebody to settle a RUNNING session.
LEMMA RunnerStatus ==
  ASSUME TypeInv, SettledStatus, NEW t \in Tasks, RunnerStep(t) \/ Fail(t)
  PROVE  SettledStatus'
<1> USE DEF TypeInv, TypeOK, SettledStatus, WillSettle, AtRun, GoRun, Body
<1>1. CASE Begin(t) BY <1>1 DEF Begin, docVars
<1>2. CASE NeverStarted(t) BY <1>2 DEF NeverStarted, docVars
<1>3. CASE Prepare(t) BY <1>3 DEF Prepare, docVars
<1>4. CASE Check(t) BY <1>4 DEF Check, docVars
<1>5. CASE Pop(t) BY <1>5 DEF Pop, docVars
<1>6. CASE OpenFlow(t) BY <1>6 DEF OpenFlow, Abort, docVars
<1>7. CASE MarkRunning(t) BY <1>7 DEF MarkRunning
<1>8. CASE Emit(t) BY <1>8 DEF Emit, docVars
<1>9. CASE Store(t) BY <1>9 DEF Store
<1>10. CASE Park(t) BY <1>10 DEF Park, SetStatus
<1>11. CASE Peek(t) BY <1>11 DEF Peek, docVars
<1>12. CASE Settle(t) BY <1>12 DEF Settle, SetStatus
<1>13. CASE Fail(t) BY <1>13 DEF Fail, Abort, docVars
<1>14. CASE Cancelled(t)
  <2>1. CASE rpc[t] \in Body BY <1>14, <2>1 DEF Cancelled, Abort, docVars
  <2>2. CASE rpc[t] \notin Body BY <1>14, <2>2 DEF Cancelled, docVars
  <2> QED BY <2>1, <2>2
<1>15. CASE AbortStore(t) BY <1>15 DEF AbortStore
<1>16. CASE AbortSettle(t) BY <1>16 DEF AbortSettle, SetStatus
<1>17. CASE Exit(t) BY <1>17 DEF Exit, docVars
<1> QED BY <1>1, <1>2, <1>3, <1>4, <1>5, <1>6, <1>7, <1>8, <1>9, <1>10, <1>11,
           <1>12, <1>13, <1>14, <1>15, <1>16, <1>17 DEF RunnerStep

\* A chat that saves the session it loaded does so only when that was not RUNNING.
SavesIdle ==
    \A r \in Requests : pc[r] \in {"saved", "browsed"} => snap[r].status # "running"

SettleInv == TypeInv /\ SettledStatus /\ SavesIdle

\* A request saves only what it loaded as not RUNNING.
LEMMA RequestSavesIdle ==
  ASSUME TypeInv, SavesIdle, NEW r \in Requests,
         Find(r) \/ RequestStep(r) \/ ChatError(r) \/ Disconnect(r)
  PROVE  SavesIdle'
<1> USE DEF TypeInv, TypeOK, SavesIdle, GoReq, DropSnap, NoSnap
<1>1. CASE Find(r)
  <2>1. CASE exists BY <1>1, <2>1 DEF Find
  <2>2. CASE ~exists BY <1>1, <2>2 DEF Find, EndReq
  <2> QED BY <2>1, <2>2
<1>2. CASE Reuse(r) BY <1>2 DEF Reuse
<1>3. CASE CreateSandbox(r) BY <1>3 DEF CreateSandbox
<1>4. CASE GetBrowser(r) BY <1>4 DEF GetBrowser
<1>5. CASE CreateTask(r) BY <1>5 DEF CreateTask
<1>6. CASE Put(r) BY <1>6 DEF Put
<1>7. CASE StoreMessage(r) BY <1>7 DEF StoreMessage
<1>8. CASE Run(r) BY <1>8 DEF Run
<1>9. CASE Watch(r) BY <1>9 DEF Watch, EndReq
<1>10. CASE Read(r) BY <1>10 DEF Read, EndReq
<1>11. CASE Loop(r) BY <1>11 DEF Loop, EndReq
<1>12. CASE Stop(r) \/ Delete(r) \/ ChatError(r) \/ Disconnect(r)
  BY <1>12 DEF Stop, Delete, ChatError, Disconnect, EndReq
<1> QED BY <1>1, <1>2, <1>3, <1>4, <1>5, <1>6, <1>7, <1>8, <1>9, <1>10, <1>11,
           <1>12 DEF RequestStep

\* Requests make no session RUNNING.
LEMMA RequestStatus ==
  ASSUME SettleInv, NEW r \in Requests,
         Find(r) \/ RequestStep(r) \/ ChatError(r) \/ Disconnect(r)
  PROVE  SettledStatus'
<1> USE DEF SettleInv, TypeInv, TypeOK
<1>1. CASE CreateSandbox(r)
  <2>1. status' # "running" BY <1>1 DEF CreateSandbox, SaveSession
  <2> QED BY <2>1 DEF SettledStatus
<1>2. CASE GetBrowser(r)
  <2>1. status' # "running" BY <1>2 DEF GetBrowser, SaveSession, SavesIdle
  <2> QED BY <2>1 DEF SettledStatus
<1>3. CASE CreateTask(r)
  <2>1. status' # "running" BY <1>3 DEF CreateTask, SaveSession, SavesIdle
  <2> QED BY <2>1 DEF SettledStatus
<1>4. CASE Run(r)
  <2>1. UNCHANGED <<exists, status, rpc, cancelling, restarts>>
    BY <1>4 DEF Run, docVars
  <2>2. \A t \in Tasks : exec[t] = "live" => exec'[t] = "live"
    BY <1>4 DEF Run, Done
  <2> QED BY <2>1, <2>2 DEF SettledStatus, WillSettle
<1>5. CASE Stop(r)
  <2>1. exists' => status' # "running" BY <1>5 DEF Stop, SetStatus
  <2> QED BY <2>1 DEF SettledStatus
<1>6. CASE Delete(r) BY <1>6 DEF Delete, SettledStatus
<1>7. CASE \/ Find(r) \/ Reuse(r) \/ Put(r) \/ StoreMessage(r) \/ Watch(r)
           \/ Read(r) \/ Loop(r) \/ ChatError(r) \/ Disconnect(r)
  <2>1. UNCHANGED <<exec, rpc, cancelling, restarts, exists, status>>
    BY <1>7 DEF Find, Reuse, Put, StoreMessage, Watch, Read, Loop, ChatError,
       Disconnect, docVars, runVars
  <2> QED BY <2>1, StatusUntouched
<1> QED BY <1>1, <1>2, <1>3, <1>4, <1>5, <1>6, <1>7 DEF RequestStep

\* Without a restart, a RUNNING session always has a runner that will settle it.
THEOREM StatusIsSettled == Spec => []SettledStatus
<1>1. Init => SettleInv
  BY InitType DEF Init, SettleInv, SettledStatus, SavesIdle
<1>2. SettleInv /\ TypeInv' /\ [Next]_vars => SettleInv'
  <2> SUFFICES ASSUME SettleInv, TypeInv', [Next]_vars
               PROVE  SettledStatus' /\ SavesIdle'
    BY DEF SettleInv
  <2>1. CASE \E t \in Tasks : RunnerStep(t) \/ Fail(t)
    <3>1. SettledStatus' BY <2>1, RunnerStatus DEF SettleInv
    <3>2. UNCHANGED <<pc, snap>>
      BY <2>1 DEF RunnerStep, Begin, NeverStarted, Prepare, Check, Pop, OpenFlow,
         MarkRunning, Emit, Store, Park, Peek, Settle, Fail, Cancelled, AbortStore,
         AbortSettle, Exit, reqVars
    <3> QED BY <3>1, <3>2 DEF SettleInv, SavesIdle
  <2>2. CASE \E r \in Requests :
               Find(r) \/ RequestStep(r) \/ ChatError(r) \/ Disconnect(r)
    BY <2>2, RequestStatus, RequestSavesIdle DEF SettleInv
  <2>3. CASE Restart
    <3>1. restarts' # 0 BY <2>3 DEF Restart, SettleInv, TypeInv, TypeOK
    <3>2. SavesIdle' BY <2>3 DEF Restart, SavesIdle
    <3> QED BY <3>1, <3>2 DEF SettledStatus
  <2>4. CASE UNCHANGED vars
    BY <2>4, StatusUntouched DEF SettleInv, SavesIdle, vars, docVars, runVars, reqVars
  <2> QED BY <2>1, <2>2, <2>3, <2>4 DEF Next
<1>3. SettleInv => SettledStatus
  BY DEF SettleInv
<1> QED BY <1>1, <1>2, <1>3, TypeCorrect, PTL DEF Spec

-----------------------------------------------------------------------------
(* The output streams *)

\* A client that has read all of the stream was told to stop.
Closed(t) == output[t] = <<>> \/ LastOf(output[t]) \in Closing

\* What the stream looks like at every point of a run.  The runner may only
\* leave its loop with an open stream when another message is waiting for it.
RunInv(t) ==
    /\ exec[t] # "live" \/ rpc[t] \in {"idle", "init", "park", "settle",
         "exit"} \cup Handler
          => Closed(t)
    /\ exec[t] = "live" /\ rpc[t] = "check" => Closed(t) \/ input[t] # <<>>
    /\ exec[t] = "live" /\ rpc[t] \in {"store", "peek"}
          => output[t] # <<>> /\ LastOf(output[t]) = event[t]

StreamInv == TypeInv /\ (restarts = 0 => \A t \in Tasks : RunInv(t))

\* A step of one runner leaves the other tasks' streams alone.
LEMMA RunnerStream ==
  ASSUME TypeInv, \A u \in Tasks : RunInv(u), NEW t \in Tasks,
         RunnerStep(t) \/ Fail(t)
  PROVE  \A u \in Tasks : RunInv(u)'
<1> USE DEF RunInv, Closed, AtRun, GoRun, Handler, TypeInv, TypeOK
<1>1. CASE Begin(t) BY <1>1 DEF Begin, redisVars
<1>2. CASE NeverStarted(t) BY <1>2 DEF NeverStarted, redisVars
<1>3. CASE Prepare(t) BY <1>3 DEF Prepare, redisVars
<1>4. CASE Check(t) BY <1>4 DEF Check, redisVars
<1>5. CASE Pop(t) BY <1>5 DEF Pop
<1>6. CASE MarkRunning(t) BY <1>6 DEF MarkRunning, redisVars
<1>7. CASE Store(t) BY <1>7 DEF Store, redisVars, Closing
<1>8. CASE Park(t) BY <1>8 DEF Park, redisVars
<1>9. CASE Peek(t) BY <1>9 DEF Peek, redisVars, Closing
<1>10. CASE Settle(t) BY <1>10 DEF Settle, redisVars
<1>11. CASE AbortStore(t) BY <1>11 DEF AbortStore, redisVars
<1>12. CASE AbortSettle(t) BY <1>12 DEF AbortSettle, redisVars
<1>13. CASE Exit(t) BY <1>13 DEF Exit, redisVars
<1>14. ASSUME NEW k \in Closing, Abort(t, k), UNCHANGED <<exec, event, input>>
       PROVE  \A u \in Tasks : RunInv(u)'
  <2>1. output'[t] = Append(output[t], k) /\ rpc'[t] = "abortstore"
    BY <1>14 DEF Abort
  <2>2. output[t] \in Seq(EventKind) /\ k \in EventKind
    BY DEF EventKind
  <2>3. Closed(t)'
    BY <2>1, <2>2, AppendGrows DEF LastOf
  <2>4. ASSUME NEW u \in Tasks, u # t PROVE RunInv(u)'
    BY <1>14, <2>4 DEF Abort
  <2>5. RunInv(t)'
    BY <2>1, <2>3
  <2> QED BY <2>4, <2>5
<1>15. CASE OpenFlow(t)
  <2>1. CASE exists BY <1>15, <2>1 DEF OpenFlow
  <2>2. CASE ~exists BY <1>15, <2>2, <1>14 DEF OpenFlow, Closing
  <2> QED BY <2>1, <2>2
<1>16. CASE Fail(t) BY <1>16, <1>14 DEF Fail, Closing
<1>17. CASE Cancelled(t)
  <2>1. CASE rpc[t] \in Body BY <1>17, <2>1, <1>14 DEF Cancelled, Closing
  <2>2. CASE rpc[t] \notin Body
    <3>1. rpc[t] \in Handler \cup {"idle"} BY <2>2 DEF RunPC
    <3> QED BY <1>17, <2>2, <3>1 DEF Cancelled
  <2> QED BY <2>1, <2>2
<1>18. CASE Emit(t)
  <2>1. PICK k \in EventKind : /\ event' = [event EXCEPT ![t] = k]
                               /\ output' = [output EXCEPT ![t] = Append(@, k)]
    BY <1>18 DEF Emit
  <2>2. event'[t] = k /\ output'[t] = Append(output[t], k) /\ rpc'[t] = "store"
    BY <1>18, <2>1 DEF Emit
  <2>3. output'[t] # <<>> /\ LastOf(output'[t]) = event'[t]
    <3>1. output[t] \in Seq(EventKind) OBVIOUS
    <3> HIDE DEF TypeInv, RunInv
    <3>2. /\ Append(output[t], k) # <<>>
          /\ LastOf(Append(output[t], k)) = k
      BY <3>1, AppendGrows
    <3> QED BY <2>2, <3>2
  <2>4. ASSUME NEW u \in Tasks, u # t PROVE RunInv(u)'
    BY <1>18, <2>1, <2>4 DEF Emit
  <2>5. exec'[t] = "live"
    BY <1>18 DEF Emit
  <2>6. RunInv(t)'
    BY <2>2, <2>3, <2>5 DEF LastOf
  <2> QED BY <2>4, <2>6
<1> QED BY <1>1, <1>2, <1>3, <1>4, <1>5, <1>6, <1>7, <1>8, <1>9, <1>10, <1>11,
           <1>12, <1>13, <1>15, <1>16, <1>17, <1>18 DEF RunnerStep

\* The requests only add to input streams and start executions that are over.
LEMMA RequestStream ==
  ASSUME TypeInv, \A u \in Tasks : RunInv(u), NEW r \in Requests,
         Find(r) \/ RequestStep(r) \/ ChatError(r) \/ Disconnect(r)
  PROVE  \A u \in Tasks : RunInv(u)'
<1> USE DEF RunInv, Closed, TypeInv, TypeOK
<1>1. CASE CreateTask(r) BY <1>1 DEF CreateTask, redisVars
<1>2. CASE Put(r)
  <2>1. ASSUME NEW u \in Tasks, input[u] # <<>> PROVE input'[u] # <<>>
    <3>1. Append(input[u], r) # <<>>
      <4>1. input[u] \in Seq(Chats) OBVIOUS
      <4>2. r \in Chats BY <1>2 DEF Put, ChatsPost
      <4> HIDE DEF TypeInv, RunInv
      <4> QED BY <4>1, <4>2, AppendGrows
    <3>2. input'[u] \in {input[u], Append(input[u], r)} BY <1>2 DEF Put
    <3> QED BY <2>1, <3>1, <3>2
  <2>2. UNCHANGED <<exec, rpc, event, output>> BY <1>2 DEF Put, runVars
  <2> QED BY <2>1, <2>2
<1>3. CASE Run(r) BY <1>3 DEF Run, Done, redisVars
<1>4. CASE \/ Find(r) \/ Reuse(r) \/ CreateSandbox(r) \/ GetBrowser(r)
           \/ StoreMessage(r) \/ Watch(r) \/ Read(r) \/ Loop(r) \/ Stop(r)
           \/ Delete(r) \/ ChatError(r) \/ Disconnect(r)
  <2>1. UNCHANGED <<exec, rpc, event, input, output>>
    BY <1>4 DEF Find, Reuse, CreateSandbox, GetBrowser, StoreMessage, Watch, Read,
       Loop, Stop, Delete, ChatError, Disconnect, runVars, redisVars
  <2> QED BY <2>1
<1> QED BY <1>1, <1>2, <1>3, <1>4 DEF RequestStep

\* Without a restart, the stream of a finished execution ends with an event at
\* which the chat loop of a client stops.
THEOREM StreamsEndClosing == Spec => []StreamEndsClosing
<1>1. Init => StreamInv
  BY InitType DEF Init, StreamInv, RunInv, Closed
<1>2. StreamInv /\ TypeInv' /\ [Next]_vars => StreamInv'
  <2> SUFFICES ASSUME StreamInv, TypeInv', [Next]_vars
               PROVE  restarts' = 0 => \A u \in Tasks : RunInv(u)'
    BY DEF StreamInv
  <2>1. CASE \E t \in Tasks : RunnerStep(t) \/ Fail(t)
    <3>1. UNCHANGED restarts
      BY <2>1 DEF RunnerStep, Begin, NeverStarted, Prepare, Check, Pop, OpenFlow,
         MarkRunning, Emit, Store, Park, Peek, Settle, Fail, Cancelled, AbortStore,
         AbortSettle, Exit
    <3> QED BY <2>1, <3>1, RunnerStream DEF StreamInv
  <2>2. CASE \E r \in Requests :
               Find(r) \/ RequestStep(r) \/ ChatError(r) \/ Disconnect(r)
    <3>1. UNCHANGED restarts
      BY <2>2 DEF RequestStep, Find, Reuse, CreateSandbox, GetBrowser, CreateTask,
         Put, StoreMessage, Run, Watch, Read, Loop, Stop, Delete, ChatError, Disconnect
    <3> QED BY <2>2, <3>1, RequestStream DEF StreamInv
  <2>3. CASE Restart
    BY <2>3 DEF Restart, StreamInv, TypeInv, TypeOK
  <2>4. CASE UNCHANGED vars
    BY <2>4 DEF StreamInv, RunInv, Closed, vars, runVars, redisVars
  <2> QED BY <2>1, <2>2, <2>3, <2>4 DEF Next
<1>3. StreamInv => StreamEndsClosing
  BY DEF StreamInv, StreamEndsClosing, RunInv, Closed
<1> QED BY <1>1, <1>2, <1>3, TypeCorrect, PTL DEF Spec
-----------------------------------------------------------------------------
(* The stored history *)

\* The agent entries of a history are entries of their task's stream.
InStream(S) == \A e \in S : e.by \in Tasks => e.pos \in 1 .. Len(output[e.by])

\* Copies of the document that are still to be saved count as much as the
\* document, and a runner that is to store an event has published one.
LogInv ==
    /\ TypeInv
    /\ InStream(log)
    /\ \A r \in Requests : InStream(snap[r].log)
    /\ \A t \in Tasks : rpc[t] \in {"store", "abortstore"} => output[t] # <<>>

\* Streams only grow, so what was in one stays there.
LEMMA StreamGrows ==
  ASSUME TypeInv, NEW t \in Tasks, NEW k \in EventKind,
         output' = [output EXCEPT ![t] = Append(@, k)]
  PROVE  /\ output'[t] # <<>>
         /\ \A u \in Tasks : Len(output'[u]) \in Nat /\ Len(output'[u]) >= Len(output[u])
         /\ \A u \in Tasks : output[u] # <<>> => output'[u] # <<>>
<1>1. output \in [Tasks -> Seq(EventKind)]
  BY DEF TypeInv, TypeOK
<1>2. output'[t] = Append(output[t], k) /\ \A u \in Tasks \ {t} : output'[u] = output[u]
  BY <1>1
<1>3. Append(output[t], k) # <<>>
  BY <1>1, AppendGrows
<1>4. Len(Append(output[t], k)) = Len(output[t]) + 1 /\ Len(output[t]) \in Nat
  BY <1>1
<1>5. ASSUME NEW u \in Tasks
      PROVE  /\ Len(output'[u]) \in Nat /\ Len(output'[u]) >= Len(output[u])
             /\ output[u] # <<>> => output'[u] # <<>>
  <2>1. CASE u = t BY <1>2, <1>3, <1>4, <2>1
  <2>2. CASE u # t BY <1>1, <1>2, <2>2
  <2> QED BY <2>1, <2>2
<1> QED BY <1>2, <1>3, <1>5

\* A step that publishes an event and goes on to store it.
LEMMA PublishLog ==
  ASSUME LogInv, NEW t \in Tasks, NEW k \in EventKind, NEW at \in RunPC,
         output' = [output EXCEPT ![t] = Append(@, k)], rpc' = [rpc EXCEPT ![t] = at],
         UNCHANGED <<log, snap>>
  PROVE  /\ InStream(log)' /\ \A r \in Requests : InStream(snap[r].log)'
         /\ \A u \in Tasks : rpc'[u] \in {"store", "abortstore"} => output'[u] # <<>>
<1>1. ASSUME NEW S \in SUBSET LogEntry, InStream(S), NEW e \in S, e.by \in Tasks
      PROVE  e.pos \in 1 .. Len(output'[e.by])
  <2>1. e.pos \in Nat /\ e.pos \in 1 .. Len(output[e.by])
    BY <1>1 DEF InStream, LogEntry
  <2>2. Len(output'[e.by]) \in Nat /\ Len(output'[e.by]) >= Len(output[e.by])
    BY <1>1, StreamGrows DEF LogInv
  <2>3. Len(output[e.by]) \in Nat
    BY <1>1 DEF LogInv, TypeInv, TypeOK
  <2> QED BY <2>1, <2>2, <2>3
<1>2. log \in SUBSET LogEntry /\ \A r \in Requests : snap[r].log \in SUBSET LogEntry
  BY DEF LogInv, TypeInv, TypeOK, Snapshot
<1>3. InStream(log)' /\ \A r \in Requests : InStream(snap[r].log)'
  BY <1>1, <1>2 DEF LogInv, InStream
<1>4. \A u \in Tasks : rpc'[u] \in {"store", "abortstore"} => output'[u] # <<>>
  BY StreamGrows DEF LogInv, TypeInv, TypeOK
<1> QED BY <1>3, <1>4

\* A step of a runner that leaves histories and streams alone and does not go on to
\* store an event.
LEMMA RunnerElsewhere ==
  ASSUME LogInv, UNCHANGED <<log, snap, output>>,
         \A u \in Tasks : rpc'[u] \in {"store", "abortstore"} => rpc'[u] = rpc[u]
  PROVE  /\ InStream(log)' /\ \A r \in Requests : InStream(snap[r].log)'
         /\ \A u \in Tasks : rpc'[u] \in {"store", "abortstore"} => output'[u] # <<>>
  BY DEF LogInv, InStream

\* The last event of the stream goes into the document.
LEMMA StoreLog ==
  ASSUME LogInv, NEW t \in Tasks, rpc[t] \in {"store", "abortstore"},
         AddEvent(AgentEntry(t, Len(output[t]))), UNCHANGED <<snap, output>>,
         NEW at \in RunPC \ {"store", "abortstore"}, rpc' = [rpc EXCEPT ![t] = at]
  PROVE  /\ InStream(log)' /\ \A r \in Requests : InStream(snap[r].log)'
         /\ \A u \in Tasks : rpc'[u] \in {"store", "abortstore"} => output'[u] # <<>>
<1>1. output[t] \in Seq(EventKind) /\ output[t] # <<>>
  BY DEF LogInv, TypeInv, TypeOK
<1>2. Len(output[t]) \in 1 .. Len(output[t])
  BY <1>1
<1>3. \A e \in log' : e \in log \/ e = AgentEntry(t, Len(output[t]))
  BY DEF AddEvent
<1>4. InStream(log)'
  BY <1>2, <1>3 DEF LogInv, InStream, AgentEntry
<1> QED BY <1>4 DEF LogInv, InStream, TypeInv, TypeOK

\* Every step of a runner keeps documents and copies behind the streams.
LEMMA RunnerLog ==
  ASSUME LogInv, NEW t \in Tasks, RunnerStep(t) \/ Fail(t)
  PROVE  /\ InStream(log)' /\ \A r \in Requests : InStream(snap[r].log)'
         /\ \A u \in Tasks : rpc'[u] \in {"store", "abortstore"} => output'[u] # <<>>
<1> USE DEF AtRun, GoRun, RunPC, Body, Handler
<1>1. ASSUME NEW k \in Closing, Abort(t, k), UNCHANGED <<log, snap>>
      PROVE  /\ InStream(log)' /\ \A r \in Requests : InStream(snap[r].log)'
             /\ \A u \in Tasks : rpc'[u] \in {"store", "abortstore"} => output'[u] # <<>>
  BY <1>1, PublishLog DEF Abort, EventKind
<1>2. CASE Emit(t)
  <2>1. PICK k \in EventKind : output' = [output EXCEPT ![t] = Append(@, k)]
    BY <1>2 DEF Emit
  <2> QED BY <1>2, <2>1, PublishLog DEF Emit, docVars, reqVars
<1>3. CASE OpenFlow(t)
  <2>1. CASE exists
    BY <1>3, <2>1, RunnerElsewhere DEF OpenFlow, docVars, reqVars, LogInv, TypeInv, TypeOK
  <2>2. CASE ~exists
    BY <1>3, <2>2, <1>1 DEF OpenFlow, docVars, reqVars, Closing
  <2> QED BY <2>1, <2>2
<1>4. CASE Fail(t)
  BY <1>4, <1>1 DEF Fail, docVars, reqVars, Closing
<1>5. CASE Cancelled(t)
  <2>1. CASE rpc[t] \in Body
    BY <1>5, <2>1, <1>1 DEF Cancelled, docVars, reqVars, Closing
  <2>2. CASE rpc[t] \notin Body
    BY <1>5, <2>2, RunnerElsewhere DEF Cancelled, docVars, reqVars, LogInv, TypeInv, TypeOK
  <2> QED BY <2>1, <2>2
<1>6. CASE Store(t)
  <2>1. PICK at \in {"park", "peek"} : rpc' = [rpc EXCEPT ![t] = at]
    BY <1>6 DEF Store
  <2> QED BY <1>6, <2>1, StoreLog DEF Store, redisVars, reqVars
<1>7. CASE AbortStore(t)
  BY <1>7, StoreLog DEF AbortStore, redisVars, reqVars
<1>8. CASE \/ Begin(t) \/ NeverStarted(t) \/ Prepare(t) \/ Check(t) \/ Pop(t)
           \/ MarkRunning(t) \/ Park(t) \/ Peek(t) \/ Settle(t) \/ AbortSettle(t)
           \/ Exit(t)
  <2>1. UNCHANGED <<log, snap, output>>
    BY <1>8 DEF Begin, NeverStarted, Prepare, Check, Pop, MarkRunning, Park, Peek, Settle,
       AbortSettle, Exit, docVars, redisVars, reqVars
  <2>2. \A u \in Tasks : rpc'[u] \in {"store", "abortstore"} => rpc'[u] = rpc[u]
    BY <1>8 DEF Begin, NeverStarted, Prepare, Check, Pop, MarkRunning, Park, Peek, Settle,
       AbortSettle, Exit, LogInv, TypeInv, TypeOK
  <2> QED BY <2>1, <2>2, RunnerElsewhere
<1> QED BY <1>2, <1>3, <1>4, <1>5, <1>6, <1>7, <1>8 DEF RunnerStep

\* What a request puts in the document is what it loaded, or an entry of its own; what
\* it loads is the document.
LEMMA RequestLogs ==
  ASSUME TypeInv, NEW r \in Requests,
         Find(r) \/ RequestStep(r) \/ ChatError(r) \/ Disconnect(r)
  PROVE  /\ UNCHANGED <<output, rpc>>
         /\ \A e \in log' : e \in log \/ e \in snap[r].log \/ e.by = r
         /\ \A q \in Requests : snap'[q].log \in {snap[q].log, log, {}}
<1> USE DEF TypeInv, TypeOK, SaveSession, AddEvent
<1>a. ASSUME DropSnap(r) \/ EndReq(r) \/ UNCHANGED snap, NEW q \in Requests
      PROVE  snap'[q].log \in {snap[q].log, {}}
  <2>1. NoSnap.log = {}
    BY DEF NoSnap
  <2>2. snap' = [snap EXCEPT ![r] = NoSnap] \/ snap' = snap
    BY <1>a DEF EndReq, DropSnap
  <2> QED BY <2>1, <2>2
<1>1. CASE Find(r)
  <2>1. output' = output /\ rpc' = rpc /\ log' = log
    BY <1>1 DEF Find, docVars, runVars, redisVars
  <2>2. CASE exists
    <3>1. snap' = [snap EXCEPT ![r] = [status |-> status, taskId |-> taskId, log |-> log]]
      BY <1>1, <2>2 DEF Find
    <3> QED BY <2>1, <3>1
  <2>3. CASE ~exists
    BY <1>1, <1>a, <2>1, <2>3 DEF Find
  <2> QED BY <2>2, <2>3
<1>2. CASE CreateSandbox(r) \/ GetBrowser(r)
  BY <1>2 DEF CreateSandbox, GetBrowser, runVars, redisVars
<1>3. CASE CreateTask(r)
  BY <1>3, <1>a DEF CreateTask, redisVars
<1>4. CASE StoreMessage(r)
  BY <1>4 DEF StoreMessage, UserEntry, runVars, redisVars
<1>5. CASE ChatError(r)
  BY <1>5, <1>a DEF ChatError, ErrorEntry, runVars, redisVars
<1>6. CASE Delete(r)
  BY <1>6, <1>a DEF Delete, runVars, redisVars
<1>7. CASE Stop(r)
  BY <1>7, <1>a DEF Stop, redisVars
<1>8. CASE \/ Reuse(r) \/ Watch(r) \/ Put(r) \/ Run(r) \/ Read(r) \/ Loop(r)
           \/ Disconnect(r)
  <2>1. output' = output /\ rpc' = rpc /\ log' = log
    BY <1>8 DEF Reuse, Watch, Put, Run, Read, Loop, Disconnect, docVars, runVars, redisVars
  <2>2. DropSnap(r) \/ EndReq(r) \/ UNCHANGED snap
    BY <1>8 DEF Reuse, Watch, Put, Run, Read, Loop, Disconnect
  <2> QED BY <1>a, <2>1, <2>2
<1> QED BY <1>1, <1>2, <1>3, <1>4, <1>5, <1>6, <1>7, <1>8 DEF RequestStep

\* The history in the document never runs ahead of the streams.
THEOREM HistoryFollowsStream == Spec => []PersistedWasPublished
<1>1. Init => LogInv
  BY InitType DEF Init, LogInv, InStream, NoSnap
<1>2. LogInv /\ TypeInv' /\ [Next]_vars => LogInv'
  <2> SUFFICES ASSUME LogInv, TypeInv', [Next]_vars
               PROVE  /\ InStream(log)' /\ \A r \in Requests : InStream(snap[r].log)'
                      /\ \A u \in Tasks : rpc'[u] \in {"store", "abortstore"}
                           => output'[u] # <<>>
    BY DEF LogInv
  <2>1. CASE \E t \in Tasks : RunnerStep(t) \/ Fail(t)
    BY <2>1, RunnerLog
  <2>2. ASSUME NEW r \in Requests, Find(r) \/ RequestStep(r) \/ ChatError(r)
          \/ Disconnect(r)
        PROVE  /\ InStream(log)' /\ \A q \in Requests : InStream(snap[q].log)'
               /\ \A u \in Tasks : rpc'[u] \in {"store", "abortstore"} => output'[u] # <<>>
    <3>1. /\ output' = output /\ rpc' = rpc
          /\ \A e \in log' : e \in log \/ e \in snap[r].log \/ e.by = r
          /\ \A q \in Requests : snap'[q].log \in {snap[q].log, log, {}}
      BY <2>2, RequestLogs DEF LogInv
    <3>2. r \notin Tasks
      BY SessionAssumption
    <3>3. InStream(log)'
      BY <3>1, <3>2 DEF LogInv, InStream
    <3>4. \A q \in Requests : InStream(snap[q].log)'
      BY <3>1 DEF LogInv, InStream
    <3> QED BY <3>1, <3>3, <3>4 DEF LogInv
  <2>3. CASE Restart
    BY <2>3 DEF Restart, LogInv, InStream, NoSnap, docVars, redisVars
  <2>4. CASE UNCHANGED vars
    BY <2>4 DEF LogInv, InStream, vars, docVars, runVars, redisVars, reqVars
  <2> QED BY <2>1, <2>2, <2>3, <2>4 DEF Next
<1>3. LogInv => PersistedWasPublished
  BY DEF LogInv, InStream, PersistedWasPublished
<1> QED BY <1>1, <1>2, <1>3, TypeCorrect, PTL DEF Spec

-----------------------------------------------------------------------------
(* The messages *)

\* Where a chat is before its message is on a stream.
Unposted == {"new", "found", "saved", "browsed", "put"}

\* The message of r is neither on a stream nor taken.
Nowhere(r) ==
    /\ r \notin taken
    /\ \A t \in Tasks : \A i \in 1 .. Len(input[t]) : input[t][i] # r

Unseen == \A r \in Chats : pc[r] \in Unposted => Nowhere(r)

MessageInv == TypeInv /\ NoDoubleProcessing /\ Unseen

\* Steps that neither put nor pop a message.
LEMMA MessagesUntouched ==
  ASSUME NoDoubleProcessing, Unseen, UNCHANGED <<input, taken>>,
         \A r \in Chats : pc'[r] \in Unposted => pc[r] \in Unposted
  PROVE  NoDoubleProcessing' /\ Unseen'
  BY DEF NoDoubleProcessing, Unseen, Nowhere

\* A message is put on one stream, once, by the chat that has it.
LEMMA PutMessage ==
  ASSUME MessageInv, NEW r \in Requests, Put(r)
  PROVE  NoDoubleProcessing' /\ Unseen'
<1> DEFINE s == ref[r]
<1>1. /\ r \in Chats /\ s \in Tasks /\ input \in [Tasks -> Seq(Chats)]
           /\ pc \in [Requests -> ReqPC]
      /\ Nowhere(r)
  BY DEF MessageInv, TypeInv, TypeOK, ChatsPost, Put, Unseen, Unposted
<1>2. /\ input' = [input EXCEPT ![s] = Append(@, r)] /\ taken' = taken
      /\ pc' = [pc EXCEPT ![r] = "posted"]
  BY DEF Put, GoReq
<1> HIDE DEF s
<1>3. /\ Len(input'[s]) = Len(input[s]) + 1 /\ Len(input[s]) \in Nat
      /\ \A i \in 1 .. Len(input[s]) : input'[s][i] = input[s][i]
      /\ input'[s][Len(input[s]) + 1] = r
      /\ \A u \in Tasks \ {s} : input'[u] = input[u]
  BY <1>1, <1>2
<1>4. ASSUME NEW u \in Tasks, NEW i \in 1 .. Len(input'[u])
      PROVE  \/ i \in 1 .. Len(input[u]) /\ input'[u][i] = input[u][i] /\ input[u][i] # r
             \/ u = s /\ i = Len(input[s]) + 1 /\ input'[u][i] = r
  BY <1>1, <1>3 DEF Nowhere
<1>5. ASSUME NEW u \in Tasks, NEW i \in 1 .. Len(input'[u])
      PROVE  /\ input'[u][i] \notin taken'
             /\ \A v \in Tasks : \A j \in 1 .. Len(input'[v]) :
                  input'[v][j] = input'[u][i] => v = u /\ j = i
  <2>1. CASE i \in 1 .. Len(input[u]) /\ input'[u][i] = input[u][i] /\ input[u][i] # r
    BY <1>2, <1>4, <2>1 DEF MessageInv, NoDoubleProcessing
  <2>2. CASE u = s /\ i = Len(input[s]) + 1 /\ input'[u][i] = r
    BY <1>1, <1>2, <1>4, <2>2 DEF Nowhere
  <2> QED BY <1>4, <2>1, <2>2
<1>6. ASSUME NEW q \in Chats, pc'[q] \in Unposted
      PROVE  Nowhere(q)'
  <2>1. q # r /\ q \in Requests /\ pc[q] \in Unposted
    BY <1>1, <1>2, <1>6 DEF Unposted, Requests, Readers
  <2>2. Nowhere(q)
    BY <2>1 DEF MessageInv, Unseen
  <2> QED BY <1>2, <1>4, <2>1, <2>2 DEF Nowhere
<1> QED BY <1>5, <1>6 DEF NoDoubleProcessing, Unseen

\* A runner takes the first message off its stream.
LEMMA PopMessage ==
  ASSUME MessageInv, NEW t \in Tasks, Pop(t)
  PROVE  NoDoubleProcessing' /\ Unseen'
<1>1. /\ input \in [Tasks -> Seq(Chats)] /\ input[t] # <<>>
      /\ input' = [input EXCEPT ![t] = Tail(@)] /\ taken' = taken \cup {Head(input[t])}
      /\ pc' = pc
  BY DEF MessageInv, TypeInv, TypeOK, QueueReady, Pop, AtRun, reqVars
<1>2. /\ Head(input[t]) = input[t][1] /\ Len(input[t]) \in Nat /\ 1 \in 1 .. Len(input[t])
      /\ Len(Tail(input[t])) = Len(input[t]) - 1
      /\ \A i \in 1 .. Len(input[t]) - 1 : Tail(input[t])[i] = input[t][i + 1]
  BY <1>1
<1>3. ASSUME NEW u \in Tasks, NEW i \in 1 .. Len(input'[u])
      PROVE  \E k \in 1 .. Len(input[u]) :
                input'[u][i] = input[u][k] /\ (IF u = t THEN k = i + 1 ELSE k = i)
  BY <1>1, <1>2
<1>4. ASSUME NEW u \in Tasks, NEW i \in 1 .. Len(input'[u])
      PROVE  /\ input'[u][i] \notin taken'
             /\ \A v \in Tasks : \A j \in 1 .. Len(input'[v]) :
                  input'[v][j] = input'[u][i] => v = u /\ j = i
  <2>1. PICK k \in 1 .. Len(input[u]) :
          input'[u][i] = input[u][k] /\ (IF u = t THEN k = i + 1 ELSE k = i)
    BY <1>3
  <2>2. input[u][k] \notin taken /\ input[u][k] # input[t][1]
    BY <1>2, <2>1 DEF MessageInv, NoDoubleProcessing
  <2>3. ASSUME NEW v \in Tasks, NEW j \in 1 .. Len(input'[v]), input'[v][j] = input'[u][i]
        PROVE  v = u /\ j = i
    <3>1. PICK m \in 1 .. Len(input[v]) :
            input'[v][j] = input[v][m] /\ (IF v = t THEN m = j + 1 ELSE m = j)
      BY <1>3
    <3>2. v = u /\ m = k
      <4>1. input[v][m] = input[u][k]
        BY <2>1, <2>3, <3>1
      <4>2. NoDoubleProcessing
        BY DEF MessageInv
      <4> QED BY <2>1, <3>1, <4>1, <4>2 DEF NoDoubleProcessing
    <3> QED BY <2>1, <3>1, <3>2
  <2> QED BY <1>1, <1>2, <2>1, <2>2, <2>3
<1>5. ASSUME NEW q \in Chats, pc'[q] \in Unposted
      PROVE  Nowhere(q)'
  <2>1. Nowhere(q)
    BY <1>1, <1>5 DEF MessageInv, Unseen
  <2>2. q # Head(input[t])
    BY <1>2, <2>1 DEF Nowhere
  <2> QED BY <1>1, <1>3, <2>1, <2>2 DEF Nowhere
<1> QED BY <1>4, <1>5 DEF NoDoubleProcessing, Unseen

\* The other steps of a request: none goes back to before its message was put.
LEMMA RequestMessages ==
  ASSUME MessageInv, NEW r \in Requests,
         Find(r) \/ RequestStep(r) \/ ChatError(r) \/ Disconnect(r)
  PROVE  NoDoubleProcessing' /\ Unseen'
<1> USE DEF MessageInv
<1>1. CASE Put(r)
  BY <1>1, PutMessage
<1>2. CASE \/ Find(r) \/ Reuse(r) \/ CreateSandbox(r) \/ GetBrowser(r) \/ CreateTask(r)
           \/ StoreMessage(r) \/ Run(r) \/ Watch(r) \/ Read(r) \/ Loop(r) \/ Stop(r)
           \/ Delete(r) \/ ChatError(r) \/ Disconnect(r)
  <2>1. UNCHANGED <<input, taken>>
    BY <1>2 DEF Find, Reuse, CreateSandbox, GetBrowser, CreateTask, StoreMessage, Run,
       Watch,
       Read, Loop, Stop, Delete, ChatError, Disconnect, redisVars
  <2>2. PICK at \in {"found", "put", "saved", "browsed", "run", "read", "loop", "end"} :
          /\ pc' = [pc EXCEPT ![r] = at]
          /\ at \in Unposted => pc[r] \in Unposted
    BY <1>2 DEF Find, Reuse, CreateSandbox, GetBrowser, CreateTask, StoreMessage, Run,
       Watch,
       Read, Loop, Stop, Delete, ChatError, Disconnect, EndReq, GoReq, Unposted
  <2>3. pc \in [Requests -> ReqPC] /\ Chats \subseteq Requests
    BY DEF TypeInv, TypeOK, Requests, Readers
  <2>4. \A q \in Chats : pc'[q] \in Unposted => pc[q] \in Unposted
    BY <2>2, <2>3
  <2> QED BY <2>1, <2>4, MessagesUntouched
<1> QED BY <1>1, <1>2 DEF RequestStep

\* No message is on two streams, or twice on one, or on one and taken.
THEOREM MessagesGoOnce == Spec => []NoDoubleProcessing
<1>1. Init => MessageInv
  BY InitType DEF Init, MessageInv, NoDoubleProcessing, Unseen, Nowhere
<1>2. MessageInv /\ TypeInv' /\ [Next]_vars => MessageInv'
  <2> SUFFICES ASSUME MessageInv, TypeInv', [Next]_vars
               PROVE  NoDoubleProcessing' /\ Unseen'
    BY DEF MessageInv
  <2>1. CASE \E t \in Tasks : RunnerStep(t) \/ Fail(t)
    <3>1. PICK t \in Tasks : RunnerStep(t) \/ Fail(t)
      BY <2>1
    <3>2. CASE Pop(t)
      BY <3>2, PopMessage
    <3>3. CASE ~Pop(t)
      <4>1. UNCHANGED <<input, taken, pc>>
        BY <3>1, <3>3 DEF RunnerStep, Begin, NeverStarted, Prepare, Check, OpenFlow,
           MarkRunning, Emit, Store, Park, Peek, Settle, Fail, Cancelled, AbortStore,
           AbortSettle, Exit, redisVars, reqVars
      <4> QED BY <4>1, MessagesUntouched DEF MessageInv
    <3> QED BY <3>2, <3>3
  <2>2. CASE \E r \in Requests :
               Find(r) \/ RequestStep(r) \/ ChatError(r) \/ Disconnect(r)
    BY <2>2, RequestMessages
  <2>3. CASE Restart
    <3>1. UNCHANGED <<input, taken>>
      BY <2>3 DEF Restart, redisVars
    <3>2. \A q \in Chats : pc'[q] \in Unposted => pc[q] \in Unposted
      BY <2>3 DEF Restart, Unposted, Requests, Readers
    <3> QED BY <3>1, <3>2, MessagesUntouched DEF MessageInv
  <2>4. CASE UNCHANGED vars
    BY <2>4, MessagesUntouched DEF MessageInv, vars, redisVars, reqVars
  <2> QED BY <2>1, <2>2, <2>3, <2>4 DEF Next
<1>3. MessageInv => NoDoubleProcessing
  BY DEF MessageInv
<1> QED BY <1>1, <1>2, <1>3, TypeCorrect, PTL DEF Spec
=============================================================================
