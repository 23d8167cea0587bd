------------------------------ MODULE PlanActFlow ------------------------------
(***************************************************************************)
(* PlanActFlow.run with the planner and the execution agent it drives, over *)
(* the messages of one session: planning, executing a step with its tool    *)
(* loop, revising the plan, summarising, waiting for the user and resuming   *)
(* in a new task, being interrupted by a message, stopped, failing, and      *)
(* losing the process.                                                      *)
(*                                                                         *)
(* A step resumes the flow and runs it up to its next await.  The flow is a  *)
(* generator: at each event it yields, the runner publishes and stores the   *)
(* event and then looks at the input stream, and drops the generator if a    *)
(* message is there (AgentTaskRunner.run).  Flows of one session run one at  *)
(* a time: AgentSession says when the service does not see to that.         *)
(***************************************************************************)
EXTENDS Naturals, Sequences, FiniteSets

CONSTANTS
    MaxMessages,    \* bound: messages the user sends
    MaxSteps,       \* bound: plan steps the planner ever invents
    MaxCalls,       \* bound: tool calls in one answer of the model
    MaxIterations   \* BaseAgent.max_iterations, 100 in the code

ASSUME FlowAssumption ==
    /\ MaxMessages \in Nat
    /\ MaxSteps \in Nat
    /\ MaxCalls \in Nat
    /\ MaxIterations \in Nat \ {0}

VARIABLES
    session,    \* status of the session document
    stored,     \* the plan of the last PlanEvent in the session's events
    inbox,      \* messages on the task's input stream
    sent,       \* messages sent so far
    pc,         \* the await the run is at
    flow,       \* PlanActFlow.status; "gone" when there is no flow object
    plan,       \* PlanActFlow.plan
    step,       \* the local variable step
    idx,        \* the tool call of the model's answer that comes next
    got,        \* the calls whose results are in tool_responses
    iter,       \* turns of the tool loop so far
    memory,     \* the execution agent's conversation
    made,       \* steps invented so far
    asked,      \* the step that asked the user (history)
    told,       \* the steps whose completion the client was told (history)
    exhausted   \* some tool loop ran out of iterations (history)

sessionVars == <<session, stored, inbox, sent>>
loopVars    == <<idx, got, iter>>
history     == <<asked, told, exhausted>>
vars        == <<sessionVars, pc, flow, plan, step, loopVars, memory, made, history>>

-----------------------------------------------------------------------------
(* Plans *)

StepId == 1 .. MaxSteps
NoStep == 0
NoPlan == <<[id |-> NoStep, done |-> FALSE]>>   \* None

PlanStep == [id : StepId \cup {NoStep}, done : BOOLEAN]

\* Step i is the one get_next_step returns.
IsNext(p, i) == i \in 1 .. Len(p) /\ ~p[i].done /\ \A j \in 1 .. i - 1 : p[j].done
HasNext(p)  == \E i \in 1 .. Len(p) : ~p[i].done

\* n steps the planner invents.
NewSteps(n) == [i \in 1 .. n |-> [id |-> made + i, done |-> FALSE]]

-----------------------------------------------------------------------------
(* The execution agent's memory, as far as its tool calls go: the kind of   *)
(* the last message, the calls of the last answer of the model and which of  *)
(* them have been answered, and the calls a request to the model has left    *)
(* unanswered, each with the first call of its answer.  The planner calls no  *)
(* tools (tool_choice "none"), so its memory has nothing to roll back.       *)

Tool   == {"ask", "plain", "unknown"}
Calls  == UNION {[1 .. n -> Tool] : n \in 0 .. MaxCalls}
Memory == [last : {"none", "human", "ai", "tool"}, calls : Calls,
           answered : SUBSET (1 .. MaxCalls), lost : SUBSET (Tool \X Tool)]

Unanswered(m) == {<<m.calls[i], m.calls[1]>> : i \in DOMAIN m.calls \ m.answered}

AddHuman(m) ==
    [last |-> "human", calls |-> <<>>, answered |-> {},
     lost |-> m.lost \cup Unanswered(m)]

AddAI(m, calls) ==
    [last |-> "ai", calls |-> calls, answered |-> {},
     lost |-> m.lost \cup Unanswered(m)]

AddResults(m, S) ==
    IF S = {} THEN m ELSE [m EXCEPT !.last = "tool", !.answered = S]

DropLast(m) == [m EXCEPT !.last = "human", !.calls = <<>>, !.answered = {}]

\* Mutant of RollBack: an answer that asked the user is dropped like any other.
RollBackAll(m) ==
    IF m.last # "ai" \/ m.calls = <<>> THEN m ELSE DropLast(m)

\* Mutant of RollBack: only a question is looked after.
RollBackAsk(m) ==
    IF m.last # "ai" \/ m.calls = <<>> \/ m.calls[1] # "ask"
    THEN m
    ELSE AddResults(m, {1})

\* BaseAgent.roll_back: the user's message answers a question, any other
\* answer of the model with tool calls is taken back.
RollBack(m) ==
    IF m.last # "ai" \/ m.calls = <<>> THEN m
    ELSE IF m.calls[1] = "ask" THEN AddResults(m, {1})
    ELSE DropLast(m)

-----------------------------------------------------------------------------
FlowStatus == {"gone", "idle", "planning", "executing", "updating",
               "summarizing", "completed"}
Await      == {"start", "enter", "request", "model", "calls", "invoke", "finish",
               "titled", "advance", "done"}

TypeOK ==
    /\ session \in {"pending", "running", "waiting", "completed"}
    /\ stored \in Seq(PlanStep)
    /\ inbox \in Nat
    /\ sent \in Nat
    /\ pc \in Await \cup {"off", "loop"}
    /\ flow \in FlowStatus
    /\ plan \in Seq(PlanStep)
    /\ step \in StepId \cup {NoStep}
    /\ idx \in Nat
    /\ got \in SUBSET (1 .. MaxCalls)
    /\ iter \in 0 .. MaxIterations
    /\ memory \in Memory
    /\ made \in 0 .. MaxSteps
    /\ asked \in StepId \cup {NoStep}
    /\ told \in SUBSET StepId
    /\ exhausted \in BOOLEAN

Init ==
    /\ session = "pending"
    /\ stored = NoPlan
    /\ inbox = 0
    /\ sent = 0
    /\ pc = "off"
    /\ flow = "gone"
    /\ plan = NoPlan
    /\ step = NoStep
    /\ idx = 1 /\ got = {} /\ iter = 0
    /\ memory = [last |-> "none", calls |-> <<>>, answered |-> {}, lost |-> {}]
    /\ made = 0
    /\ asked = NoStep
    /\ told = {}
    /\ exhausted = FALSE

-----------------------------------------------------------------------------
(* Control *)

Goto(at) == pc' = at /\ UNCHANGED inbox

\* The flow yields: the runner goes on with it, or drops it for a new message.
Yield(at) ==
    IF inbox > 0
    THEN pc' = "start" /\ inbox' = inbox - 1
    ELSE Goto(at)

NewLoop == idx' = 1 /\ got' = {} /\ iter' = 0

\* BaseAgent.ask: the request goes to the model with the memory.
Ask(agent) ==
    /\ memory' = IF agent = "executor" THEN AddHuman(memory) ELSE memory
    /\ NewLoop
    /\ Goto("model")

Agent == IF flow \in {"planning", "updating"} THEN "planner" ELSE "executor"

-----------------------------------------------------------------------------
(* PlanActFlow.run up to its loop *)

\* The session is loaded.  Unless it is new, the agents roll back what an
\* earlier run left open; RUNNING means that run was interrupted, WAITING that
\* it asked.
Start ==
    /\ pc = "start"
    /\ memory' = IF session = "pending" THEN memory ELSE RollBack(memory)
    /\ flow' = CASE session = "running" -> "planning"
                 [] session = "waiting" -> "executing"
                 [] OTHER -> flow
    /\ step' = NoStep
    /\ NewLoop
    /\ Goto("enter")
    /\ UNCHANGED <<session, stored, sent, plan, made, history>>

\* Mutant of Enter: it writes the flow's status in place of the session's.
EnterFlowStatus ==
    /\ pc = "enter"
    /\ session' = flow
    /\ plan' = stored
    /\ Goto("loop")
    /\ UNCHANGED <<stored, sent, flow, step, loopVars, memory, made, history>>

Enter ==
    /\ pc = "enter"
    /\ session' = "running"
    /\ plan' = stored
    /\ Goto("loop")
    /\ UNCHANGED <<stored, sent, flow, step, loopVars, memory, made, history>>

-----------------------------------------------------------------------------
(* The loop: what runs, without an await, up to the first await of a state. *)

BeginPlan ==
    /\ pc = "loop"
    /\ flow \in {"idle", "planning"}
    /\ flow' = "planning"
    /\ Ask("planner")
    /\ UNCHANGED <<session, stored, sent, plan, step, made, history>>

\* The next step is announced.
StartStep ==
    /\ pc = "loop"
    /\ flow = "executing"
    /\ plan # NoPlan
    /\ \E i \in 1 .. Len(plan) : IsNext(plan, i) /\ step' = plan[i].id
    /\ Yield("request")
    /\ UNCHANGED <<session, stored, sent, flow, plan, loopVars, memory, made, history>>

RequestStep ==
    /\ pc = "request"
    /\ Ask("executor")
    /\ UNCHANGED <<session, stored, sent, flow, plan, step, made, history>>

BeginUpdate ==
    /\ pc = "loop"
    /\ flow = "updating"
    /\ step # NoStep
    /\ Ask("planner")
    /\ UNCHANGED <<session, stored, sent, flow, plan, step, made, history>>

\* No step is left (or the flow object was left summarising).
BeginSummary ==
    /\ pc = "loop"
    /\ \/ flow = "executing" /\ plan # NoPlan /\ ~HasNext(plan)
       \/ flow = "summarizing"
    /\ flow' = "summarizing"
    /\ Ask("executor")
    /\ UNCHANGED <<session, stored, sent, plan, step, made, history>>

\* PlanEvent COMPLETED.
Complete ==
    /\ pc = "loop"
    /\ flow = "completed"
    /\ plan # NoPlan
    /\ stored' = plan
    /\ Yield("done")
    /\ UNCHANGED <<session, sent, flow, plan, step, loopVars, memory, made, history>>

\* DoneEvent; the runner takes the next message or sets COMPLETED.
Done ==
    /\ pc = "done"
    /\ flow' = "idle"
    /\ Yield("off")
    /\ session' = IF inbox > 0 THEN session ELSE "completed"
    /\ UNCHANGED <<stored, sent, plan, step, loopVars, memory, made, history>>

-----------------------------------------------------------------------------
(* BaseAgent.execute *)

\* The model answers.  The planner is told to call no tools.
Respond ==
    /\ pc = "model"
    /\ \E calls \in IF Agent = "executor" THEN Calls ELSE {<<>>} :
         memory' = IF Agent = "executor" THEN AddAI(memory, calls) ELSE memory
    /\ idx' = 1 /\ got' = {}
    /\ Goto("calls")
    /\ UNCHANGED <<session, stored, sent, flow, plan, step, iter, made, history>>

\* The calls of the answer being worked on.
Pending == IF Agent = "executor" THEN memory.calls ELSE <<>>

InLoop == pc = "calls" /\ iter < MaxIterations

\* An answer without tool calls ends the loop.
Conclude ==
    /\ InLoop
    /\ Pending = <<>>
    /\ Goto("finish")
    /\ UNCHANGED <<session, stored, sent, flow, plan, step, loopVars, memory, made,
                   history>>

\* The range is used up before the answer is looked at: an ErrorEvent, and the
\* answer is taken for the result all the same.
Exhaust ==
    /\ pc = "calls"
    /\ iter = MaxIterations
    /\ exhausted' = TRUE
    /\ Yield("finish")
    /\ UNCHANGED <<session, stored, sent, flow, plan, step, loopVars, memory, made,
                   asked, told>>

\* An unknown tool: an ErrorEvent, and no result for the call.
Unknown ==
    /\ InLoop
    /\ idx <= Len(Pending) /\ Pending[idx] = "unknown"
    /\ idx' = idx + 1
    /\ Yield("calls")
    /\ UNCHANGED <<session, stored, sent, flow, plan, step, got, iter, memory, made,
                   history>>

\* ToolEvent CALLING; for a question of a step, the question itself.
Call ==
    /\ InLoop
    /\ idx <= Len(Pending) /\ Pending[idx] # "unknown"
    /\ Yield("invoke")
    /\ UNCHANGED <<session, stored, sent, flow, plan, step, loopVars, memory, made,
                   history>>

\* invoke_tool returns a result or, after its retries, the error text.
Invoke ==
    /\ pc = "invoke"
    /\ ~(flow = "executing" /\ Pending[idx] = "ask")
    /\ got' = got \cup {idx}
    /\ idx' = idx + 1
    /\ Yield("calls")
    /\ UNCHANGED <<session, stored, sent, flow, plan, step, iter, memory, made, history>>

\* execute_step turns a question's result into a WaitEvent: WAITING, and the
\* run is over.
Wait ==
    /\ pc = "invoke"
    /\ flow = "executing" /\ Pending[idx] = "ask"
    /\ session' = "waiting"
    /\ asked' = step
    /\ Goto("off")
    /\ UNCHANGED <<stored, sent, flow, plan, step, loopVars, memory, made, told,
                   exhausted>>

\* All calls done: their results go to the model.
SendResults ==
    /\ InLoop
    /\ Pending # <<>> /\ idx > Len(Pending)
    /\ memory' = AddResults(memory, got)
    /\ iter' = iter + 1
    /\ Goto("model")
    /\ UNCHANGED <<session, stored, sent, flow, plan, step, idx, got, made, history>>

-----------------------------------------------------------------------------
(* What each state makes of the agent's final message *)

\* create_plan: the flow takes the plan over and announces its title ...
TakePlan ==
    /\ pc = "finish"
    /\ flow = "planning"
    /\ \E n \in 0 .. MaxSteps - made :
         plan' = NewSteps(n) /\ made' = made + n
    /\ Yield("titled")
    /\ UNCHANGED <<session, stored, sent, flow, step, loopVars, memory, history>>

\* ... and then the plan itself.
StorePlan ==
    /\ pc = "titled"
    /\ stored' = plan
    /\ Yield("advance")
    /\ UNCHANGED <<session, sent, flow, plan, step, loopVars, memory, made, history>>

\* execute_step: the step is COMPLETED, whatever happened in its tool loop.
FinishStep ==
    /\ pc = "finish"
    /\ flow = "executing"
    /\ plan' = [i \in DOMAIN plan |->
                  IF plan[i].id = step THEN [plan[i] EXCEPT !.done = TRUE] ELSE plan[i]]
    /\ told' = told \cup {step}
    /\ Yield("advance")
    /\ UNCHANGED <<session, stored, sent, flow, step, loopVars, memory, made, asked,
                   exhausted>>

\* Mutant of Revise: the PlanEvent carries the plan as it was.
ReviseUnstored ==
    /\ pc = "finish"
    /\ flow = "updating"
    /\ \E n \in 0 .. MaxSteps - made :
         /\ plan' = IF HasNext(plan)
                    THEN SelectSeq(plan, LAMBDA s : s.done) \o NewSteps(n)
                    ELSE plan
         /\ made' = made + n
    /\ Yield("advance")
    /\ UNCHANGED <<session, stored, sent, flow, step, loopVars, memory, history>>

\* update_plan: the finished steps stay, new ones replace the rest.
Revise ==
    /\ pc = "finish"
    /\ flow = "updating"
    /\ \E n \in 0 .. MaxSteps - made :
         /\ plan' = IF HasNext(plan)
                    THEN SubSeq(plan, 1, (CHOOSE i \in 1 .. Len(plan) : IsNext(plan, i)) - 1)
                            \o NewSteps(n)
                    ELSE plan
         /\ made' = made + n
    /\ stored' = plan'
    /\ Yield("advance")
    /\ UNCHANGED <<session, sent, flow, step, loopVars, memory, history>>

FinishSummary ==
    /\ pc = "finish"
    /\ flow = "summarizing"
    /\ Yield("advance")
    /\ UNCHANGED <<session, stored, sent, flow, plan, step, loopVars, memory, made,
                   history>>

\* Mutant of Advance: the plan is not revised between two steps.
AdvanceStraight ==
    /\ pc = "advance"
    /\ flow' = CASE flow = "planning" -> IF plan = <<>> THEN "completed" ELSE "executing"
                 [] flow \in {"executing", "updating"} -> "executing"
                 [] OTHER -> "completed"
    /\ Goto("loop")
    /\ UNCHANGED <<session, stored, sent, plan, step, loopVars, memory, made, history>>

\* The flow moves on once the agent's generator is used up.
Advance ==
    /\ pc = "advance"
    /\ flow' = CASE flow = "planning" -> IF plan = <<>> THEN "completed" ELSE "executing"
                 [] flow = "executing" -> "updating"
                 [] flow = "updating" -> "executing"
                 [] OTHER -> "completed"
    /\ Goto("loop")
    /\ UNCHANGED <<session, stored, sent, plan, step, loopVars, memory, made, history>>

FlowStep ==
    \/ Start \/ Enter \/ BeginPlan \/ StartStep \/ RequestStep \/ BeginUpdate
    \/ BeginSummary \/ Complete \/ Done \/ Respond \/ Conclude \/ Exhaust
    \/ Unknown \/ Call \/ Invoke \/ Wait \/ SendResults \/ TakePlan \/ StorePlan
    \/ FinishStep \/ Revise \/ FinishSummary \/ Advance

-----------------------------------------------------------------------------
(* The runner and the service around the flow *)

\* A chat on a session that is not RUNNING makes a new task, with a new flow.
NewTask ==
    /\ pc = "off"
    /\ session # "running"
    /\ sent < MaxMessages
    /\ sent' = sent + 1
    /\ flow' = "idle"
    /\ inbox' = 0
    /\ pc' = "start"
    /\ UNCHANGED <<session, stored, plan, step, loopVars, memory, made, history>>

\* A chat that found the task while it was going runs it again after its end:
\* the same flow object, in the state it was left in.
Rerun ==
    /\ pc = "off"
    /\ flow # "gone"
    /\ sent < MaxMessages
    /\ sent' = sent + 1
    /\ pc' = "start"
    /\ told' = {}
    /\ UNCHANGED <<session, stored, inbox, flow, plan, step, loopVars, memory, made,
                   asked, exhausted>>

\* A message for the run that is going on.
Message ==
    /\ pc # "off"
    /\ session = "running"
    /\ sent < MaxMessages
    /\ sent' = sent + 1
    /\ inbox' = inbox + 1
    /\ UNCHANGED <<session, stored, pc, flow, plan, step, loopVars, memory, made, history>>

\* An attribute of None: no plan to work on, or no step to report.
Broken ==
    /\ pc = "loop"
    /\ \/ flow \in {"executing", "completed"} /\ plan = NoPlan
       \/ flow = "updating" /\ step = NoStep

\* Any await may raise, or throw the CancelledError of a stop request.
Abort ==
    /\ pc \in Await \/ Broken
    /\ session' = "completed"
    /\ Goto("off")
    /\ UNCHANGED <<stored, sent, flow, plan, step, loopVars, memory, made, history>>

\* A stop request while nothing runs.
Stop ==
    /\ pc = "off"
    /\ session' = "completed"
    /\ UNCHANGED <<stored, inbox, sent, pc, flow, plan, step, loopVars, memory, made,
                   history>>

\* The process is lost, and with it the flow.
Crash ==
    /\ pc # "off"
    /\ flow' = "gone"
    /\ Goto("off")
    /\ UNCHANGED <<session, stored, sent, plan, step, loopVars, memory, made, history>>

Next == FlowStep \/ NewTask \/ Rerun \/ Message \/ Abort \/ Stop \/ Crash

Spec == Init /\ [][Next]_vars

-----------------------------------------------------------------------------
(* Properties *)

\* When the session waits for the user, the plan that the next task will load
\* from the stored events has as its first unfinished step the very step that
\* asked, so the answer goes to the step it is for.
ResumesAsker ==
    session = "waiting" =>
        \E i \in 1 .. Len(stored) : IsNext(stored, i) /\ stored[i].id = asked

\* A step of which the client was told that it is completed is not started
\* again: not after a revision of the plan, not after a question and its
\* answer, not after a stop, a failure or a crash.  (A chat that runs an old
\* task again may repeat one: the flow is where it was, the plan is not.)
NoStepTwice == pc = "request" => step \notin told

\* The flow summarises and completes only a plan without an unfinished step, the
\* one it has loaded for an old task that runs again as well.
SummaryIsLast ==
    flow \in {"summarizing", "completed"} /\ pc \in (Await \cup {"loop"}) \ {"start", "enter"} =>
        ~HasNext(plan)

\* A run that resumes a session that waited goes on with a conversation that ends
\* with the question and the user's answer to it, when the model asked that alone,
\* even if an earlier attempt to resume was lost after its roll back.
AnswerReachesQuestion ==
    [][session = "waiting" /\ memory.calls = <<"ask">> /\ pc' = "enter" =>
         memory'.last = "tool" /\ memory'.calls = <<"ask">> /\ memory'.answered = {1}]_vars

\* However runs end (waiting, interrupted, stopped, failed, lost), the model is
\* never sent a call without its result, except a call of an unknown tool and a
\* call made beside a question; unless a tool loop ran out of iterations.
CallsAnswered ==
    exhausted \/ \A c \in memory.lost : c[1] = "unknown" \/ c[2] = "ask"

-----------------------------------------------------------------------------
(* A statement of the repository that the code does not keep *)

\* message_ask_user: "Ask user a question and wait for response".  Once the
\* question is put, the run goes no further.
AskWaits ==
    [][pc = "invoke" /\ Pending[idx] = "ask" /\ pc' # pc => pc' = "off"]_vars
=============================================================================
