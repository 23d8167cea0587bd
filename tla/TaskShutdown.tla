---------------------------- MODULE TaskShutdown ----------------------------
(***************************************************************************)
(* The end of the backend process (lifespan in main.py, down to            *)
(* RedisStreamTask.destroy and AgentTaskRunner.destroy) while tasks are    *)
(* still running: MongoDB and Redis are closed, then every task in the     *)
(* registry is to be cancelled and its runner destroyed.                   *)
(***************************************************************************)
EXTENDS Naturals, SequencesExt

CONSTANT Tasks

VARIABLES
    sd,         \* where the shutdown is
    stores,     \* MongoDB and Redis answer
    registry,   \* RedisStreamTask._task_registry: a dictionary keeps its order
    iter,       \* the loop over it: its size at the start, the next position
    cur,        \* the task being destroyed
    exec,       \* task -> its execution
    status,     \* task -> the status in its session's document
    mcp,        \* tasks whose MCP toolkit has been initialized
    container,  \* tasks whose container is there
    live,       \* history: tasks running when the shutdown began
    destroyed   \* history: tasks whose runner.destroy() returned

vars == <<sd, stores, registry, iter, cur, exec, status, mcp, container, live, destroyed>>

Over == {"ended", "changed", "raised", "late"}

Init == /\ sd = "serving" /\ stores = "open"
        /\ registry \in SetToSeqs(Tasks)
        /\ iter = [size |-> 0, next |-> 1] /\ cur = registry[1]
        /\ exec = [t \in Tasks |-> "running"] /\ status = [t \in Tasks |-> "running"]
        /\ mcp = {} /\ container = Tasks /\ live = {} /\ destroyed = {}

(* The executions.  At the end of each the registry loses it.               *)

Registered == {registry[i] : i \in DOMAIN registry}
Unregister(t) == registry' = SelectSeq(registry, LAMBDA u : u # t)

Initialized(t) ==
    /\ exec[t] = "running" /\ t \notin mcp /\ mcp' = mcp \cup {t}
    /\ UNCHANGED <<sd, stores, registry, iter, cur, exec, status, container, live, destroyed>>

\* The flow is done, or the handler of a cancellation runs: DoneEvent and status are saved.
Finish(t) ==
    /\ exec[t] \in {"running", "cancelling"} /\ stores = "open"
    /\ exec' = [exec EXCEPT ![t] = "done"] /\ status' = [status EXCEPT ![t] = "completed"]
    /\ Unregister(t)
    /\ UNCHANGED <<sd, stores, iter, cur, mcp, container, live, destroyed>>

\* The next command of the flow, and then the handler's, raise.
Fail(t) ==
    /\ exec[t] \in {"running", "cancelling"} /\ stores = "closed"
    /\ exec' = [exec EXCEPT ![t] = "done"] /\ Unregister(t)
    /\ UNCHANGED <<sd, stores, iter, cur, status, mcp, container, live, destroyed>>

(* The shutdown.                                                            *)

Go(to) == sd' = to

CloseStores ==
    /\ sd = "serving" /\ Go("closed") /\ stores' = "closed"
    /\ live' = {t \in Tasks : exec[t] = "running"}
    /\ UNCHANGED <<registry, iter, cur, exec, status, mcp, container, destroyed>>

StartLoop ==
    /\ sd = "closed" /\ Go("loop")
    /\ iter' = [size |-> Len(registry), next |-> 1]
    /\ UNCHANGED <<stores, registry, cur, exec, status, mcp, container, live, destroyed>>

\* The loop's next key raises when the dictionary has changed size.
SizeChanged ==
    /\ sd = "loop" /\ Len(registry) # iter.size /\ Go("changed")
    /\ UNCHANGED <<stores, registry, iter, cur, exec, status, mcp, container, live, destroyed>>

LoopEnds ==
    /\ sd = "loop" /\ Len(registry) = iter.size /\ iter.next > iter.size
    /\ Go("ended") /\ registry' = <<>>
    /\ UNCHANGED <<stores, iter, cur, exec, status, mcp, container, live, destroyed>>

\* cancel() removes the task from the registry at once.
CancelNext ==
    /\ sd = "loop" /\ Len(registry) = iter.size /\ iter.next <= iter.size /\ Go("destroy")
    /\ LET t == registry[iter.next] IN
        /\ cur' = t /\ Unregister(t) /\ iter' = [iter EXCEPT !.next = @ + 1]
        /\ exec' = [exec EXCEPT ![t] = IF @ = "running" THEN "cancelling" ELSE @]
    /\ UNCHANGED <<stores, status, mcp, container, live, destroyed>>

\* DockerSandbox.destroy() asks for self.container_name; the attribute of the class
\* is _container_name, so the removal raises and is logged.
HasContainerName == FALSE
DestroySandbox ==
    /\ sd = "destroy" /\ Go("cleanup")
    /\ container' = IF HasContainerName THEN container \ {cur} ELSE container
    /\ UNCHANGED <<stores, registry, iter, cur, exec, status, mcp, live, destroyed>>

\* MCPToolkit.cleanup() reads self.manager, which initialized() sets.
CleanUp ==
    /\ sd = "cleanup" /\ cur \in mcp /\ Go("loop") /\ destroyed' = destroyed \cup {cur}
    /\ UNCHANGED <<stores, registry, iter, cur, exec, status, mcp, container, live>>

CleanUpFails ==
    /\ sd = "cleanup" /\ cur \notin mcp /\ Go("raised")
    /\ UNCHANGED <<stores, registry, iter, cur, exec, status, mcp, container, live, destroyed>>

\* Mutant of TimesOut: nobody limits the wait.
NoTimeout == FALSE /\ UNCHANGED vars

\* wait_for gives all of it 30 seconds.
TimesOut ==
    /\ sd \in {"loop", "destroy", "cleanup"} /\ Go("late")
    /\ UNCHANGED <<stores, registry, iter, cur, exec, status, mcp, container, live, destroyed>>

Loop == SizeChanged \/ LoopEnds \/ CancelNext

Next == \/ CloseStores \/ StartLoop \/ Loop \/ DestroySandbox \/ CleanUp \/ CleanUpFails \/ TimesOut
        \/ \E t \in Tasks : Initialized(t) \/ Finish(t) \/ Fail(t)

Spec == Init /\ [][Next]_vars

\* The loop's own steps are the event loop's; what a runner's destroy() waits for,
\* an HTTP client, a container, MCP servers, may take for ever.
Fairness == WF_vars(CloseStores) /\ WF_vars(StartLoop) /\ WF_vars(Loop) /\ WF_vars(TimesOut)

(***************************************************************************)
(* Properties                                                              *)
(***************************************************************************)

\* Type correctness.
TypeOK ==
    /\ sd \in {"serving", "closed", "loop", "destroy", "cleanup"} \cup Over
    /\ stores \in {"open", "closed"} /\ Registered \subseteq Tasks /\ cur \in Tasks
    /\ iter.size \in 0..Cardinality(Tasks) /\ iter.next \in 1..Cardinality(Tasks) + 1
    /\ exec \in [Tasks -> {"running", "cancelling", "done"}]
    /\ status \in [Tasks -> {"running", "completed"}]
    /\ UNION {mcp, container, live, destroyed} \subseteq Tasks

\* The shutdown ends, even if a runner's destroy() does not.
ShutdownEnds == <>(sd \in Over)

\* "Destroy all task instances.": those that ran when the shutdown began, unless a
\* runner's own destroy() raised or took too long.
AllDestroyed == sd \in {"ended", "changed"} => live \subseteq destroyed

\* "Destroy Docker sandbox": a destroyed task's container is removed.
ContainerRemoved == destroyed \cap container = {}
=============================================================================
