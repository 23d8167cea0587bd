------------------------------ MODULE MCProgress ------------------------------
(***************************************************************************)
(* What must come to an end, for TLC: the timeout of a sandbox, which this       *)
(* module extends, the creation of a claw, the commands of a shell, the streams   *)
(* of a claw's plugin, the calls of the web client and the shutdown of the         *)
(* backend.  As in MCSandbox a behaviour is one of one part, under that part's    *)
(* own fairness; the others rest where their fairness asks nothing of them.     *)
(***************************************************************************)
EXTENDS SupervisorTimeout, Sequences, FiniteSets

CONSTANTS Creates, Gets, Deletes, Chats, Execs, Kills, Tasks

VARIABLES
    part,
    doc, live, ids, pc, claw, found, todo, stage, readied, removed,
    shells, current, proc, made, pipe, reading, at, ref, old, result,
    sd, stores, registry, iter, cur, exec, status, mcp, container, running, destroyed,
    gen, starts, link, ready, conns, init, handlers, requests, bound, stream, run, fetch,
    access, refresh, user, owner, expired, flight, queue, call

\* With one create request and without a crash, ClawLifecycle says why; here a chat and
\* the setting of a key race the provisioning, too.
Life == INSTANCE ClawLifecycle WITH Keys <- Kills, MayCrash <- FALSE

\* Commands at the same time.
Shell == INSTANCE ShellSession WITH
    active <- current, pc <- at, Writes <- {}, Waits <- {}, Serial <- FALSE, Garbled <- FALSE, MaxOutput <- 1

Shutdown == INSTANCE TaskShutdown WITH live <- running

Gate == INSTANCE GatewayBridge WITH
    cur <- gen, Streams <- Gets, Fetches <- Chats, MaxStarts <- 2, MaxConns <- 1, MaxPieces <- 0

\* Also while the user logs out and in.
Refresh == INSTANCE TokenRefresh WITH
    Calls <- Execs, Streams <- Deletes, People <- {"ann"}, Tight <- FALSE, MaxTokens <- 2

ASSUME Gate!GatewayAssumption /\ Refresh!RefreshAssumption
ASSUME Life!ClawAssumption /\ Shell!ShellAssumption

lifeVars     == <<doc, live, ids, pc, claw, found, todo, stage, readied, removed>>
shellVars    == <<shells, current, proc, made, pipe, reading, at, ref, old, result>>
shutdownVars == <<sd, stores, registry, iter, cur, exec, status, mcp, container, running,
                  destroyed>>
gateVars     == <<gen, starts, link, ready, conns, init, handlers, requests, bound, stream, run,
                  fetch>>
callVars     == <<access, refresh, user, owner, expired, flight, queue, call>>
allVars      == <<part, vars, lifeVars, shellVars, shutdownVars, gateVars, callVars>>

\* A sandbox that was shut down at the end of time.
TimerRests ==
    /\ now = MaxTime /\ active = FALSE /\ deadline = None /\ auto = TRUE /\ task = None
    /\ asleep = {} /\ calling = {}
    /\ request = "shutdown" /\ services = "down" /\ wanted = None

\* A backend that was shut down with no task in its registry.
ShutdownRests ==
    /\ sd = "ended" /\ stores = "closed" /\ registry = <<>>
    /\ iter = [size |-> 0, next |-> 1] /\ cur = CHOOSE t \in Tasks : TRUE
    /\ exec = [t \in Tasks |-> "done"] /\ status = [t \in Tasks |-> "completed"]
    /\ mcp = {} /\ container = {} /\ running = {} /\ destroyed = {}

AllInit ==
    /\ part \in {"life", "shell", "timer", "shutdown", "gate", "calls"}
    /\ Life!Init /\ Shell!Init /\ Gate!Init /\ Refresh!Init
    /\ IF part = "timer" THEN Init ELSE TimerRests
    /\ IF part = "shutdown" THEN Shutdown!Init ELSE ShutdownRests

AllNext ==
    /\ UNCHANGED part
    /\ \/ /\ part = "life" /\ Life!Next
          /\ UNCHANGED <<shellVars, vars, shutdownVars, gateVars, callVars>>
       \/ /\ part = "shell" /\ Shell!Next
          /\ UNCHANGED <<lifeVars, vars, shutdownVars, gateVars, callVars>>
       \/ /\ part = "timer" /\ Next
          /\ UNCHANGED <<lifeVars, shellVars, shutdownVars, gateVars, callVars>>
       \/ /\ part = "shutdown" /\ Shutdown!Next
          /\ UNCHANGED <<lifeVars, shellVars, vars, gateVars, callVars>>
       \/ /\ part = "gate" /\ Gate!Next
          /\ UNCHANGED <<lifeVars, shellVars, vars, shutdownVars, callVars>>
       \/ /\ part = "calls" /\ Refresh!Next
          /\ UNCHANGED <<lifeVars, shellVars, vars, shutdownVars, gateVars>>

AllSpec == /\ AllInit /\ [][AllNext]_allVars
           /\ Life!Fairness /\ Shell!Fairness /\ Fairness /\ Shutdown!Fairness
           /\ Gate!Fairness /\ Refresh!Fairness

-----------------------------------------------------------------------------
(* Properties, each of the module that defines and explains it; UserDecides is *)
(* SupervisorTimeout's own.                                                    *)

\* A claw that is being created does not stay so (provision_claw_instance).
CreatingSettles == Life!CreatingSettles

\* Every exec_command and kill_process of a shell, every stream and fetch of a
\* plugin that is not stopped under it, and every call of the web client ends.
RequestsEnd == Shell!RequestsEnd /\ Gate!StreamsEnd /\ Refresh!CallsEnd

\* An active timeout shuts the services down or is cancelled, and the shutdown of
\* the backend ends, even if a runner's destroy() does not.
ShutdownsEnd == ShutsDown /\ Shutdown!ShutdownEnds
=============================================================================
