--------------------------- MODULE SupervisorTimeout ---------------------------
(***************************************************************************)
(* The timeout of a sandbox: the supervisor service keeps a deadline and a   *)
(* task that sleeps until then and shuts supervisord down; API requests       *)
(* extend it (auto_extend_timeout_middleware) until the user takes it over;    *)
(* and the service can stop, restart or shut down everything itself, its own   *)
(* process included.                                                         *)
(*                                                                         *)
(* A step runs the event loop between two awaits, or is an RPC of supervisord. *)
(* A timer is named by the minute it is due.                                  *)
(***************************************************************************)
EXTENDS Naturals

CONSTANTS
    Default,      \* SERVICE_TIMEOUT_MINUTES, or None
    Minutes,      \* what a user asks for; 0 stands for nothing too
    None,
    RpcFails,     \* whether a call of supervisord may fail
    MaxTime       \* bound: the last minute of a behaviour

ASSUME TimeoutAssumption ==
    /\ Default \in Nat \cup {None} /\ None \notin Nat
    /\ Minutes \subseteq Nat
    /\ RpcFails \in BOOLEAN
    /\ MaxTime \in Nat
    /\ Default # None => Default <= MaxTime

VARIABLES
    now,
    active,       \* timeout_active
    deadline,     \* shutdown_time
    auto,         \* _auto_expand_enabled
    task,         \* shutdown_task, by its due minute; it may have ended
    asleep,       \* timers that sleep
    calling,      \* timers inside their call of shutdown, in a thread
    request,      \* stop, restart or shutdown under way for a client
    services,     \* what supervisord runs, this service included
    wanted        \* the deadline the user asked for last (history)

timerVars == <<active, deadline, task, asleep>>
vars      == <<now, timerVars, auto, calling, request, services, wanted>>

-----------------------------------------------------------------------------
Time == 0 .. MaxTime
Up   == services \in {"up", "stopping"}      \* this process still runs

TypeOK ==
    /\ now \in Time
    /\ active \in BOOLEAN /\ auto \in BOOLEAN
    /\ deadline \in Time \cup {None} /\ task \in Time \cup {None}
    /\ active <=> deadline # None
    /\ asleep \in SUBSET Time /\ calling \in SUBSET Time
    /\ request \in {"none", "stop", "restart", "shutdown"}
    /\ services \in {"up", "stopping", "stopped", "down"}
    /\ wanted \in Time \cup {None}

Init ==
    /\ now = 0
    /\ active = (Default # None)
    /\ deadline = Default /\ task = Default
    /\ asleep = {Default} \ {None}
    /\ auto = TRUE
    /\ calling = {}
    /\ request = "none" /\ services = "up"
    /\ wanted = None

-----------------------------------------------------------------------------
\* The task is cancelled, which ends its sleep but not a call in a thread.
SetupTimer(due) ==
    /\ task' = due
    /\ asleep' = (asleep \ {task}) \cup {due}

\* activate_timeout and extend_timeout, which differ in their answer only.
SetTimeout(minutes) ==
    /\ minutes # None
    /\ now + minutes <= MaxTime
    /\ active' = TRUE
    /\ deadline' = now + minutes
    /\ SetupTimer(now + minutes)

OrDefault(minutes) == IF minutes = 0 THEN Default ELSE minutes

\* The two routes: from now on the user controls the timeout.
UserSets(minutes) ==
    /\ Up
    /\ SetTimeout(OrDefault(minutes))
    /\ auto' = FALSE
    /\ wanted' = deadline'
    /\ UNCHANGED <<now, calling, request, services>>

\* Mutant of Extends: the middleware forgets that the user took over.
ExtendsAlways == Default # None /\ active

\* The middleware, on any request but those about the timeout.
Extends == Default # None /\ active /\ auto

ApiRequest ==
    /\ Up /\ Extends
    /\ SetTimeout(Default)
    /\ UNCHANGED <<now, auto, calling, request, services, wanted>>

CancelTimeout ==
    /\ Up /\ active
    /\ asleep' = asleep \ {task} /\ task' = None
    /\ active' = FALSE /\ deadline' = None
    /\ auto' = TRUE
    /\ wanted' = None
    /\ UNCHANGED <<now, calling, request, services>>

-----------------------------------------------------------------------------
(* shutdown_after_timeout *)

Fire(t) ==
    /\ Up /\ t \in asleep /\ t <= now
    /\ asleep' = asleep \ {t}
    /\ calling' = calling \cup {t}
    /\ UNCHANGED <<now, active, deadline, task, auto, request, services, wanted>>

ShutdownCall(t) ==
    /\ Up /\ t \in calling
    /\ calling' = calling \ {t}
    /\ services' = "down" \/ (RpcFails /\ UNCHANGED services)
    /\ UNCHANGED <<now, timerVars, auto, request, wanted>>

-----------------------------------------------------------------------------
(* stop_all_services, restart_all_services, shutdown *)

\* stopAllProcesses stops this service with the others, and answers once all
\* have stopped: the code after it, the start of a restart too, is not reached.
\* The request is one of those that extend the timeout, when that is enabled.
Control(kind) ==
    /\ services = "up" /\ request = "none"
    /\ IF Extends THEN SetTimeout(Default) ELSE UNCHANGED timerVars
    /\ \/ /\ request' = kind
          /\ services' = "stopping"
       \/ RpcFails /\ UNCHANGED <<request, services>>
    /\ UNCHANGED <<now, auto, calling, wanted>>

\* The service, waiting for the answer, does not end by itself and is killed.
Stopped ==
    /\ services = "stopping"
    /\ services' = IF request = "shutdown" THEN "down" ELSE "stopped"
    /\ asleep' = {} /\ calling' = {}
    /\ UNCHANGED <<now, active, deadline, task, auto, request, wanted>>

Tick ==
    /\ now < MaxTime
    /\ now' = now + 1
    /\ UNCHANGED <<timerVars, auto, calling, request, services, wanted>>

Next ==
    \/ \E m \in Minutes : UserSets(m)
    \/ ApiRequest \/ CancelTimeout
    \/ \E t \in Time : Fire(t) \/ ShutdownCall(t)
    \/ \E kind \in {"stop", "restart", "shutdown"} : Control(kind)
    \/ Stopped \/ Tick

\* Time passes, the loop wakes the timer that is due, supervisord answers.
Fairness ==
    /\ WF_vars(Tick) /\ WF_vars(Stopped)
    /\ WF_vars(\E t \in Time : Fire(t)) /\ WF_vars(\E t \in Time : ShutdownCall(t))

Spec     == Init /\ [][Next]_vars
FairSpec == Spec /\ Fairness

-----------------------------------------------------------------------------
(* Properties *)

\* A deadline the user set stays until the user changes it, and no other timer
\* sleeps: requests to the API move it no more (disable_auto_expand), and each
\* new timer takes the place of the one before it (_setup_timer).
UserDecides == wanted # None => deadline = wanted /\ asleep \subseteq {wanted}

\* Services with an active timeout are shut down in the end, or the timeout is
\* cancelled, if supervisord answers ("automatically shut down all services
\* after the set time").
ShutsDown == active ~> (~active \/ services # "up")

\* "Cancel timeout feature": once it is cancelled no timer shuts anything down.
CancelHolds == ~active => calling = {}

\* "Restart all services": what was stopped for it runs again.
RestartsServices == request = "restart" ~> services = "up"
=============================================================================
