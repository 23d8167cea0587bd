------------------------ MODULE SupervisorTimeoutProofs ------------------------
(***************************************************************************)
(* The deadline a user set for a sandbox is kept, for any default, any      *)
(* minutes asked for and any bound on the time.                             *)
(*                                                                         *)
(* What makes it inductive: the only timer that may sleep is the one the    *)
(* service knows, and it is due at the deadline; and once the user has       *)
(* asked, the middleware is off until the timeout is cancelled.              *)
(***************************************************************************)
EXTENDS SupervisorTimeout, TLAPS

\* The timer that is known is the deadline's, and no other sleeps.
OneTimer == task = deadline /\ asleep \subseteq {task}

\* While there is a deadline of the user's, requests do not extend it.
UsersOwn == wanted # None => ~auto /\ deadline = wanted

IInv == TypeOK /\ OneTimer /\ UsersOwn

-----------------------------------------------------------------------------
\* What a new deadline makes of the variables of the timer.
LEMMA SetDeadline ==
    ASSUME TypeOK, OneTimer, NEW minutes \in Minutes \cup {Default}, SetTimeout(minutes)
    PROVE  /\ active' = TRUE /\ deadline' \in Time /\ task' = deadline'
           /\ deadline' # None /\ asleep' = {deadline'}
<1>1. minutes \in Nat /\ now + minutes \in Time /\ now + minutes # None
  BY TimeoutAssumption DEF SetTimeout, TypeOK, Time
<1>2. active' = TRUE /\ deadline' = now + minutes /\ task' = now + minutes
  BY DEF SetTimeout, SetupTimer
<1>3. asleep' = {now + minutes}
  BY DEF SetTimeout, SetupTimer, OneTimer
<1>4. QED
  BY <1>1, <1>2, <1>3

\* A minute that is asked for is one of the constants.
LEMMA Asked == \A m \in Minutes : OrDefault(m) \in Minutes \cup {Default}
  BY DEF OrDefault

\* Cancelling leaves no timer asleep.
LEMMA NothingSleeps == ASSUME OneTimer PROVE asleep \ {task} = {}
  BY DEF OneTimer

\* Every step keeps the types, the one timer and the user's deadline.
LEMMA InvStep == IInv /\ [Next]_vars => IInv'
<1> SUFFICES ASSUME IInv, [Next]_vars PROVE IInv'
  OBVIOUS
<1> USE TimeoutAssumption DEF IInv
<1>1. ASSUME NEW m \in Minutes, UserSets(m) PROVE IInv'
  <2>1. /\ active' = TRUE /\ deadline' \in Time /\ task' = deadline'
        /\ deadline' # None /\ asleep' = {deadline'}
    BY <1>1, Asked, SetDeadline DEF UserSets
  <2>2. auto' = FALSE /\ wanted' = deadline'
          /\ UNCHANGED <<now, calling, request, services>>
    BY <1>1 DEF UserSets
  <2>3. QED
    BY <2>1, <2>2 DEF TypeOK, OneTimer, UsersOwn
<1>2. CASE ApiRequest
  <2>1. /\ active' = TRUE /\ deadline' \in Time /\ task' = deadline'
        /\ deadline' # None /\ asleep' = {deadline'}
    BY <1>2, SetDeadline DEF ApiRequest
  <2>2. auto /\ UNCHANGED <<now, auto, calling, request, services, wanted>>
    BY <1>2 DEF ApiRequest, Extends
  <2>3. QED
    BY <2>1, <2>2 DEF TypeOK, OneTimer, UsersOwn
<1>3. CASE CancelTimeout
  BY <1>3, NothingSleeps DEF CancelTimeout, TypeOK, OneTimer, UsersOwn
<1>4. ASSUME NEW t \in Time, Fire(t) PROVE IInv'
  BY <1>4 DEF Fire, TypeOK, OneTimer, UsersOwn
<1>5. ASSUME NEW t \in Time, ShutdownCall(t) PROVE IInv'
  BY <1>5 DEF ShutdownCall, timerVars, TypeOK, OneTimer, UsersOwn
<1>6. ASSUME NEW kind \in {"stop", "restart", "shutdown"}, Control(kind) PROVE IInv'
  <2>1. /\ request' \in {"none", "stop", "restart", "shutdown"}
        /\ services' \in {"up", "stopping", "stopped", "down"}
        /\ UNCHANGED <<now, auto, calling, wanted>>
    BY <1>6 DEF Control, TypeOK
  <2>2. CASE Extends
    <3>1. /\ active' = TRUE /\ deadline' \in Time /\ task' = deadline'
          /\ deadline' # None /\ asleep' = {deadline'}
      BY <1>6, <2>2, SetDeadline DEF Control
    <3>2. QED
      BY <2>1, <2>2, <3>1 DEF Extends, TypeOK, OneTimer, UsersOwn
  <2>3. CASE ~Extends
    BY <1>6, <2>1, <2>3 DEF Control, timerVars, TypeOK, OneTimer, UsersOwn
  <2>4. QED
    BY <2>2, <2>3
<1>7. CASE Stopped
  BY <1>7 DEF Stopped, TypeOK, OneTimer, UsersOwn
<1>8. CASE Tick
  BY <1>8 DEF Tick, timerVars, TypeOK, Time, OneTimer, UsersOwn
<1>9. CASE UNCHANGED vars
  BY <1>9 DEF vars, timerVars, TypeOK, OneTimer, UsersOwn
<1>10. QED
  BY <1>1, <1>2, <1>3, <1>4, <1>5, <1>6, <1>7, <1>8, <1>9 DEF Next

\* The service starts with the timer of the default, if there is one.
LEMMA InvInit == Init => IInv
<1> SUFFICES ASSUME Init PROVE IInv
  OBVIOUS
<1>1. Default \in Time \cup {None}
  BY TimeoutAssumption DEF Time
<1>2. (Default # None) \in BOOLEAN
  OBVIOUS
<1>3. active \in BOOLEAN
  BY <1>2, Zenon DEF Init
<1>4. active <=> deadline # None
  BY DEF Init
<1>5. asleep \subseteq Time /\ asleep \subseteq {task}
  BY <1>1 DEF Init
<1>6. QED
  BY <1>1, <1>3, <1>4, <1>5, TimeoutAssumption
     DEF Init, IInv, TypeOK, OneTimer, UsersOwn, Time

-----------------------------------------------------------------------------
\* The deadline, the timers and the requests keep their types, and the timeout is
\* active exactly when it has a deadline (SupervisorService).
THEOREM TypesHold == Spec => []TypeOK
<1>1. IInv => TypeOK
  BY DEF IInv
<1>2. QED
  BY InvInit, InvStep, <1>1, PTL DEF Spec

\* No request of the API, and no older timer, takes the place of the deadline that
\* the user set (disable_auto_expand, _setup_timer).
THEOREM UserHasTheSay == Spec => []UserDecides
<1>1. IInv => UserDecides
  BY DEF IInv, OneTimer, UsersOwn, UserDecides
<1>2. QED
  BY InvInit, InvStep, <1>1, PTL DEF Spec
=============================================================================
