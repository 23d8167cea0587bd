------------------------------ MODULE ShellSession ------------------------------
(***************************************************************************)
(* One shell session of the sandbox (ShellService): the entry that           *)
(* active_shells holds for it, the processes its commands started, the        *)
(* coroutine that reads the output of each, and the requests that run a        *)
(* command, write to the process, kill it, wait for it and view it.           *)
(*                                                                         *)
(* A step runs one coroutine up to its next await, or is the operating        *)
(* system's.  A process is named by the exec request that created it; output   *)
(* is a sequence of pieces, each named by the process, or the write request,    *)
(* it came from.                                                             *)
(***************************************************************************)
EXTENDS Naturals, Sequences, FiniteSets

CONSTANTS
    Execs, Writes, Kills, Waits,    \* the requests, by kind
    None,                           \* no session, no process
    Serial,                         \* TRUE: a client sends one command at a time
    Garbled,                        \* TRUE: a read may end within a character
    MaxOutput                       \* bound: pieces of output of one process

Requests == Execs \cup Writes \cup Kills \cup Waits

ASSUME ShellAssumption ==
    /\ Execs \cap (Writes \cup Kills \cup Waits) = {}
    /\ Writes \cap (Kills \cup Waits) = {} /\ Kills \cap Waits = {}
    /\ IsFiniteSet(Requests) /\ None \notin Requests
    /\ Serial \in BOOLEAN /\ Garbled \in BOOLEAN
    /\ MaxOutput \in Nat

VARIABLES
    shells,     \* the entries ever made, by the exec request that made them
    active,     \* the one in active_shells
    proc,       \* the processes
    made, pipe, \* per process: pieces it has written, and those not read yet
    reading,    \* processes whose output reader runs
    pc,         \* per request: where it waits
    ref,        \* per request: the local shell (exec) or process (the others)
    old,        \* per exec request: its old_process
    result      \* per exec request: what it answered

sessionVars == <<shells, active>>
osVars      == <<proc, made, pipe>>
vars        == <<sessionVars, osVars, reading, pc, ref, old, result>>

-----------------------------------------------------------------------------
Piece  == Execs \cup Writes
Record == [command : Execs, output : Seq(Piece)]          \* ConsoleRecord
Shell  == [process : Execs \cup {None}, output : Seq(Piece), console : Seq(Record)]
NoShell == [process |-> None, output |-> <<>>, console |-> <<>>]

NoResult == [status |-> "none", output |-> <<>>]
Current == shells[active]

TypeOK ==
    /\ shells \in [Execs -> Shell]
    /\ active \in Execs \cup {None}
    /\ proc \in [Execs -> {"none", "running", "killed", "ended"}]
    /\ made \in [Execs -> 0 .. MaxOutput]
    /\ pipe \in [Execs -> 0 .. MaxOutput]
    /\ reading \in SUBSET Execs
    /\ pc \in [Requests -> {"start", "terminate", "create", "install", "wait", "kill",
                            "reap", "done"}]
    /\ ref \in [Requests -> Execs \cup {None}]
    /\ old \in [Execs -> Execs \cup {None}]
    /\ result \in [Execs -> [status : {"none", "completed", "running", "failed"},
                             output : Seq(Piece)]]

Init ==
    /\ shells = [e \in Execs |-> NoShell]
    /\ active = None
    /\ proc = [e \in Execs |-> "none"]
    /\ made = [e \in Execs |-> 0] /\ pipe = [e \in Execs |-> 0]
    /\ reading = {}
    /\ pc = [r \in Requests |-> "start"]
    /\ ref = [r \in Requests |-> None]
    /\ old = [e \in Execs |-> None]
    /\ result = [e \in Execs |-> NoResult]

-----------------------------------------------------------------------------
Goto(r, at) == pc' = [pc EXCEPT ![r] = at]

\* Mutant of Add: the console is not kept up to date.
AddOutput(s, x) == [s EXCEPT !.output = Append(@, x)]

\* What x adds to the output of a shell and to its latest console record.
Add(s, x) ==
    [s EXCEPT !.output = Append(@, x),
              !.console[Len(s.console)].output = Append(@, x)]

Alive(p) == proc[p] \in {"running", "killed"}     \* returncode is None

-----------------------------------------------------------------------------
(* exec_command *)

\* A process of the session that is still running is asked to terminate.
Start(e) ==
    /\ pc[e] = "start"
    /\ Serial => \A x \in Execs : pc[x] \in {"start", "done"}
    /\ ref' = [ref EXCEPT ![e] = active]
    /\ old' = [old EXCEPT ![e] = IF active = None THEN None ELSE Current.process]
    /\ Goto(e, IF active # None /\ Alive(Current.process) THEN "terminate" ELSE "create")
    /\ UNCHANGED <<sessionVars, osVars, reading, result>>

\* Mutant of Terminate: after the second the old process is left alone.
TerminateSoftly(e) ==
    /\ pc[e] = "terminate"
    /\ Goto(e, "create")
    /\ UNCHANGED <<sessionVars, osVars, reading, ref, old, result>>

\* It ends within a second or is killed.
Terminate(e) ==
    /\ pc[e] = "terminate"
    /\ \/ /\ proc' = IF proc[old[e]] = "running" THEN [proc EXCEPT ![old[e]] = "killed"] ELSE proc
          /\ Goto(e, "create")
          /\ UNCHANGED result
       \* It ended by itself at the last moment, and there is none to kill.
       \/ /\ proc[old[e]] # "running"
          /\ result' = [result EXCEPT ![e].status = "failed"]
          /\ Goto(e, "done")
          /\ UNCHANGED proc
    /\ UNCHANGED <<sessionVars, made, pipe, reading, ref, old>>

\* Mutant of Create: a failure is an answer with a status of its own.
CreateError(e) ==
    /\ pc[e] = "create"
    /\ result' = [result EXCEPT ![e].status = "error"]
    /\ Goto(e, "done")
    /\ UNCHANGED <<sessionVars, osVars, reading, ref, old>>

\* create_subprocess_shell, or its failure.
Create(e) ==
    /\ pc[e] = "create"
    /\ \/ /\ proc' = [proc EXCEPT ![e] = "running"]
          /\ Goto(e, "install")
          /\ UNCHANGED result
       \/ /\ result' = [result EXCEPT ![e].status = "failed"]
          /\ Goto(e, "done")
          /\ UNCHANGED proc
    /\ UNCHANGED <<sessionVars, made, pipe, reading, ref, old>>

NewRecord(e) == [command |-> e, output |-> <<>>]

\* Mutant of Install: the console of the session starts anew.
InstallFresh(e) ==
    /\ pc[e] = "install"
    /\ active' = e
    /\ shells' = [shells EXCEPT ![e] = [process |-> e, output |-> <<>>,
                                        console |-> <<NewRecord(e)>>]]
    /\ reading' = reading \cup {e}
    /\ Goto(e, "wait")
    /\ UNCHANGED <<osVars, ref, old, result>>

\* The session is made, or its process and output are replaced; a reader is
\* started and wait_for_process takes the process up.
Install(e) ==
    /\ pc[e] = "install"
    /\ \/ /\ ref[e] = None
          /\ active' = e
          /\ shells' = [shells EXCEPT ![e] = [process |-> e, output |-> <<>>,
                                              console |-> <<NewRecord(e)>>]]
       \/ /\ ref[e] # None
          /\ shells' = [s \in Execs |->
               [process |-> IF s = active THEN e ELSE shells[s].process,
                output  |-> IF s = active THEN <<>> ELSE shells[s].output,
                console |-> IF s = ref[e] THEN Append(shells[s].console, NewRecord(e))
                                          ELSE shells[s].console]]
          /\ UNCHANGED active
    /\ reading' = reading \cup {e}
    /\ Goto(e, "wait")
    /\ UNCHANGED <<osVars, ref, old, result>>

\* The process has ended: view_shell gives the output of the session.
Completed(e) ==
    /\ pc[e] = "wait" /\ proc[e] = "ended"
    /\ result' = [result EXCEPT ![e] = [status |-> "completed", output |-> Current.output]]
    /\ Goto(e, "done")
    /\ UNCHANGED <<sessionVars, osVars, reading, ref, old>>

\* Five seconds have passed.
StillRunning(e) ==
    /\ pc[e] = "wait" /\ proc[e] # "ended"
    /\ result' = [result EXCEPT ![e].status = "running"]
    /\ Goto(e, "done")
    /\ UNCHANGED <<sessionVars, osVars, reading, ref, old>>

-----------------------------------------------------------------------------
(* write_to_process, kill_process, wait_for_process *)

\* The input is echoed to the session, unless its process has ended.
Write(w) ==
    /\ w \in Writes /\ pc[w] = "start" /\ active # None
    /\ shells' = IF Alive(Current.process)
                 THEN [shells EXCEPT ![active] = Add(@, w)] ELSE shells
    /\ Goto(w, "done")
    /\ UNCHANGED <<active, osVars, reading, ref, old, result>>

Kill(k) ==
    /\ k \in Kills /\ pc[k] = "start" /\ active # None
    /\ ref' = [ref EXCEPT ![k] = Current.process]
    /\ Goto(k, IF Alive(Current.process) THEN "kill" ELSE "done")
    /\ UNCHANGED <<sessionVars, osVars, reading, old, result>>

\* Mutant of KillHard: the process is asked a second time instead of killed.
KillSoftly(k) ==
    /\ pc[k] = "kill" /\ proc[ref[k]] # "ended"
    /\ Goto(k, "reap")
    /\ UNCHANGED <<sessionVars, osVars, reading, ref, old, result>>

\* Three seconds have passed.
KillHard(k) ==
    /\ pc[k] = "kill" /\ proc[ref[k]] # "ended"
    /\ proc' = [proc EXCEPT ![ref[k]] = "killed"]
    /\ Goto(k, "reap")
    /\ UNCHANGED <<sessionVars, made, pipe, reading, ref, old, result>>

Killed(k) ==
    /\ pc[k] \in {"kill", "reap"} /\ proc[ref[k]] = "ended"
    /\ Goto(k, "done")
    /\ UNCHANGED <<sessionVars, osVars, reading, ref, old, result>>

Wait(r) ==
    /\ r \in Waits /\ pc[r] = "start" /\ active # None
    /\ ref' = [ref EXCEPT ![r] = Current.process]
    /\ Goto(r, "wait")
    /\ UNCHANGED <<sessionVars, osVars, reading, old, result>>

\* The process has ended or the time is over.
Waited(r) ==
    /\ r \in Waits /\ pc[r] = "wait"
    /\ Goto(r, "done")
    /\ UNCHANGED <<sessionVars, osVars, reading, ref, old, result>>

-----------------------------------------------------------------------------
(* _start_output_reader and the operating system *)

Read(p) ==
    /\ p \in reading /\ pipe[p] > 0
    /\ pipe' = [pipe EXCEPT ![p] = @ - 1]
    /\ shells' = [shells EXCEPT ![active] = Add(@, p)]
    /\ UNCHANGED <<active, proc, made, reading, pc, ref, old, result>>

\* The read ends within a character: decode raises, and the reader ends.
ReadGarbled(p) ==
    /\ Garbled
    /\ p \in reading /\ pipe[p] > 0
    /\ pipe' = [pipe EXCEPT ![p] = @ - 1]
    /\ reading' = reading \ {p}
    /\ UNCHANGED <<sessionVars, proc, made, pc, ref, old, result>>

ReadEnd(p) ==
    /\ p \in reading /\ pipe[p] = 0 /\ proc[p] = "ended"
    /\ reading' = reading \ {p}
    /\ UNCHANGED <<sessionVars, osVars, pc, ref, old, result>>

Output(p) ==
    /\ proc[p] = "running" /\ made[p] < MaxOutput
    /\ made' = [made EXCEPT ![p] = @ + 1]
    /\ pipe' = [pipe EXCEPT ![p] = @ + 1]
    /\ UNCHANGED <<sessionVars, proc, reading, pc, ref, old, result>>

End(p) ==
    /\ Alive(p)
    /\ proc' = [proc EXCEPT ![p] = "ended"]
    /\ UNCHANGED <<sessionVars, made, pipe, reading, pc, ref, old, result>>

GoOn(e)   == Terminate(e) \/ Create(e) \/ Install(e) \/ Completed(e) \/ StillRunning(e)
Exec(e)   == Start(e) \/ GoOn(e)
Reader(p) == Read(p) \/ ReadGarbled(p) \/ ReadEnd(p)

Next ==
    \/ \E e \in Execs : Exec(e) \/ Reader(e) \/ Output(e) \/ End(e)
    \/ \E r \in Requests : Write(r) \/ Kill(r) \/ KillHard(r) \/ Killed(r) \/ Wait(r)
                             \/ Waited(r)

\* The loop resumes what can go on, time passes, and SIGKILL ends a process.
Fairness ==
    /\ \A e \in Execs : WF_vars(GoOn(e)) /\ WF_vars(Reader(e))
    /\ \A e \in Execs : WF_vars(proc[e] = "killed" /\ End(e))
    /\ \A k \in Kills : WF_vars(KillHard(k) \/ Killed(k))

Spec     == Init /\ [][Next]_vars
FairSpec == Spec /\ Fairness

-----------------------------------------------------------------------------
(* Properties *)

Busy(e) == pc[e] \notin {"start", "done"}

\* A command replaces the one before it: when no exec_command is under way, the
\* only process that may still run on its own is the session's (exec_command
\* terminates or kills the old one before it makes the new one).
OneAlive ==
    (\A e \in Execs : ~Busy(e)) =>
        \A p \in Execs : proc[p] = "running" => active # None /\ p = Current.process

\* What view_shell gives as the output of the session is the output of its
\* latest console record, whatever readers and writers add to the two.
ViewMatchesConsole ==
    active # None => Current.output = Current.console[Len(Current.console)].output

\* Nothing a process writes is lost while its reader lives: what the console
\* records hold of it and what waits in its pipe is all it has made, although a
\* later command clears the output of the session.
Kept(p, console) ==       \* where a console holds the pieces of p
    UNION {{<<i, j>> : j \in {k \in DOMAIN console[i].output : console[i].output[k] = p}} :
           i \in DOMAIN console}
NoOutputLost ==
    \A p \in reading : Cardinality(Kept(p, Current.console)) + pipe[p] = made[p]

\* Every exec_command and every kill_process comes to an end, whatever the
\* process does with SIGTERM (shell.py waits with a timeout, then kills).
RequestsEnd == \A r \in Execs \cup Kills : Busy(r) ~> pc[r] = "done"

\* What a command wrote is all read in the end ("Start a coroutine to
\* continuously read process output and store it").
OutputStored == \A p \in Execs : pipe[p] > 0 ~> pipe[p] = 0

\* A console record is one command with its output ("Command output").
OwnOutput ==
    \A s \in Execs : \A i \in DOMAIN shells[s].console :
        LET r == shells[s].console[i] IN
        \A j \in DOMAIN r.output : r.output[j] \in Execs => r.output[j] = r.command

=============================================================================
