------------------------------ MODULE MCSandbox ------------------------------
(***************************************************************************)
(* The three services of a sandbox for TLC: the shell's, which this module     *)
(* extends, the timeout's and the files'.  They share no state, so a behaviour  *)
(* is one of one of them while the other two rest in an initial state: the      *)
(* states are the sum, not the product, of the three.  A client of the shell     *)
(* sends one command at a time; MCProgress has two, and kills.                   *)
(***************************************************************************)
EXTENDS ShellSession, TLC

CONSTANTS
    Default, Minutes, RpcFails, MaxTime,                    \* the timeout
    Jobs, Paths, Ops, SudoUse, Units, Texts, Ranges, MaxLength    \* the files

VARIABLES
    part,                                                       \* whose behaviour it is
    now, timing, deadline, auto, task, asleep, calling, request, services, wanted,
    file, dir, temp, req, before, crossed, torn

Timer == INSTANCE SupervisorTimeout WITH active <- timing

Files == INSTANCE SandboxFiles WITH Requests <- Jobs, NoFile <- None

ASSUME PartsAssumption == Timer!TimeoutAssumption /\ Files!SandboxFilesAssumption

\* Texts of two pieces, one of them a line end; the range is the second line of two.
TwoPieces == {<<>>, <<"x", "crlf">>, <<"crlf", "x">>}
OneRange  == {<<1, 2>>}
\* What is replaced, and what stays.
TwoUnits  == {<<>>, <<"x", "a">>}

Symmetry == Permutations(Jobs)

timerVars == <<now, timing, deadline, auto, task, asleep, calling, request, services, wanted>>
fileVars  == <<file, dir, temp, req, before, crossed, torn>>
allVars   == <<part, vars, timerVars, fileVars>>

AllInit ==
    /\ part \in {"shell", "timer", "files"}
    /\ part # "files" => file = [p \in Paths |-> None] /\ dir = {}
    /\ Init /\ Timer!Init /\ Files!Init

AllNext ==
    /\ UNCHANGED part
    /\ \/ part = "shell" /\ Next /\ UNCHANGED <<timerVars, fileVars>>
       \/ part = "timer" /\ Timer!Next /\ UNCHANGED <<vars, fileVars>>
       \/ part = "files" /\ Files!Next /\ UNCHANGED <<vars, timerVars>>

AllSpec == AllInit /\ [][AllNext]_allVars

-----------------------------------------------------------------------------
(* Properties, each of the module that defines and explains it; OneAlive,      *)
(* ViewMatchesConsole and NoOutputLost are ShellSession's own.                  *)

\* Type correctness of the three.
AllTypeOK == TypeOK /\ Timer!TypeOK /\ Files!TypeOK

\* A reader beside writers answers from what is there (file.py).
ReadsWhatIsThere == Files!ReadsWhatIsThere

\* A writer that no other crosses makes what it answers, or stops on the way to it.
AnsweredAsAsked == Files!AnsweredAsAsked

\* "Replace string in file": what is not replaced stays.
ReplaceKeepsTheRest == Files!ReplaceKeepsTheRest
=============================================================================
