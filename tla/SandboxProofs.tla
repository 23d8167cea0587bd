----------------------------- MODULE SandboxProofs -----------------------------
(***************************************************************************)
(* The services of a sandbox (MCSandbox), for any number of requests, any     *)
(* output, any texts and any bounds.                                        *)
(*                                                                         *)
(* A shell session whose client sends one command at a time (Serial): the    *)
(* command replaces the one before it, what is viewed is what the console      *)
(* holds, and no output of a process is lost while its reader lives.  An        *)
(* exec_command looks at the session once, at its start, and uses what it      *)
(* saw after several awaits.  SameSession says that this is still the session, *)
(* since no other command is under way (OneBusy); with it the processes that    *)
(* may run are known at every point of the command (AliveIs), and the pieces    *)
(* of output can be counted (Accounted).                                       *)
(*                                                                         *)
(* Files that any number of requests read and write a piece at a time: a      *)
(* writer that crosses no other stands where Stand says, its file holds what   *)
(* it has written so far (Grown), and a reader beside it has units of that or   *)
(* of the old text (ReaderIs).  Crossings says who crosses whom.               *)
(***************************************************************************)
EXTENDS MCSandbox, FiniteSetTheorems, SequenceTheorems, WellFoundedInduction, TLAPS

\* There is a session whenever a request or a reader uses one, it has a process
\* and a console record, and no pipe holds more than was written to it.
Session ==
    /\ (\E e \in Execs : pc[e] = "wait") \/ reading # {} => active # None
    /\ \A r \in Requests : ref[r] # None => active # None
    /\ active # None => Current.process \in Execs /\ Current.console # <<>>
    /\ \A p \in Execs : pipe[p] <= made[p]

OneBusy == \A e, x \in Execs : Busy(e) /\ Busy(x) => e = x

\* What a command saw of the session at its start is still so.
SameSession ==
    \A e \in Execs :
        pc[e] \in {"terminate", "create", "install"} =>
            /\ ref[e] = active
            /\ active # None => old[e] = Current.process
            /\ pc[e] = "terminate" => active # None

\* A process that may run on its own is the session's, or the new one; and once the
\* old one is dealt with it is the new one only.
AliveIs ==
    \A p \in Execs : proc[p] = "running" =>
        \/ pc[p] = "install"
        \/ /\ active # None /\ p = Current.process
           /\ \A e \in Execs : pc[e] \notin {"create", "install"}

\* Until a command is installed nothing of its output is read.
Coming == {"start", "terminate", "create", "install"}
Accounted ==
    \A p \in Execs :
        /\ p \in reading => /\ IsFiniteSet(Kept(p, Current.console))
                            /\ Cardinality(Kept(p, Current.console)) + pipe[p] = made[p]
        /\ pc[p] \in Coming => p \notin reading /\ pipe[p] = made[p]
        /\ pc[p] \in Coming /\ active # None => Kept(p, Current.console) = {}

Inv == TypeOK /\ Session

SerialInv == OneBusy /\ SameSession /\ AliveIs /\ ViewMatchesConsole /\ Accounted

-----------------------------------------------------------------------------
(* Shells and their consoles *)

\* A piece that is added goes to the output and to the latest record.
LEMMA AddFacts ==
    ASSUME NEW s \in Shell, NEW x \in Piece
    PROVE  /\ Add(s, x) \in Shell
           /\ Add(s, x).process = s.process /\ Add(s, x).output = Append(s.output, x)
           /\ Len(Add(s, x).console) = Len(s.console)
           /\ \A i \in 1 .. Len(s.console) :
                /\ i = Len(s.console) =>
                     Add(s, x).console[i].output = Append(s.console[i].output, x)
                /\ i # Len(s.console) => Add(s, x).console[i] = s.console[i]
<1> DEFINE n == Len(s.console)
           new == Append(s.console[n].output, x)
           console == [s.console EXCEPT ![n].output = new]
<1>1. /\ s.console \in Seq(Record) /\ s.output \in Seq(Piece)
           /\ s.process \in Execs \cup {None}
      /\ DOMAIN s.console = 1 .. n /\ n \in Nat
  BY DEF Shell
<1>2. /\ Add(s, x).process = s.process /\ Add(s, x).output = Append(s.output, x)
      /\ Add(s, x).console = console
  BY DEF Add, Shell
<1>3. console \in Seq(Record) /\ Len(console) = n
  <2>1. CASE n = 0
    <3>1. n \notin DOMAIN s.console
      BY <1>1, <2>1
    <3>2. s.console = [i \in DOMAIN s.console |-> s.console[i]]
      BY <1>1
    <3>3. console = s.console
      BY <3>1, <3>2
    <3> HIDE DEF console
    <3>4. QED
      BY <1>1, <3>3
  <2>2. CASE n # 0
    <3>0. s.console[n] \in Record
      BY <1>1, <2>2
    <3>1. s.console[n] \in Record /\ s.console[n].output \in Seq(Piece)
      BY <3>0 DEF Record
    <3>2. new \in Seq(Piece)
      BY <3>1
    <3>3. [s.console[n] EXCEPT !.output = new] \in Record
      BY <3>1, <3>2 DEF Record
    <3>4. console = [s.console EXCEPT ![n] = [s.console[n] EXCEPT !.output = new]]
      OBVIOUS
    <3> HIDE DEF console, new
    <3>5. QED
      BY <1>1, <2>2, <3>3, <3>4
  <2>3. QED
    BY <2>1, <2>2
<1>4. \A i \in 1 .. n : /\ i = n => console[i].output = Append(s.console[i].output, x)
                       /\ i # n => console[i] = s.console[i]
  BY <1>1 DEF Record
<1>5. Add(s, x) \in Shell
  <2>1. Append(s.output, x) \in Seq(Piece)
    BY <1>1
  <2>2. Add(s, x) = [s EXCEPT !.output = Append(s.output, x), !.console = console]
    BY DEF Add, Shell
  <2> HIDE DEF console
  <2>3. QED
    BY <1>1, <1>3, <2>1, <2>2 DEF Shell
<1>6. QED
  BY <1>1, <1>2, <1>3, <1>4, <1>5

\* The record of a new command.
LEMMA NewRecordIsRecord == \A e \in Execs : NewRecord(e) \in Record
  /\ NewRecord(e).output = <<>>
  BY DEF NewRecord, Record

\* The session is one of the shells.
LEMMA CurrentIsShell == TypeOK /\ active # None => active \in Execs /\ Current \in Shell
  BY DEF TypeOK, Current

\* Replacing the entry of the session leaves it what the new one says.
LEMMA InstallFacts ==
    ASSUME TypeOK, Session, NEW e \in Execs, Install(e)
    PROVE  /\ shells' \in [Execs -> Shell] /\ active' \in Execs
           /\ Current'.process = e /\ Current'.console # <<>>
           /\ ref[e] = active =>
                /\ Current'.output = <<>>
                /\ active # None => Current'.console = Append(Current.console, NewRecord(e))
                /\ active = None => Current'.console = <<NewRecord(e)>>
<1> USE DEF TypeOK
<1>1. CASE /\ ref[e] = None
           /\ active' = e
           /\ shells' = [shells EXCEPT ![e] = [process |-> e, output |-> <<>>,
                                               console |-> <<NewRecord(e)>>]]
  <2>1. [process |-> e, output |-> <<>>, console |-> <<NewRecord(e)>>] \in Shell
    BY NewRecordIsRecord DEF Shell
  <2>2. shells'[e] = [process |-> e, output |-> <<>>, console |-> <<NewRecord(e)>>]
    BY <1>1
  <2>3. ref[e] = active => active = None
    BY <1>1
  <2>4. <<NewRecord(e)>> # <<>>
    OBVIOUS
  <2>5. QED
    BY <1>1, <2>1, <2>2, <2>3, <2>4 DEF Current
<1>2. CASE /\ ref[e] # None
           /\ shells' = [s \in Execs |->
                [process |-> IF s = active THEN e ELSE shells[s].process,
                 output  |-> IF s = active THEN <<>> ELSE shells[s].output,
                 console |-> IF s = ref[e] THEN Append(shells[s].console, NewRecord(e))
                                           ELSE shells[s].console]]
           /\ UNCHANGED active
  <2>1. ASSUME NEW s \in Execs PROVE shells'[s] \in Shell
    <3>1. /\ shells[s].process \in Execs \cup {None} /\ shells[s].output \in Seq(Piece)
          /\ shells[s].console \in Seq(Record)
      BY DEF Shell
    <3>2. Append(shells[s].console, NewRecord(e)) \in Seq(Record)
      BY <3>1, NewRecordIsRecord
    <3>3. QED
      BY <1>2, <3>1, <3>2 DEF Shell
  <2>2. shells' \in [Execs -> Shell]
    BY <1>2, <2>1
  <2>3. ref[e] = active => /\ active \in Execs
                           /\ Current'.process = e /\ Current'.output = <<>>
                           /\ Current'.console = Append(Current.console, NewRecord(e))
    BY <1>2 DEF Current
  <2>4. active \in Execs /\ active' = active
    BY <1>2 DEF Session, Requests
  <2>5. Current'.process = e
    BY <1>2, <2>4 DEF Current
  <2>6. Current'.console # <<>>
    <3>1. /\ shells[active].console \in Seq(Record) /\ shells[active].console # <<>>
          /\ shells[active].process \in Execs
      BY <2>4, ShellAssumption DEF Session, Current, Shell, Requests
    <3>2. Append(shells[active].console, NewRecord(e)) # <<>>
      <4> DEFINE c == shells[active].console
                 x == NewRecord(e)
      <4>1. c \in Seq(Record) /\ x \in Record
        BY <3>1, NewRecordIsRecord
      <4> HIDE DEF c, x
      <4>2. Len(Append(c, x)) = Len(c) + 1 /\ Len(c) \in Nat
        BY <4>1
      <4>3. ASSUME Append(c, x) = <<>> PROVE FALSE
        <5>1. Len(Append(c, x)) = 0
          BY <4>3
        <5>2. QED
          BY <4>2, <5>1
      <4> USE DEF c, x
      <4>4. QED
        BY <4>3
    <3>3. Current'.console = IF active = ref[e] THEN Append(shells[active].console,
            NewRecord(e))
                                                ELSE shells[active].console
      BY <1>2, <2>4 DEF Current
    <3>4. QED
      BY <3>1, <3>2, <3>3
  <2>7. QED
    BY <2>2, <2>3, <2>4, <2>5, <2>6, ShellAssumption DEF Requests
<1>3. QED
  BY <1>1, <1>2 DEF Install

\* The kinds of requests.
LEMMA Kinds == /\ Execs \subseteq Requests /\ None \notin Execs
               /\ \A r \in Requests : r \in Writes \cup Kills \cup Waits => r \notin Execs
  BY ShellAssumption DEF Requests

\* A piece of output, or an echo, for the session.
LEMMA AddToSession ==
    ASSUME Inv, active # None, NEW x \in Piece, active' = active,
           shells' = [shells EXCEPT ![active] = Add(@, x)]
    PROVE  /\ shells' \in [Execs -> Shell] /\ Current' = Add(Current, x)
           /\ Current'.process = Current.process
                /\ Current'.output = Append(Current.output, x)
           /\ Current'.console # <<>>
<1>1. active \in Execs /\ Current \in Shell /\ Current.console # <<>>
  BY CurrentIsShell DEF Inv, Session
<1>2. Add(Current, x) \in Shell /\ Len(Add(Current, x).console) = Len(Current.console)
  BY <1>1, AddFacts
<1>3. shells' \in [Execs -> Shell] /\ Current' = Add(Current, x)
  BY <1>1, <1>2 DEF Inv, TypeOK, Current
<1>4. Current'.console # <<>>
  BY <1>1, <1>2, <1>3 DEF Shell
<1>5. QED
  BY <1>1, <1>3, <1>4, AddFacts

\* The shells, the processes and the requests keep their types, and what uses the session
\* finds one.
LEMMA InvStep == Inv /\ [Next]_vars => Inv'
<1> SUFFICES ASSUME Inv, [Next]_vars PROVE Inv'
  OBVIOUS
<1> USE DEF Inv, TypeOK, Session
<1>1. ASSUME NEW e \in Execs, Start(e) PROVE Inv'
  BY <1>1, Kinds DEF Start, Goto, sessionVars, osVars, Current
<1>2. ASSUME NEW e \in Execs, Terminate(e) PROVE Inv'
  <2>1. /\ proc' \in [Execs -> {"none", "running", "killed", "ended"}]
        /\ result' \in [Execs -> [status : {"none", "completed", "running", "failed"},
                                  output : Seq(Piece)]]
    <3>1. CASE /\ proc' = IF proc[old[e]] = "running" THEN [proc EXCEPT ![old[e]] = "killed"]
                                                       ELSE proc
               /\ UNCHANGED result
      BY <3>1
    <3>2. CASE result' = [result EXCEPT ![e].status = "failed"] /\ UNCHANGED proc
      BY <3>2
    <3>3. QED
      BY <1>2, <3>1, <3>2 DEF Terminate
  <2>2. PICK at \in {"create", "done"} : Goto(e, at)
    BY <1>2 DEF Terminate
  <2>3. QED
    BY <1>2, <2>1, <2>2, Kinds DEF Terminate, Goto, sessionVars, Current
<1>3. ASSUME NEW e \in Execs, Create(e) PROVE Inv'
  <2>1. /\ proc' \in [Execs -> {"none", "running", "killed", "ended"}]
        /\ result' \in [Execs -> [status : {"none", "completed", "running", "failed"},
                                  output : Seq(Piece)]]
    <3>1. CASE proc' = [proc EXCEPT ![e] = "running"] /\ UNCHANGED result
      BY <3>1
    <3>2. CASE result' = [result EXCEPT ![e].status = "failed"] /\ UNCHANGED proc
      BY <3>2
    <3>3. QED
      BY <1>3, <3>1, <3>2 DEF Create
  <2>2. PICK at \in {"install", "done"} : Goto(e, at)
    BY <1>3 DEF Create
  <2>3. QED
    BY <1>3, <2>1, <2>2, Kinds DEF Create, Goto, sessionVars, Current
<1>4. ASSUME NEW e \in Execs, Install(e) PROVE Inv'
  <2>1. /\ shells' \in [Execs -> Shell] /\ active' \in Execs
        /\ Current' \in Shell
    BY <1>4, InstallFacts DEF Current
  <2>2. Current'.process \in Execs /\ Current'.console # <<>>
    BY <1>4, InstallFacts
  <2>3. QED
    BY <1>4, <2>1, <2>2, Kinds DEF Install, Goto, osVars
<1>5. ASSUME NEW e \in Execs, Completed(e) PROVE Inv'
  <2>1. Current.output \in Seq(Piece)
    BY <1>5, CurrentIsShell DEF Completed, Shell
  <2>2. result' \in [Execs -> [status : {"none", "completed", "running", "failed"},
                              output : Seq(Piece)]]
    BY <1>5, <2>1 DEF Completed
  <2>3. QED
    BY <1>5, <2>2 DEF Completed, Goto, sessionVars, osVars, Current
<1>6. ASSUME NEW e \in Execs, StillRunning(e) PROVE Inv'
  BY <1>6 DEF StillRunning, Goto, sessionVars, osVars, Current
<1>7. ASSUME NEW e \in Execs, Read(e) PROVE Inv'
  <2>1. active # None /\ e \in Piece
    BY <1>7 DEF Read, Piece
  <2>2. /\ shells' \in [Execs -> Shell] /\ Current'.process = Current.process
        /\ Current'.console # <<>>
    BY <1>7, <2>1, AddToSession DEF Read
  <2>3. pipe' \in [Execs -> 0 .. MaxOutput] /\ \A p \in Execs : pipe'[p] <= pipe[p]
    BY SMTT(40), <1>7, ShellAssumption DEF Read
  <2>4. QED
    BY SMTT(40), <1>7, <2>1, <2>2, <2>3 DEF Read
<1>8. ASSUME NEW e \in Execs, ReadGarbled(e) PROVE Inv'
  <2>1. pipe' \in [Execs -> 0 .. MaxOutput] /\ \A p \in Execs : pipe'[p] <= pipe[p]
    BY SMTT(40), <1>8, ShellAssumption DEF ReadGarbled
  <2>2. QED
    BY SMTT(40), <1>8, <2>1 DEF ReadGarbled, sessionVars, Current
<1>9. ASSUME NEW e \in Execs, ReadEnd(e) PROVE Inv'
  BY <1>9 DEF ReadEnd, sessionVars, osVars, Current
<1>10. ASSUME NEW e \in Execs, Output(e) PROVE Inv'
  <2>1. /\ pipe' \in [Execs -> 0 .. MaxOutput] /\ made' \in [Execs -> 0 .. MaxOutput]
        /\ \A p \in Execs : pipe'[p] <= made'[p]
    BY <1>10, ShellAssumption DEF Output
  <2>2. QED
    BY <1>10, <2>1 DEF Output, sessionVars, Current
<1>11. ASSUME NEW e \in Execs, End(e) PROVE Inv'
  BY <1>11 DEF End, sessionVars, Current
<1>12. ASSUME NEW r \in Requests, Write(r) PROVE Inv'
  <2>1. active # None /\ r \in Piece
    BY <1>12 DEF Write, Piece
  <2>2. /\ shells' \in [Execs -> Shell] /\ Current'.process = Current.process
        /\ Current'.console # <<>>
    BY <1>12, <2>1, AddToSession DEF Write, Current
  <2>3. QED
    BY <1>12, <2>1, <2>2 DEF Write, Goto, osVars
<1>13. ASSUME NEW r \in Requests, Kill(r) PROVE Inv'
  BY <1>13 DEF Kill, Goto, sessionVars, osVars, Current
<1>14. ASSUME NEW r \in Requests, KillHard(r) PROVE Inv'
  BY <1>14, Kinds DEF KillHard, Goto, sessionVars, Current
<1>15. ASSUME NEW r \in Requests, Killed(r) PROVE Inv'
  BY <1>15 DEF Killed, Goto, sessionVars, osVars, Current
<1>16. ASSUME NEW r \in Requests, Wait(r) PROVE Inv'
  BY <1>16 DEF Wait, Goto, sessionVars, osVars, Current
<1>17. ASSUME NEW r \in Requests, Waited(r) PROVE Inv'
  BY <1>17 DEF Waited, Goto, sessionVars, osVars, Current
<1>18. CASE UNCHANGED vars
  BY <1>18 DEF vars, sessionVars, osVars, Current
<1>19. QED
  BY <1>1, <1>2, <1>3, <1>4, <1>5, <1>6, <1>7, <1>8, <1>9, <1>10,
     <1>11, <1>12, <1>13, <1>14, <1>15, <1>16, <1>17, <1>18
     DEF Next, Exec, GoOn, Reader

\* Initially there is no session and no process.
LEMMA InvInit == Init => Inv
<1> SUFFICES ASSUME Init PROVE Inv
  OBVIOUS
<1>1. NoShell \in Shell /\ NoResult \in [status : {"none", "completed", "running",
        "failed"},
                                         output : Seq(Piece)]
  BY DEF NoShell, Shell, NoResult
<1>2. TypeOK
  BY <1>1, ShellAssumption DEF Init, TypeOK
<1>3. Session
  BY DEF Init, Session, Requests
<1>4. QED
  BY <1>2, <1>3 DEF Inv

-----------------------------------------------------------------------------
(* One command at a time *)

\* A command begins only when no other is under way.
LEMMA BusyStep == Serial /\ Inv /\ OneBusy /\ [Next]_vars => OneBusy'
<1> SUFFICES ASSUME Serial, Inv, OneBusy, [Next]_vars PROVE OneBusy'
  OBVIOUS
<1> USE DEF Inv, TypeOK, OneBusy, Busy
<1>1. ASSUME NEW e \in Execs, Start(e) PROVE OneBusy'
  BY <1>1 DEF Start, Goto
<1>2. ASSUME NEW e \in Execs, Terminate(e) PROVE OneBusy'
  <2>1. PICK at \in {"create", "done"} : Goto(e, at)
    BY <1>2 DEF Terminate
  <2>2. QED
    BY <1>2, <2>1 DEF Terminate, Goto
<1>3. ASSUME NEW e \in Execs, Create(e) PROVE OneBusy'
  <2>1. PICK at \in {"install", "done"} : Goto(e, at)
    BY <1>3 DEF Create
  <2>2. QED
    BY <1>3, <2>1 DEF Create, Goto
<1>4. ASSUME NEW e \in Execs, Install(e) PROVE OneBusy'
  BY <1>4 DEF Install, Goto
<1>5. ASSUME NEW e \in Execs, Completed(e) PROVE OneBusy'
  BY <1>5 DEF Completed, Goto
<1>6. ASSUME NEW e \in Execs, StillRunning(e) PROVE OneBusy'
  BY <1>6 DEF StillRunning, Goto
<1>7. ASSUME NEW e \in Execs, Read(e) PROVE OneBusy'
  BY <1>7 DEF Read
<1>8. ASSUME NEW e \in Execs, ReadGarbled(e) PROVE OneBusy'
  BY <1>8 DEF ReadGarbled
<1>9. ASSUME NEW e \in Execs, ReadEnd(e) PROVE OneBusy'
  BY <1>9 DEF ReadEnd
<1>10. ASSUME NEW e \in Execs, Output(e) PROVE OneBusy'
  BY <1>10 DEF Output
<1>11. ASSUME NEW e \in Execs, End(e) PROVE OneBusy'
  BY <1>11 DEF End
<1>12. ASSUME NEW r \in Requests, Write(r) PROVE OneBusy'
  BY <1>12 DEF Write, Goto
<1>13. ASSUME NEW r \in Requests, Kill(r) PROVE OneBusy'
  BY <1>13, Kinds DEF Kill, Goto
<1>14. ASSUME NEW r \in Requests, KillHard(r) PROVE OneBusy'
  BY <1>14 DEF KillHard, Goto
<1>15. ASSUME NEW r \in Requests, Killed(r) PROVE OneBusy'
  BY <1>15 DEF Killed, Goto
<1>16. ASSUME NEW r \in Requests, Wait(r) PROVE OneBusy'
  BY <1>16, Kinds DEF Wait, Goto
<1>17. ASSUME NEW r \in Requests, Waited(r) PROVE OneBusy'
  BY <1>17 DEF Waited, Goto
<1>18. CASE UNCHANGED vars
  BY <1>18 DEF vars
<1>19. QED
  BY <1>1, <1>2, <1>3, <1>4, <1>5, <1>6, <1>7, <1>8, <1>9, <1>10,
     <1>11, <1>12, <1>13, <1>14, <1>15, <1>16, <1>17, <1>18
     DEF Next, Exec, GoOn, Reader

\* The session changes only in the command that is under way, and when that ends.
LEMMA SameStep == Serial /\ Inv /\ OneBusy /\ SameSession /\ [Next]_vars => SameSession'
<1> SUFFICES ASSUME Serial, Inv, OneBusy, SameSession, [Next]_vars PROVE SameSession'
  OBVIOUS
<1> USE DEF Inv, TypeOK, OneBusy, Busy, SameSession
<1>1. ASSUME NEW e \in Execs, Start(e) PROVE SameSession'
  BY <1>1 DEF Start, Goto, sessionVars, Current
<1>2. ASSUME NEW e \in Execs, Terminate(e) PROVE SameSession'
  <2>1. PICK at \in {"create", "done"} : Goto(e, at)
    BY <1>2 DEF Terminate
  <2>2. QED
    BY <1>2, <2>1 DEF Terminate, Goto, sessionVars, Current
<1>3. ASSUME NEW e \in Execs, Create(e) PROVE SameSession'
  <2>1. PICK at \in {"install", "done"} : Goto(e, at)
    BY <1>3 DEF Create
  <2>2. QED
    BY <1>3, <2>1 DEF Create, Goto, sessionVars, Current
<1>4. ASSUME NEW e \in Execs, Install(e) PROVE SameSession'
  BY <1>4, Kinds DEF Install, Goto
<1>5. ASSUME NEW e \in Execs, Completed(e) PROVE SameSession'
  BY <1>5, Kinds DEF Completed, Goto
<1>6. ASSUME NEW e \in Execs, StillRunning(e) PROVE SameSession'
  BY <1>6, Kinds DEF StillRunning, Goto
<1>7. ASSUME NEW e \in Execs, Read(e) PROVE SameSession'
  <2>1. active # None /\ e \in Piece
    BY <1>7 DEF Read, Piece, Session
  <2>2. Current'.process = Current.process
    BY <1>7, <2>1, AddToSession DEF Read
  <2>3. QED
    BY <1>7, <2>1, <2>2 DEF Read
<1>8. ASSUME NEW e \in Execs, ReadGarbled(e) PROVE SameSession'
  BY <1>8 DEF ReadGarbled, sessionVars, Current
<1>9. ASSUME NEW e \in Execs, ReadEnd(e) PROVE SameSession'
  BY <1>9 DEF ReadEnd, sessionVars, Current
<1>10. ASSUME NEW e \in Execs, Output(e) PROVE SameSession'
  BY <1>10 DEF Output, sessionVars, Current
<1>11. ASSUME NEW e \in Execs, End(e) PROVE SameSession'
  BY <1>11 DEF End, sessionVars, Current
<1>12. ASSUME NEW r \in Requests, Write(r) PROVE SameSession'
  <2>1. active # None /\ r \in Piece
    BY <1>12 DEF Write, Piece
  <2>2. Current'.process = Current.process
    BY <1>12, <2>1, AddToSession DEF Write, Current
  <2>3. QED
    BY <1>12, <2>1, <2>2 DEF Write, Goto
<1>13. ASSUME NEW r \in Requests, Kill(r) PROVE SameSession'
  BY <1>13 DEF Kill, Goto, sessionVars, Current
<1>14. ASSUME NEW r \in Requests, KillHard(r) PROVE SameSession'
  BY <1>14 DEF KillHard, Goto, sessionVars, Current
<1>15. ASSUME NEW r \in Requests, Killed(r) PROVE SameSession'
  BY <1>15 DEF Killed, Goto, sessionVars, Current
<1>16. ASSUME NEW r \in Requests, Wait(r) PROVE SameSession'
  BY <1>16 DEF Wait, Goto, sessionVars, Current
<1>17. ASSUME NEW r \in Requests, Waited(r) PROVE SameSession'
  BY <1>17 DEF Waited, Goto, sessionVars, Current
<1>18. CASE UNCHANGED vars
  BY <1>18 DEF vars, sessionVars, Current
<1>19. QED
  BY <1>1, <1>2, <1>3, <1>4, <1>5, <1>6, <1>7, <1>8, <1>9, <1>10,
     <1>11, <1>12, <1>13, <1>14, <1>15, <1>16, <1>17, <1>18
     DEF Next, Exec, GoOn, Reader

\* The old process is dealt with before the new one is made.
LEMMA AliveStep == Serial /\ Inv /\ OneBusy /\ SameSession /\ AliveIs
  /\ [Next]_vars => AliveIs'
<1> SUFFICES ASSUME Serial, Inv, OneBusy, SameSession, AliveIs, [Next]_vars PROVE AliveIs'
  OBVIOUS
<1> USE DEF Inv, TypeOK, OneBusy, Busy, SameSession, AliveIs
<1>1. ASSUME NEW e \in Execs, Start(e) PROVE AliveIs'
  BY SMTT(40), <1>1 DEF Start, Goto, Alive, sessionVars, osVars, Current
<1>2. ASSUME NEW e \in Execs, Terminate(e) PROVE AliveIs'
  BY ZenonT(60), <1>2 DEF Terminate
<1>3. ASSUME NEW e \in Execs, Create(e) PROVE AliveIs'
  <2>1. \A p \in Execs : proc[p] # "running"
    BY <1>3 DEF Create
  <2>2. CASE proc' = [proc EXCEPT ![e] = "running"] /\ Goto(e, "install")
    BY <1>3, <2>1, <2>2, Kinds DEF Goto
  <2>3. CASE UNCHANGED proc
    BY <2>1, <2>3
  <2>4. QED
    BY <1>3, <2>2, <2>3 DEF Create
<1>4. ASSUME NEW e \in Execs, Install(e) PROVE AliveIs'
  <2>1. active' \in Execs /\ Current'.process = e
    BY <1>4, InstallFacts DEF Inv
  <2>2. QED
    BY <1>4, <2>1, Kinds DEF Install, Goto, osVars
<1>5. ASSUME NEW e \in Execs, Completed(e) PROVE AliveIs'
  BY <1>5 DEF Completed, Goto, sessionVars, osVars, Current
<1>6. ASSUME NEW e \in Execs, StillRunning(e) PROVE AliveIs'
  BY <1>6 DEF StillRunning, Goto, sessionVars, osVars, Current
<1>7. ASSUME NEW e \in Execs, Read(e) PROVE AliveIs'
  <2>1. active # None /\ e \in Piece
    BY <1>7 DEF Read, Piece, Session
  <2>2. Current'.process = Current.process
    BY <1>7, <2>1, AddToSession DEF Read
  <2>3. QED
    BY <1>7, <2>1, <2>2 DEF Read
<1>8. ASSUME NEW e \in Execs, ReadGarbled(e) PROVE AliveIs'
  BY <1>8 DEF ReadGarbled, sessionVars, Current
<1>9. ASSUME NEW e \in Execs, ReadEnd(e) PROVE AliveIs'
  BY <1>9 DEF ReadEnd, sessionVars, osVars, Current
<1>10. ASSUME NEW e \in Execs, Output(e) PROVE AliveIs'
  BY <1>10 DEF Output, sessionVars, Current
<1>11. ASSUME NEW e \in Execs, End(e) PROVE AliveIs'
  BY <1>11 DEF End, sessionVars, Current
<1>12. ASSUME NEW r \in Requests, Write(r) PROVE AliveIs'
  <2>1. active # None /\ r \in Piece
    BY <1>12 DEF Write, Piece
  <2>2. Current'.process = Current.process
    BY <1>12, <2>1, AddToSession DEF Write, Current
  <2>3. QED
    BY <1>12, <2>1, <2>2 DEF Write, Goto, osVars
<1>13. ASSUME NEW r \in Requests, Kill(r) PROVE AliveIs'
  BY <1>13 DEF Kill, Goto, sessionVars, osVars, Current
<1>14. ASSUME NEW r \in Requests, KillHard(r) PROVE AliveIs'
  BY <1>14 DEF KillHard, Goto, sessionVars, Current
<1>15. ASSUME NEW r \in Requests, Killed(r) PROVE AliveIs'
  BY <1>15 DEF Killed, Goto, sessionVars, osVars, Current
<1>16. ASSUME NEW r \in Requests, Wait(r) PROVE AliveIs'
  BY <1>16 DEF Wait, Goto, sessionVars, osVars, Current
<1>17. ASSUME NEW r \in Requests, Waited(r) PROVE AliveIs'
  BY <1>17 DEF Waited, Goto, sessionVars, osVars, Current
<1>18. CASE UNCHANGED vars
  BY <1>18 DEF vars, sessionVars, osVars, Current
<1>19. QED
  BY <1>1, <1>2, <1>3, <1>4, <1>5, <1>6, <1>7, <1>8, <1>9, <1>10,
     <1>11, <1>12, <1>13, <1>14, <1>15, <1>16, <1>17, <1>18
     DEF Next, Exec, GoOn, Reader

\* What is added to the output is added to the latest record, and both start anew together.
LEMMA ViewStep == Serial /\ Inv /\ SameSession /\ ViewMatchesConsole
  /\ [Next]_vars => ViewMatchesConsole'
<1> SUFFICES ASSUME Serial, Inv, SameSession, ViewMatchesConsole, [Next]_vars
  PROVE ViewMatchesConsole'
  OBVIOUS
<1> USE DEF Inv, TypeOK, ViewMatchesConsole
<1>1. ASSUME NEW e \in Execs, Start(e) PROVE ViewMatchesConsole'
  BY <1>1 DEF Start, sessionVars, Current
<1>2. ASSUME NEW e \in Execs, Terminate(e) PROVE ViewMatchesConsole'
  BY <1>2 DEF Terminate, sessionVars, Current
<1>3. ASSUME NEW e \in Execs, Create(e) PROVE ViewMatchesConsole'
  BY <1>3 DEF Create, sessionVars, Current
<1>4. ASSUME NEW e \in Execs, Install(e) PROVE ViewMatchesConsole'
  <2>1. ref[e] = active
    BY <1>4 DEF Install, SameSession
  <2>2. /\ Current'.output = <<>>
        /\ active # None => Current'.console = Append(Current.console, NewRecord(e))
        /\ active = None => Current'.console = <<NewRecord(e)>>
    BY <1>4, <2>1, InstallFacts DEF Inv
  <2>3. NewRecord(e) \in Record /\ NewRecord(e).output = <<>>
    BY NewRecordIsRecord
  <2>4. active # None => Current.console \in Seq(Record)
    BY CurrentIsShell DEF Shell
  <2>5. Current'.console[Len(Current'.console)] = NewRecord(e)
    <3> DEFINE c == Current.console
               d == Current'.console
               x == NewRecord(e)
    <3>1. x \in Record /\ (active = None => d = <<x>>)
          /\ (active # None => c \in Seq(Record) /\ d = Append(c, x))
      BY <2>2, <2>3, <2>4
    <3> HIDE DEF c, d, x
    <3>2. ASSUME active = None PROVE d[Len(d)] = x
      <4>1. Len(<<x>>) = 1 /\ <<x>>[1] = x
        OBVIOUS
      <4>2. QED
        BY <3>1, <3>2, <4>1
    <3>3. ASSUME active # None PROVE d[Len(d)] = x
      <4>1. Len(d) = Len(c) + 1 /\ d[Len(c) + 1] = x
        BY <3>1, <3>3
      <4>2. QED
        BY <4>1
    <3>4. d[Len(d)] = x
      BY <3>2, <3>3
    <3>5. QED
      BY <3>4 DEF d, x
  <2>6. QED
    BY <2>2, <2>3, <2>5
<1>5. ASSUME NEW e \in Execs, Completed(e) PROVE ViewMatchesConsole'
  BY <1>5 DEF Completed, sessionVars, Current
<1>6. ASSUME NEW e \in Execs, StillRunning(e) PROVE ViewMatchesConsole'
  BY <1>6 DEF StillRunning, sessionVars, Current
<1>7. ASSUME NEW e \in Execs, Read(e) PROVE ViewMatchesConsole'
  <2>1. active # None /\ e \in Piece
    BY <1>7 DEF Read, Piece, Session
  <2>2. /\ Current \in Shell /\ Current.console # <<>>
        /\ Len(Current.console) \in 1 .. Len(Current.console)
    BY <2>1, CurrentIsShell DEF Session
  <2>3. Current' = Add(Current, e)
    BY <1>7, <2>1, AddToSession DEF Read
  <2>4. /\ Current'.output = Append(Current.output, e)
        /\ Len(Current'.console) = Len(Current.console)
        /\ Current'.console[Len(Current.console)].output
             = Append(Current.console[Len(Current.console)].output, e)
    BY ZenonT(60), <2>1, <2>2, <2>3, AddFacts
  <2>5. QED
    BY <1>7, <2>1, <2>2, <2>4 DEF Read
<1>8. ASSUME NEW e \in Execs, ReadGarbled(e) PROVE ViewMatchesConsole'
  BY <1>8 DEF ReadGarbled, sessionVars, Current
<1>9. ASSUME NEW e \in Execs, ReadEnd(e) PROVE ViewMatchesConsole'
  BY <1>9 DEF ReadEnd, sessionVars, Current
<1>10. ASSUME NEW e \in Execs, Output(e) PROVE ViewMatchesConsole'
  BY <1>10 DEF Output, sessionVars, Current
<1>11. ASSUME NEW e \in Execs, End(e) PROVE ViewMatchesConsole'
  BY <1>11 DEF End, sessionVars, Current
<1>12. ASSUME NEW r \in Requests, Write(r) PROVE ViewMatchesConsole'
  <2>1. active # None /\ r \in Piece
    BY <1>12 DEF Write, Piece
  <2>2. CASE shells' = shells
    BY <1>12, <2>2 DEF Write, Current
  <2>3. CASE shells' = [shells EXCEPT ![active] = Add(@, r)]
    <3>2. /\ Current \in Shell /\ Current.console # <<>>
          /\ Len(Current.console) \in 1 .. Len(Current.console)
      BY <2>1, CurrentIsShell DEF Session
    <3>3. Current' = Add(Current, r)
      BY <1>12, <2>1, <2>3, AddToSession DEF Write
    <3>4. /\ Current'.output = Append(Current.output, r)
          /\ Len(Current'.console) = Len(Current.console)
          /\ Current'.console[Len(Current.console)].output
               = Append(Current.console[Len(Current.console)].output, r)
      BY ZenonT(60), <2>1, <3>2, <3>3, AddFacts
    <3>5. QED
      BY <1>12, <2>1, <3>2, <3>4 DEF Write
  <2>4. QED
    BY <1>12, <2>2, <2>3 DEF Write
<1>13. ASSUME NEW r \in Requests, Kill(r) PROVE ViewMatchesConsole'
  BY <1>13 DEF Kill, sessionVars, Current
<1>14. ASSUME NEW r \in Requests, KillHard(r) PROVE ViewMatchesConsole'
  BY <1>14 DEF KillHard, sessionVars, Current
<1>15. ASSUME NEW r \in Requests, Killed(r) PROVE ViewMatchesConsole'
  BY <1>15 DEF Killed, sessionVars, Current
<1>16. ASSUME NEW r \in Requests, Wait(r) PROVE ViewMatchesConsole'
  BY <1>16 DEF Wait, sessionVars, Current
<1>17. ASSUME NEW r \in Requests, Waited(r) PROVE ViewMatchesConsole'
  BY <1>17 DEF Waited, sessionVars, Current
<1>18. CASE UNCHANGED vars
  BY <1>18 DEF vars, sessionVars, Current
<1>19. QED
  BY <1>1, <1>2, <1>3, <1>4, <1>5, <1>6, <1>7, <1>8, <1>9, <1>10,
     <1>11, <1>12, <1>13, <1>14, <1>15, <1>16, <1>17, <1>18
     DEF Next, Exec, GoOn, Reader


-----------------------------------------------------------------------------
(* What the console keeps of a process *)

\* Where a console holds the pieces of a process.
LEMMA KeptHas ==
    \A p, c, y : y \in Kept(p, c) <=>
        \E i \in DOMAIN c : \E j \in DOMAIN c[i].output : c[i].output[j] = p /\ y = <<i, j>>
<1> SUFFICES ASSUME NEW p, NEW c, NEW y
             PROVE  y \in Kept(p, c) <=>
                      \E i \in DOMAIN c : \E j \in DOMAIN c[i].output :
                        c[i].output[j] = p /\ y = <<i, j>>
  OBVIOUS
<1> DEFINE At(i) == {<<i, j>> : j \in {k \in DOMAIN c[i].output : c[i].output[k] = p}}
<1>1. \A i : y \in At(i) <=> \E j \in DOMAIN c[i].output : c[i].output[j] = p
        /\ y = <<i, j>>
  OBVIOUS
<1>2. Kept(p, c) = UNION {At(i) : i \in DOMAIN c}
  BY DEF Kept
<1> HIDE DEF At
<1>3. y \in UNION {At(i) : i \in DOMAIN c} <=> \E i \in DOMAIN c : y \in At(i)
  OBVIOUS
<1>4. QED
  BY <1>1, <1>2, <1>3

\* The record of a new command holds nothing yet.
LEMMA KeptNew ==
    ASSUME NEW p \in Execs, NEW e \in Execs
    PROVE  /\ Kept(p, <<NewRecord(e)>>) = {}
           /\ \A c \in Seq(Record) : Kept(p, Append(c, NewRecord(e))) = Kept(p, c)
<1> DEFINE x == NewRecord(e)
<1>1. x \in Record /\ x.output = <<>> /\ DOMAIN x.output = {}
  BY NewRecordIsRecord
<1> HIDE DEF x
<1>2. Kept(p, <<x>>) = {}
  <2>1. DOMAIN <<x>> = {1} /\ <<x>>[1] = x
    OBVIOUS
  <2>2. \A y : y \notin Kept(p, <<x>>)
    BY <1>1, <2>1, KeptHas
  <2>3. QED
    BY <2>2
<1>3. ASSUME NEW c \in Seq(Record) PROVE Kept(p, Append(c, x)) = Kept(p, c)
  <2> DEFINE d == Append(c, x)
  <2>1. /\ DOMAIN d = DOMAIN c \cup {Len(c) + 1} /\ d[Len(c) + 1] = x
        /\ \A i \in DOMAIN c : d[i] = c[i]
    BY <1>1
  <2> HIDE DEF d
  <2>2. \A y : y \in Kept(p, d) <=> y \in Kept(p, c)
    <3>1. ASSUME NEW y, y \in Kept(p, d) PROVE y \in Kept(p, c)
      <4>1. PICK i \in DOMAIN d : \E j \in DOMAIN d[i].output :
                   d[i].output[j] = p /\ y = <<i, j>>
        BY <3>1, KeptHas
      <4>2. i \in DOMAIN c /\ d[i] = c[i]
        BY <1>1, <2>1, <4>1
      <4>3. QED
        BY <4>1, <4>2, KeptHas
    <3>2. ASSUME NEW y, y \in Kept(p, c) PROVE y \in Kept(p, d)
      <4>1. PICK i \in DOMAIN c : \E j \in DOMAIN c[i].output :
                   c[i].output[j] = p /\ y = <<i, j>>
        BY <3>2, KeptHas
      <4>2. i \in DOMAIN d /\ d[i] = c[i]
        BY <2>1, <4>1
      <4>3. QED
        BY <4>1, <4>2, KeptHas
    <3>3. QED
      BY <3>1, <3>2
  <2>3. QED
    BY <2>2 DEF d
<1>4. QED
  BY <1>2, <1>3 DEF x

\* A piece that is added is one more place for the process it comes from.
LEMMA KeptAdd ==
    ASSUME NEW p \in Execs, NEW x \in Piece, NEW s \in Shell, s.console # <<>>
    PROVE  /\ x # p => Kept(p, Add(s, x).console) = Kept(p, s.console)
           /\ x = p => \E y : /\ y \notin Kept(p, s.console)
                              /\ Kept(p, Add(s, x).console) = Kept(p, s.console) \cup {y}
<1> DEFINE c == s.console
           d == Add(s, x).console
           n == Len(c)
           m == Len(c[n].output) + 1
           y == <<n, m>>
<1>1. /\ c \in Seq(Record) /\ n \in 1 .. n /\ DOMAIN c = 1 .. n /\ n \in Nat
      /\ d \in Seq(Record) /\ DOMAIN d = 1 .. n
      /\ \A i \in 1 .. n : /\ i = n => d[i].output = Append(c[i].output, x)
                           /\ i # n => d[i] = c[i]
  <2>1. /\ c \in Seq(Record) /\ d \in Seq(Record) /\ Len(d) = n
        /\ \A i \in 1 .. n : /\ i = n => d[i].output = Append(c[i].output, x)
                             /\ i # n => d[i] = c[i]
    BY AddFacts DEF Shell
  <2>2. c # <<>>
    OBVIOUS
  <2> HIDE DEF c, d
  <2>3. QED
    BY <2>1, <2>2
<1> HIDE DEF c, d
<1>2. c[n].output \in Seq(Piece)
  <2> HIDE DEF n, m
  <2>1. n = Len(c) /\ c \in Seq(Record) /\ n \in 1 .. n
    BY <1>1 DEF n
  <2>2. c[n] \in Record
    BY <2>1
  <2>3. QED
    BY <2>2 DEF Record
<1>3. /\ DOMAIN c[n].output = 1 .. m - 1 /\ m \in Nat /\ m >= 1
      /\ DOMAIN d[n].output = 1 .. m /\ d[n].output[m] = x
      /\ \A j \in 1 .. m - 1 : d[n].output[j] = c[n].output[j]
  <2> DEFINE o == c[n].output
  <2>1. d[n].output = Append(o, x)
    BY <1>1
  <2>2. o \in Seq(Piece)
    BY <1>2
  <2> HIDE DEF o
  <2>3. /\ DOMAIN o = 1 .. Len(o) /\ Len(o) \in Nat
        /\ Len(Append(o, x)) = Len(o) + 1 /\ DOMAIN Append(o, x) = 1 .. Len(o) + 1
        /\ Append(o, x)[Len(o) + 1] = x
        /\ \A j \in 1 .. Len(o) : Append(o, x)[j] = o[j]
    BY <2>2
  <2>4. m = Len(o) + 1 /\ m - 1 = Len(o)
    BY <2>3 DEF o
  <2> HIDE DEF m
  <2>5. QED
    BY SMTT(40), <2>1, <2>3, <2>4 DEF o
<1> HIDE DEF n, m
<1>4. ASSUME NEW z, z \in Kept(p, c) PROVE z \in Kept(p, d)
  <2>1. PICK i, j : i \in DOMAIN c /\ j \in DOMAIN c[i].output
                   /\ c[i].output[j] = p /\ z = <<i, j>>
    BY <1>4, KeptHas
  <2>2. i \in DOMAIN d /\ j \in DOMAIN d[i].output /\ d[i].output[j] = p
    BY <1>1, <1>3, <2>1
  <2>3. QED
    BY <2>1, <2>2, KeptHas
<1>5. ASSUME NEW z, z \in Kept(p, d) PROVE z \in Kept(p, c) \/ (x = p /\ z = y)
  <2>1. PICK i, j : i \in DOMAIN d /\ j \in DOMAIN d[i].output
                   /\ d[i].output[j] = p /\ z = <<i, j>>
    BY <1>5, KeptHas
  <2>2. CASE i = n /\ j = m
    BY <1>3, <2>1, <2>2
  <2>3. CASE ~(i = n /\ j = m)
    <3>1. i \in DOMAIN c /\ j \in DOMAIN c[i].output /\ c[i].output[j] = p
      BY <1>1, <1>3, <2>1, <2>3
    <3>2. QED
      BY <2>1, <3>1, KeptHas
  <2>4. QED
    BY <2>2, <2>3
<1>6. x = p => y \in Kept(p, d)
  <2>1. n \in DOMAIN d /\ m \in DOMAIN d[n].output /\ d[n].output[m] = x
    BY <1>1, <1>3
  <2>2. QED
    BY <2>1, KeptHas
<1>7. y \notin Kept(p, c)
  <2>1. SUFFICES ASSUME y \in Kept(p, c) PROVE FALSE
    OBVIOUS
  <2>2. PICK i, j : i \in DOMAIN c /\ j \in DOMAIN c[i].output
                   /\ c[i].output[j] = p /\ y = <<i, j>>
    BY <2>1, KeptHas
  <2>3. i = n /\ j = m
    BY <2>2
  <2>4. QED
    BY <1>3, <2>2, <2>3
<1>8. QED
  <2>1. x # p => Kept(p, d) = Kept(p, c)
    BY <1>4, <1>5
  <2>2. x = p => Kept(p, d) = Kept(p, c) \cup {y}
    BY <1>4, <1>5, <1>6
  <2> HIDE DEF y
  <2>3. QED
    BY <1>7, <2>1, <2>2 DEF c, d

\* The same for the session and the counting of its pieces.
LEMMA KeptInSession ==
    ASSUME Inv, active # None, NEW x \in Piece, active' = active,
           shells' = [shells EXCEPT ![active] = Add(@, x)], NEW p \in Execs
    PROVE  /\ x # p => Kept(p, Current'.console) = Kept(p, Current.console)
           /\ x = p /\ IsFiniteSet(Kept(p, Current.console)) =>
                /\ IsFiniteSet(Kept(p, Current'.console))
                /\ Cardinality(Kept(p, Current'.console))
                     = Cardinality(Kept(p, Current.console)) + 1
<1>1. Current \in Shell /\ Current.console # <<>> /\ Current' = Add(Current, x)
  BY CurrentIsShell, AddToSession DEF Inv, Session
<1>2. /\ x # p => Kept(p, Current'.console) = Kept(p, Current.console)
      /\ x = p => \E y : /\ y \notin Kept(p, Current.console)
                         /\ Kept(p, Current'.console) = Kept(p, Current.console) \cup {y}
  BY <1>1, KeptAdd
<1>3. ASSUME x = p, IsFiniteSet(Kept(p, Current.console))
      PROVE  /\ IsFiniteSet(Kept(p, Current'.console))
             /\ Cardinality(Kept(p, Current'.console))
                  = Cardinality(Kept(p, Current.console)) + 1
  <2>1. PICK y : /\ y \notin Kept(p, Current.console)
                 /\ Kept(p, Current'.console) = Kept(p, Current.console) \cup {y}
    BY <1>2, <1>3
  <2>2. QED
    BY <1>3, <2>1, FS_AddElement
<1>4. QED
  BY <1>2, <1>3

\* A piece is in its pipe until it is on the console of the session.
LEMMA AccountStep == Serial /\ Inv /\ OneBusy /\ SameSession /\ AliveIs /\ Accounted
  /\ [Next]_vars => Accounted'
<1> SUFFICES ASSUME Serial, Inv, OneBusy, SameSession, AliveIs, Accounted,
  [Next]_vars PROVE Accounted'
  OBVIOUS
<1> USE DEF Inv, TypeOK, Session, Busy, Accounted, Coming
<1>1. ASSUME NEW e \in Execs, Start(e) PROVE Accounted'
  BY <1>1, Kinds DEF Start, Goto, sessionVars, osVars, Current
<1>2. ASSUME NEW e \in Execs, Terminate(e) PROVE Accounted'
  <2>1. PICK at \in {"create", "done"} : Goto(e, at)
    BY <1>2 DEF Terminate
  <2>2. QED
    BY <1>2, <2>1 DEF Terminate, Goto, sessionVars, Current
<1>3. ASSUME NEW e \in Execs, Create(e) PROVE Accounted'
  <2>1. PICK at \in {"install", "done"} : Goto(e, at)
    BY <1>3 DEF Create
  <2>2. QED
    BY <1>3, <2>1 DEF Create, Goto, sessionVars, Current
<1>4. ASSUME NEW e \in Execs, Install(e) PROVE Accounted'
  <2>1. ref[e] = active /\ e \notin reading /\ pipe[e] = made[e]
    BY <1>4 DEF Install, SameSession
  <2>2. /\ active # None => Current'.console = Append(Current.console, NewRecord(e))
        /\ active = None => Current'.console = <<NewRecord(e)>>
    BY <1>4, <2>1, InstallFacts
  <2>3. active # None => Current.console \in Seq(Record)
    BY CurrentIsShell DEF Shell
  <2>4. \A p \in Execs : Kept(p, Current'.console)
                           = IF active = None THEN {} ELSE Kept(p, Current.console)
    <3>1. ASSUME NEW p \in Execs, active = None PROVE Kept(p, Current'.console) = {}
      BY <2>2, <3>1, KeptNew
    <3>2. ASSUME NEW p \in Execs, active # None
          PROVE  Kept(p, Current'.console) = Kept(p, Current.console)
      <4>1. \A c \in Seq(Record) : Kept(p, Append(c, NewRecord(e))) = Kept(p, c)
        BY KeptNew
      <4>2. /\ Current.console \in Seq(Record)
            /\ Current'.console = Append(Current.console, NewRecord(e))
        BY <2>2, <2>3, <3>2
      <4>3. QED
        BY <4>1, <4>2
    <3>3. QED
      BY <3>1, <3>2
  <2>5. Kept(e, Current'.console) = {}
    BY <1>4, <2>4 DEF Install
  <2>6. Cardinality({}) = 0 /\ IsFiniteSet({})
    BY FS_EmptySet
  <2>7. UNCHANGED <<made, pipe>> /\ reading' = reading \cup {e} /\ Goto(e, "wait")
    BY <1>4 DEF Install, osVars
  <2>8. ASSUME NEW p \in Execs
        PROVE  /\ p \in reading' =>
                    /\ IsFiniteSet(Kept(p, Current'.console))
                    /\ Cardinality(Kept(p, Current'.console)) + pipe'[p] = made'[p]
               /\ pc'[p] \in Coming => p \notin reading' /\ pipe'[p] = made'[p]
               /\ pc'[p] \in Coming /\ active' # None => Kept(p, Current'.console) = {}
    <3>1. CASE p = e
      <4>1. pc'[p] = "wait" /\ made'[p] = made[p] /\ pipe'[p] = made[p]
        BY <2>1, <2>7, <3>1, Kinds DEF Goto
      <4>2. made[p] \in Nat
        BY ShellAssumption
      <4>3. Kept(p, Current'.console) = {}
        BY <2>5, <3>1
      <4>4. QED
        BY <2>6, <4>1, <4>2, <4>3
    <3>2. CASE p # e
      <4>1. CASE active = None
        BY <2>4, <2>7, <3>2, <4>1 DEF Goto
      <4>2. CASE active # None
        BY <2>4, <2>7, <3>2, <4>2 DEF Goto
      <4>3. QED
        BY <4>1, <4>2
    <3>3. QED
      BY <3>1, <3>2
  <2>9. QED
    BY <2>8
<1>5. ASSUME NEW e \in Execs, Completed(e) PROVE Accounted'
  BY <1>5, Kinds DEF Completed, Goto, sessionVars, osVars, Current
<1>6. ASSUME NEW e \in Execs, StillRunning(e) PROVE Accounted'
  BY <1>6, Kinds DEF StillRunning, Goto, sessionVars, osVars, Current
<1>7. ASSUME NEW e \in Execs, Read(e) PROVE Accounted'
  <2>1. active # None /\ e \in Piece
    BY <1>7 DEF Read, Piece
  <2>2. \A p \in Execs :
          /\ e # p => Kept(p, Current'.console) = Kept(p, Current.console)
          /\ e = p /\ IsFiniteSet(Kept(p, Current.console)) =>
               /\ IsFiniteSet(Kept(p, Current'.console))
               /\ Cardinality(Kept(p, Current'.console))
                    = Cardinality(Kept(p, Current.console)) + 1
    BY <1>7, <2>1, KeptInSession DEF Read
  <2>3. /\ e \in reading /\ UNCHANGED <<active, made, reading, pc>>
        /\ pipe[e] > 0 /\ pipe' = [pipe EXCEPT ![e] = @ - 1]
    BY <1>7 DEF Read
  <2>4. IsFiniteSet(Kept(e, Current.console))
          /\ Cardinality(Kept(e, Current.console)) \in Nat
    BY <2>3, FS_CardinalityType
  <2>5. ASSUME NEW p \in Execs
        PROVE  /\ p \in reading' =>
                    /\ IsFiniteSet(Kept(p, Current'.console))
                    /\ Cardinality(Kept(p, Current'.console)) + pipe'[p] = made'[p]
               /\ pc'[p] \in Coming => p \notin reading' /\ pipe'[p] = made'[p]
               /\ pc'[p] \in Coming /\ active' # None => Kept(p, Current'.console) = {}
    <3>1. CASE p = e
      BY <2>2, <2>3, <2>4, <3>1
    <3>2. CASE p # e
      BY <2>1, <2>2, <2>3, <3>2
    <3>3. QED
      BY <3>1, <3>2
  <2>6. QED
    BY <2>5
<1>8. ASSUME NEW e \in Execs, ReadGarbled(e) PROVE Accounted'
  <2>1. /\ e \in reading /\ reading' = reading \ {e}
             /\ UNCHANGED <<shells, active, made, pc>>
        /\ pipe' = [pipe EXCEPT ![e] = @ - 1]
    BY <1>8 DEF ReadGarbled, sessionVars
  <2>2. QED
    BY <2>1 DEF Current
<1>9. ASSUME NEW e \in Execs, ReadEnd(e) PROVE Accounted'
  BY <1>9 DEF ReadEnd, sessionVars, osVars, Current
<1>10. ASSUME NEW e \in Execs, Output(e) PROVE Accounted'
  <2>1. /\ UNCHANGED <<shells, active, reading, pc>>
        /\ made' = [made EXCEPT ![e] = @ + 1] /\ pipe' = [pipe EXCEPT ![e] = @ + 1]
    BY <1>10 DEF Output, sessionVars
  <2>2. ASSUME NEW p \in reading
        PROVE  /\ IsFiniteSet(Kept(p, Current'.console))
               /\ Cardinality(Kept(p, Current'.console)) + pipe'[p] = made'[p]
    <3>1. Cardinality(Kept(p, Current.console)) \in Nat
      BY FS_CardinalityType
    <3>2. Current' = Current
      BY <2>1 DEF Current
    <3>3. p \in Execs /\ made[p] \in Nat /\ pipe[p] \in Nat
      BY ShellAssumption
    <3>4. IF p = e THEN made'[p] = made[p] + 1 /\ pipe'[p] = pipe[p] + 1
                   ELSE made'[p] = made[p] /\ pipe'[p] = pipe[p]
      BY <2>1, <3>3
    <3>5. /\ IsFiniteSet(Kept(p, Current.console))
          /\ Cardinality(Kept(p, Current.console)) + pipe[p] = made[p]
      BY <3>3
    <3> DEFINE k == Cardinality(Kept(p, Current.console))
    <3>6. k \in Nat /\ k + pipe[p] = made[p]
      BY <3>1, <3>5
    <3> HIDE DEF k
    <3>7. k + pipe'[p] = made'[p]
      BY <3>3, <3>4, <3>6
    <3>8. QED
      BY <3>2, <3>5, <3>7 DEF k
  <2>3. QED
    BY <2>1, <2>2 DEF Current
<1>11. ASSUME NEW e \in Execs, End(e) PROVE Accounted'
  BY <1>11 DEF End, sessionVars, Current
<1>12. ASSUME NEW r \in Requests, Write(r) PROVE Accounted'
  <2>1. active # None /\ r \in Piece /\ r \notin Execs
    BY <1>12, Kinds DEF Write, Piece
  <2>2. \A p \in Execs : Kept(p, Current'.console) = Kept(p, Current.console)
    <3>1. CASE shells' = shells
      BY <1>12, <3>1 DEF Write, Current
    <3>2. CASE shells' = [shells EXCEPT ![active] = Add(@, r)]
      <4>1. Inv /\ active # None /\ r \in Piece /\ active' = active
        BY <1>12, <2>1 DEF Write
      <4>2. ASSUME NEW p \in Execs
              PROVE Kept(p, Current'.console) = Kept(p, Current.console)
        BY <2>1, <3>2, <4>1, KeptInSession
      <4>3. QED
        BY <4>2
    <3>3. QED
      BY <1>12, <3>1, <3>2 DEF Write
  <2>3. UNCHANGED <<active, made, pipe, reading>> /\ Goto(r, "done")
    BY <1>12 DEF Write, osVars
  <2>4. QED
    BY <2>1, <2>2, <2>3 DEF Goto
<1>13. ASSUME NEW r \in Requests, Kill(r) PROVE Accounted'
  BY <1>13 DEF Kill, Goto, sessionVars, osVars, Current
<1>14. ASSUME NEW r \in Requests, KillHard(r) PROVE Accounted'
  BY <1>14, Kinds DEF KillHard, Goto, sessionVars, Current
<1>15. ASSUME NEW r \in Requests, Killed(r) PROVE Accounted'
  BY <1>15 DEF Killed, Goto, sessionVars, osVars, Current
<1>16. ASSUME NEW r \in Requests, Wait(r) PROVE Accounted'
  BY <1>16 DEF Wait, Goto, sessionVars, osVars, Current
<1>17. ASSUME NEW r \in Requests, Waited(r) PROVE Accounted'
  BY <1>17 DEF Waited, Goto, sessionVars, osVars, Current
<1>18. CASE UNCHANGED vars
  BY <1>18 DEF vars, sessionVars, osVars, Current
<1>19. QED
  BY <1>1, <1>2, <1>3, <1>4, <1>5, <1>6, <1>7, <1>8, <1>9, <1>10,
     <1>11, <1>12, <1>13, <1>14, <1>15, <1>16, <1>17, <1>18
     DEF Next, Exec, GoOn, Reader


\* The serial invariant begins and stays.
LEMMA SerialInvInit == Init => SerialInv
  BY ShellAssumption DEF Init, SerialInv, OneBusy, SameSession, AliveIs, ViewMatchesConsole,
     Accounted, Coming, Busy, Requests

\* Every step keeps it.
LEMMA SerialInvStep == Serial /\ Inv /\ SerialInv /\ [Next]_vars => SerialInv'
  BY BusyStep, SameStep, AliveStep, ViewStep, AccountStep DEF SerialInv

-----------------------------------------------------------------------------
(* The theorems *)

\* The session, the processes and the requests are what ShellService makes them;
\* however commands race, a request that uses the session finds one.
THEOREM TypesHold == Spec => []Inv
<1>1. Init => Inv
  BY InvInit
<1>2. Inv /\ [Next]_vars => Inv'
  BY InvStep
<1>3. QED
  BY <1>1, <1>2, PTL DEF Spec

\* For a client that sends one command at a time.
LEMMA SerialHolds == Serial => (Spec => []SerialInv)
<1>1. Init => SerialInv
  BY SerialInvInit
<1>2. Serial /\ Inv /\ SerialInv /\ [Next]_vars => SerialInv'
  BY SerialInvStep
<1>3. Serial => [](Serial)
  OBVIOUS
<1>4. QED
  BY <1>1, <1>2, <1>3, TypesHold, PTL DEF Spec

\* A command replaces the one before it (exec_command): between commands only the
\* process of the session may run on its own.
THEOREM CommandReplaces == Serial => (Spec => []OneAlive)
<1>1. SerialInv => OneAlive
  BY DEF SerialInv, AliveIs, OneAlive, Busy
<1>2. QED
  BY <1>1, SerialHolds, PTL

\* What view_shell shows is what the latest console record holds.
THEOREM ViewIsConsole == Serial => (Spec => []ViewMatchesConsole)
<1>1. SerialInv => ViewMatchesConsole
  BY DEF SerialInv
<1>2. QED
  BY <1>1, SerialHolds, PTL

\* Nothing that a process writes is lost while its output reader lives.
THEOREM OutputIsKept == Serial => (Spec => []NoOutputLost)
<1>1. Inv /\ SerialInv => NoOutputLost
  BY DEF Inv, TypeOK, SerialInv, Accounted, NoOutputLost
<1>2. QED
  BY <1>1, SerialHolds, TypesHold, PTL

-----------------------------------------------------------------------------
(* Texts (SandboxFiles) *)

\* A non-empty set of numbers has a least one.
LEMMA Least ==
  ASSUME NEW T, T \subseteq Nat, T # {}
  PROVE  \E x \in T : \A y \in T : x <= y
<1> DEFINE R == StrictSubsetOrdering(Nat)
           S == FiniteSubsetsOf(Nat)
           I == {1 .. x : x \in T}
<1>1. IsWellFoundedOn(R, S)
  BY FS_StrictSubsetOrderingWellFounded
<1>2. I \subseteq S /\ I # {}
  <2> SUFFICES ASSUME NEW x \in T PROVE 1 .. x \in S
    OBVIOUS
  <2> QED BY FS_Interval DEF FiniteSubsetsOf
<1>3. PICK X \in I : \A Y \in I : <<Y, X>> \notin R
  <2> HIDE DEF R, S, I
  <2> QED BY <1>1, <1>2, WFMin
<1>4. PICK x \in T : X = 1 .. x
  OBVIOUS
<1>5. ASSUME NEW y \in T, y < x PROVE FALSE
  <2>1. 1 .. y \subseteq 1 .. x /\ x \in 1 .. x /\ x \notin 1 .. y
    BY <1>5
  <2>2. <<1 .. y, 1 .. x>> \in R
    BY <2>1 DEF StrictSubsetOrdering
  <2> QED BY <2>2, <1>3, <1>4
<1> QED BY <1>5

LEMMA Reaches ==
    ASSUME NEW n \in Nat, NEW S, 1 \in S,
           \A i \in 1 .. n : i \in S /\ i < n => i + 1 \in S
    PROVE  1 .. n \subseteq S
<1> DEFINE Out == {i \in 1 .. n : i \notin S}
<1>1. SUFFICES ASSUME Out # {} PROVE FALSE
  OBVIOUS
<1>2. PICK m \in Out : \A i \in Out : m <= i
  <2>1. Out \subseteq Nat
    OBVIOUS
  <2> HIDE DEF Out
  <2> QED BY <1>1, <2>1, Least
<1>3. m # 1 /\ m - 1 \in 1 .. n /\ m - 1 \notin Out
  BY <1>2
<1> QED BY <1>2, <1>3

\* What Files!FlattenSeq computes, one sequence after the other.
LEMMA Flattens ==
    ASSUME NEW U, NEW s \in Seq(Seq(U)), s # <<>>
    PROVE  \E f \in [1 .. Len(s) -> Seq(U)] :
              /\ Files!FlattenSeq(s) = f[Len(s)] /\ f[1] = s[1]
              /\ \A i \in 2 .. Len(s) : f[i] = f[i - 1] \o s[i]
<1> DEFINE n == Len(s)
           Next1(f, i) == IF i = 1 THEN s[i] ELSE f[i - 1] \o s[i]
           Is(f, m) == \A i \in 1 .. m : f[i] = Next1(f, i)
           S == {m \in 1 .. n : \E f \in [1 .. m -> Seq(U)] : Is(f, m)}
<1>1. n \in Nat \ {0} /\ \A i \in 1 .. n : s[i] \in Seq(U)
  BY EmptySeq
<1>2. 1 \in S
  <2> DEFINE f == [i \in 1 .. 1 |-> s[1]]
  <2>1. s[1] \in Seq(U) /\ 1 \in 1 .. n
    BY <1>1
  <2>2. f \in [1 .. 1 -> Seq(U)] /\ f[1] = s[1]
    BY <2>1
  <2>3. Is(f, 1)
    BY <2>2
  <2> HIDE DEF f, Is, n
  <2> QED BY <2>1, <2>2, <2>3
<1>3. ASSUME NEW i \in 1 .. n, i \in S, i < n PROVE i + 1 \in S
  <2>1. PICK f \in [1 .. i -> Seq(U)] : Is(f, i)
    BY <1>3
  <2> DEFINE g == [j \in 1 .. i + 1 |-> IF j = i + 1 THEN f[i] \o s[j] ELSE f[j]]
  <2>2. f[i] \o s[i + 1] \in Seq(U)
    <3>1. f[i] \in Seq(U) /\ s[i + 1] \in Seq(U)
      BY <1>1, <1>3
    <3> QED BY <3>1, ConcatProperties
  <2>3. g \in [1 .. i + 1 -> Seq(U)]
    BY <2>2
  <2>4. Is(g, i + 1)
    <3> SUFFICES ASSUME NEW j \in 1 .. i + 1 PROVE g[j] = Next1(g, j)
      OBVIOUS
    <3>1. CASE j = i + 1
      <4>1. g[j] = f[i] \o s[j] /\ j # 1 /\ j - 1 = i /\ g[j - 1] = f[i]
        BY SMTT(40), <1>3, <3>1
      <4> QED BY <4>1
    <3>2. CASE j # i + 1
      <4>1. j \in 1 .. i /\ g[j] = f[j] /\ (j # 1 => g[j - 1] = f[j - 1])
        BY <3>2
      <4>2. f[j] = Next1(f, j)
        BY <2>1, <4>1
      <4> HIDE DEF g
      <4> QED BY <4>1, <4>2
    <3> QED BY <3>1, <3>2
  <2> HIDE DEF g, Is
  <2> QED BY <1>3, <2>3, <2>4, <1>1
<1>4. n \in S
  <2> HIDE DEF S, n
  <2>1. 1 .. n \subseteq S
    BY <1>1, <1>2, <1>3, Reaches
  <2> QED BY <1>1, <2>1
<1>5. PICK f \in [1 .. n -> Seq(U)] : Is(f, n)
  BY <1>4
<1> DEFINE flatten == CHOOSE h : h = [i \in 1 .. n |-> Next1(h, i)]
<1>6. f = [i \in 1 .. n |-> Next1(f, i)]
  BY <1>5
<1>7. flatten = [i \in 1 .. n |-> Next1(flatten, i)]
  BY <1>6
<1>8. Files!FlattenSeq(s) = flatten[n]
  BY <1>1 DEF Files!FlattenSeq
<1>9. ASSUME NEW i \in 1 .. n PROVE flatten[i] = f[i]
  <2> DEFINE E == {j \in 1 .. n : flatten[j] = f[j]}
  <2> HIDE DEF flatten, n
  <2>0. \A j \in 1 .. n : flatten[j] = Next1(flatten, j) /\ f[j] = Next1(f, j)
    BY <1>5, <1>7
  <2>1. 1 \in E
    <3>1. 1 \in 1 .. n
      BY <1>1
    <3>2. flatten[1] = s[1] /\ f[1] = s[1]
      BY <2>0, <3>1
    <3> QED BY <3>1, <3>2
  <2>2. ASSUME NEW j \in 1 .. n, j \in E, j < n PROVE j + 1 \in E
    <3>1. j + 1 \in 1 .. n /\ j + 1 # 1 /\ (j + 1) - 1 = j
      BY <1>1, <2>2
    <3>2. flatten[j + 1] = flatten[j] \o s[j + 1] /\ f[j + 1] = f[j] \o s[j + 1]
      BY <2>0, <3>1
    <3> QED BY <2>2, <3>1, <3>2
  <2> HIDE DEF E
  <2>3. 1 .. n \subseteq E
    BY <1>1, <2>1, <2>2, Reaches
  <2> QED BY <2>3 DEF E
<1> HIDE DEF flatten
<1>10. Files!FlattenSeq(s) = f[n]
  BY <1>1, <1>8, <1>9
<1>11. f[1] = s[1] /\ \A i \in 2 .. n : f[i] = f[i - 1] \o s[i]
  <2> HIDE DEF n
  <2>1. 1 \in 1 .. n /\ \A i \in 2 .. n : i \in 1 .. n /\ i # 1
    BY <1>1
  <2> QED BY <1>5, <2>1
<1> QED BY <1>5, <1>10, <1>11

\* What an append starts from, and any other writing.
Base(r) == IF req[r].op = "append" THEN Files!OldText(r) ELSE <<>>

\* Piece by piece, one text is the beginning of another that is there.
Begins(s, t) == s = <<>> \/ (t # None /\ Len(s) <= Len(t) /\ \A i \in 1 .. Len(s) : s[i] = t[i])

\* Two that write one file, or the temporary one, are in each other's way; and so are
\* those beside them.
Crossings ==
    /\ \A q, w \in Jobs : /\ Files!Writer(q) /\ Files!Writer(w) /\ q # w
                          /\ req[q].path = req[w].path \/ (req[q].sudo /\ req[w].sudo)
                          => q \in crossed
    /\ \A q, w \in Jobs : /\ Files!Under(q) /\ Files!Writer(w) /\ w \in crossed
                          /\ req[q].path = req[w].path
                          => q \in crossed

\* Only writing opens files, and only to replace a text is it read first.
Places(r) ==
    /\ req[r].pc = "idle" => req[r].op = "find" /\ r \notin crossed
    /\ req[r].pc \in {"temp", "cat", "copy", "unlink"} => req[r].sudo
    /\ req[r].pc \in {"temp", "cat", "copy", "unlink", "open", "put"} => req[r].op \in Files!Writing
    /\ req[r].pc \in {"check", "read"} => /\ req[r].op \in Files!Reading \cup {"replace"}
                                          /\ req[r].body = <<>>
    /\ req[r].pc = "glob" => req[r].op = "find"
    /\ req[r].pc = "check" => req[r].got = <<>>
    /\ req[r].pc \in {"check", "read", "temp", "cat", "open"} => req[r].at = 0 /\ req[r].src = None
    /\ req[r].op = "replace" => req[r].range = Files!AllLines

\* What is written is there, and where it comes from.
Has(r) ==
    /\ req[r].pc \in {"put", "copy"} => file[req[r].path] # None
    /\ req[r].pc = "copy" /\ req[r].src = None => temp # None

\* A writer in nobody's way: what it read, what it writes and where its file stands.
BodyIs(r) ==
    IF req[r].op = "replace"
    THEN LET was == Files!Shorten(Files!Plain(before[r], req[r].sudo)) IN
         /\ before[r] # None /\ Files!Count(was) > 0
         /\ req[r].body = Files!Replaced(was, req[r].text)
    ELSE req[r].body = req[r].text
Grown(r) ==
    LET text == file[req[r].path]  n == Len(Base(r)) IN
    /\ text # None /\ req[r].at <= Len(req[r].body) /\ Len(text) = n + req[r].at
    /\ \A i \in 1 .. n : text[i] = Base(r)[i]
    /\ \A i \in 1 .. req[r].at : text[n + i] = req[r].body[i]
Stand(r) ==
    /\ req[r].pc \in {"check", "read", "temp", "open", "cat"} => file[req[r].path] = before[r]
    /\ req[r].pc = "read" => Begins(req[r].got, file[req[r].path])
    /\ req[r].pc \in {"temp", "open", "cat", "put", "copy", "unlink"} => BodyIs(r)
    /\ req[r].pc \in {"cat", "copy", "unlink"} => temp = req[r].body /\ req[r].src = None
    /\ req[r].pc \in {"put", "copy", "unlink"} => Grown(r)
    /\ req[r].pc = "unlink" => req[r].at = Len(req[r].body)

\* A reader: what it has read of a file that only grew, or of one that was emptied.
FromWhere(r, text) == \A i \in DOMAIN text : Files!Meant(r, i, text[i])
ReaderIs(r) ==
    /\ r \notin torn => Begins(req[r].got, file[req[r].path])
    /\ r \notin crossed =>
         /\ file[req[r].path] # None => FromWhere(r, file[req[r].path])
         /\ FromWhere(r, req[r].got)

RequestIs(r) ==
    /\ Places(r) /\ Has(r)
    /\ Files!Writer(r) /\ r \notin crossed => Stand(r)
    /\ Files!Under(r) /\ req[r].op \in Files!Reading => ReaderIs(r)

FilesInv == Files!TypeOK /\ Crossings /\ \A r \in Jobs : RequestIs(r)

\* What texts consist of.
Alphabet == Units \cup {"lf", Files!Cut, Files!Hole}

\* The files count as the library does.
LEMMA FilesCount == ASSUME NEW S PROVE Files!Cardinality(S) = Cardinality(S)
  BY DEF Files!Cardinality, Cardinality

LEMMA FileConstants ==
    /\ MaxLength \in Nat \ {0} /\ None \notin Files!Text /\ Paths # {} /\ IsFiniteSet(Paths)
    /\ Files!Text = Seq(Alphabet) /\ Texts \subseteq Files!Text /\ <<>> \in Texts
    /\ SudoUse \subseteq BOOLEAN /\ Ranges \subseteq Nat \X Nat
    /\ Ops \subseteq Files!Writing \cup Files!Reading \cup {"find"}
<1>1. /\ MaxLength \in Nat \ {0} /\ None \notin Files!Text /\ Paths # {}
      /\ SudoUse \subseteq BOOLEAN /\ Ranges \subseteq Nat \X Nat /\ Files!IsFiniteSet(Paths)
      /\ Ops \subseteq Files!Writing \cup Files!Reading \cup {"find"}
      /\ Texts \subseteq Seq(Units) /\ <<>> \in Texts
  BY PartsAssumption DEF Files!SandboxFilesAssumption
<1>2. Files!Text = Seq(Alphabet)
  BY DEF Files!Text, Alphabet
<1>3. Texts \subseteq Files!Text
  <2>1. Seq(Units) \subseteq Seq(Alphabet)
    <3> SUFFICES ASSUME NEW t \in Seq(Units) PROVE t \in Seq(Alphabet)
      OBVIOUS
    <3> QED BY DEF Alphabet
  <2> QED BY <1>1, <1>2, <2>1
<1>4. IsFiniteSet(Paths)
  BY <1>1 DEF Files!IsFiniteSet, IsFiniteSet
<1> QED BY <1>1, <1>2, <1>3, <1>4

\* What is counted is a number.
LEMMA CountIsNumber == ASSUME NEW t \in Files!Text PROVE Files!Count(t) \in Nat
<1> DEFINE X == {i \in DOMAIN t : t[i] = "x"}
<1>1. Len(t) \in Nat /\ DOMAIN t = 1 .. Len(t)
  BY DEF Files!Text
<1>2. Cardinality(X) \in Nat
  <2>1. IsFiniteSet(1 .. Len(t)) /\ X \subseteq 1 .. Len(t)
    BY <1>1, FS_Interval
  <2> HIDE DEF X
  <2> QED BY <2>1, FS_Subset, FS_CardinalityType
<1> QED BY <1>2, FilesCount DEF Files!Count

\* Flattened texts are a text.
LEMMA FlattensText ==
    ASSUME NEW t \in Files!Text, NEW f \in [DOMAIN t -> Files!Text]
    PROVE  Files!FlattenSeq(f) \in Files!Text
<1>1. Len(t) \in Nat /\ DOMAIN t = 1 .. Len(t)
  BY FileConstants
<1>2. f \in Seq(Files!Text) /\ Len(f) = Len(t)
  BY <1>1, SeqDef
<1>3. CASE f = <<>>
  <2>1. Files!FlattenSeq(f) = <<>>
    BY <1>3 DEF Files!FlattenSeq
  <2> QED BY <2>1, FileConstants
<1>4. CASE f # <<>>
  <2>1. f \in Seq(Seq(Alphabet))
    BY <1>2, FileConstants
  <2>2. PICK g \in [1 .. Len(f) -> Seq(Alphabet)] : Files!FlattenSeq(f) = g[Len(f)]
    BY <1>4, <2>1, Flattens
  <2>3. Len(f) \in 1 .. Len(f)
    BY <1>2, <1>4, EmptySeq, LenProperties
  <2> QED BY <2>2, <2>3, FileConstants
<1> QED BY <1>3, <1>4

LEMMA ReplacedText ==
    ASSUME NEW t \in Files!Text, NEW new \in Files!Text
    PROVE  Files!Replaced(t, new) \in Files!Text
<1> DEFINE f == [i \in DOMAIN t |-> IF t[i] = "x" THEN new ELSE <<t[i]>>]
<1>1. f \in [DOMAIN t -> Files!Text]
  <2> SUFFICES ASSUME NEW i \in DOMAIN t PROVE <<t[i]>> \in Files!Text
    OBVIOUS
  <2>1. t[i] \in Alphabet
    BY FileConstants, ElementOfSeq
  <2> QED BY <2>1, FileConstants
<1> HIDE DEF f
<1>2. Files!FlattenSeq(f) \in Files!Text
  BY <1>1, FlattensText
<1> QED BY <1>2 DEF Files!Replaced, f

\* A text opened as text has the same length.
LEMMA PlainText ==
    ASSUME NEW t \in Files!Text, NEW sudo
    PROVE  Files!Plain(t, sudo) \in Files!Text /\ Len(Files!Plain(t, sudo)) = Len(t)
<1>1. t \in Seq(Alphabet) /\ Len(t) \in Nat /\ DOMAIN t = 1 .. Len(t)
  BY FileConstants
<1>2. ASSUME NEW i \in DOMAIN t
      PROVE  (IF t[i] = "crlf" /\ ~sudo THEN "lf" ELSE t[i]) \in Alphabet
  BY <1>1 DEF Alphabet
<1>3. Files!Plain(t, sudo) \in [1 .. Len(t) -> Alphabet]
  BY <1>1, <1>2 DEF Files!Plain
<1>4. Files!Plain(t, sudo) \in Seq(Alphabet)
  BY <1>1, <1>3, SeqDef
<1> QED BY <1>1, <1>3, <1>4, FileConstants

LEMMA ShortenText ==
    ASSUME NEW t \in Files!Text
    PROVE  /\ Files!Shorten(t) \in Files!Text
           /\ Len(t) <= MaxLength => Files!Shorten(t) = t
<1>1. t \in Seq(Alphabet) /\ Len(t) \in Nat /\ MaxLength \in Nat /\ MaxLength > 0
      /\ <<Files!Cut>> \in Seq(Alphabet)
  BY FileConstants DEF Alphabet
<1>2. ASSUME Len(t) > MaxLength
      PROVE  SubSeq(t, 1, MaxLength) \o <<Files!Cut>> \in Seq(Alphabet)
  <2>1. SubSeq(t, 1, MaxLength) \in Seq(Alphabet)
    BY <1>1, <1>2
  <2> QED BY <1>1, <2>1, ConcatProperties
<1> QED BY <1>1, <1>2, FileConstants DEF Files!Shorten

LEMMA JoinedText ==
    ASSUME NEW t \in Files!Text, NEW range
    PROVE  Files!Joined(t, range) \in Files!Text
<1> DEFINE line(i) == Files!LineOf(t, i)
           ends(i) == line(i) + 1 = range[2] \/ i = Len(t)
           f == [i \in DOMAIN t |->
                    IF line(i) < range[1] \/ line(i) >= range[2] THEN <<>>
                    ELSE IF t[i] \notin Files!LineEnds THEN <<t[i]>>
                    ELSE IF ends(i) THEN <<>> ELSE <<"lf">>]
<1>1. Files!Joined(t, range) = Files!FlattenSeq(f)
  BY DEF Files!Joined
<1>2. f \in [DOMAIN t -> Files!Text]
  <2> SUFFICES ASSUME NEW i \in DOMAIN t
               PROVE  <<>> \in Files!Text /\ <<t[i]>> \in Files!Text /\ <<"lf">> \in Files!Text
    <3> HIDE DEF line, ends
    <3> QED OBVIOUS
  <2>1. t[i] \in Alphabet /\ "lf" \in Alphabet
    BY FileConstants, ElementOfSeq DEF Alphabet
  <2> QED BY <2>1, FileConstants
<1> HIDE DEF f
<1> QED BY <1>1, <1>2, FlattensText

LEMMA AnswerText ==
    ASSUME NEW t \in Files!Text, NEW q
    PROVE  Files!Answer(q, t) \in Files!Text
<1>1. /\ Files!Plain(t, q.sudo) \in Files!Text
      /\ Files!Joined(Files!Plain(t, q.sudo), q.range) \in Files!Text
  BY PlainText, JoinedText
<1> QED BY <1>1, ShortenText DEF Files!Answer

\* A prefix, unit by unit.
LEMMA PrefixIs ==
    ASSUME NEW s \in Files!Text, NEW t \in Files!Text
    PROVE  Files!IsPrefix(s, t) <=> Len(s) <= Len(t) /\ \A i \in 1 .. Len(s) : s[i] = t[i]
<1>1. s \in Seq(Alphabet) /\ t \in Seq(Alphabet) /\ Len(s) \in Nat /\ Len(t) \in Nat
  BY FileConstants
<1>2. SubSeq(s, 1, Len(s)) = s
  BY <1>1, SubSeqFull
<1>3. CASE Len(s) <= Len(t)
  <2>1. /\ SubSeq(t, 1, Len(s)) \in Seq(Alphabet) /\ Len(SubSeq(t, 1, Len(s))) = Len(s)
        /\ \A i \in 1 .. Len(s) : SubSeq(t, 1, Len(s))[i] = t[i]
    BY <1>1, <1>3
  <2>2. (\A i \in 1 .. Len(s) : s[i] = t[i]) => s = SubSeq(t, 1, Len(s))
    BY <1>1, <2>1, SeqEqual
  <2> QED BY <1>2, <1>3, <2>1, <2>2 DEF Files!IsPrefix
<1> QED BY <1>3 DEF Files!IsPrefix

\* What the invariant says of one request.
LEMMA OfOne ==
    ASSUME FilesInv, NEW r \in Jobs
    PROVE  /\ Files!TypeOK /\ Crossings /\ req \in [Jobs -> Files!Request]
           /\ req[r] \in Files!Request /\ req[r].path \in Paths /\ req[r].sudo \in BOOLEAN
           /\ req[r].text \in Texts /\ req[r].text \in Files!Text /\ req[r].body \in Files!Text
           /\ req[r].got \in Files!Text /\ req[r].src \in {None} \cup Files!Text
           /\ req[r].at \in Nat /\ req[r].n \in Nat
           /\ file \in [Paths -> {None} \cup Files!Text] /\ temp \in {None} \cup Files!Text
           /\ file[req[r].path] \in {None} \cup Files!Text
           /\ before[r] \in {None} \cup Files!Text /\ Files!OldText(r) \in Files!Text
           /\ Base(r) \in Files!Text
           /\ Places(r) /\ Has(r)
           /\ (Files!Writer(r) /\ r \notin crossed => Stand(r))
           /\ (Files!Under(r) /\ req[r].op \in Files!Reading => ReaderIs(r))
  BY FileConstants DEF FilesInv, RequestIs, Files!TypeOK, Files!Request, Files!OldText, Base

\* What an outsider sees of a request when its temporary file is taken from under it.
SameBut(x) ==
    /\ req'[x].pc = req[x].pc /\ req'[x].op = req[x].op /\ req'[x].path = req[x].path
    /\ req'[x].sudo = req[x].sudo /\ req'[x].text = req[x].text /\ req'[x].range = req[x].range
    /\ req'[x].got = req[x].got /\ req'[x].body = req[x].body /\ req'[x].at = req[x].at
Bereft(x) == SameBut(x) /\ Files!Writer(x) /\ x \in crossed /\ req[x].pc = "copy"
Others(r) == \A x \in Jobs : x # r => req'[x] = req[x] \/ Bereft(x)
Asked(r) ==
    /\ req'[r].op = req[r].op /\ req'[r].path = req[r].path /\ req'[r].sudo = req[r].sudo
    /\ req'[r].text = req[r].text /\ req'[r].range = req[r].range

\* What a request writes is set once, so what is meant stays meant.
LEMMA MeantStays ==
    ASSUME FilesInv, NEW r \in Jobs, Others(r), Asked(r), before' = before,
           \/ req'[r].body = req[r].body
           \/ req[r].body = <<>> /\ req[r].op # "append",
           NEW x \in Jobs, req'[x].path = req[x].path, NEW i, NEW u, Files!Meant(x, i, u)
    PROVE  Files!Meant(x, i, u)'
<1>1. Files!OldText(x)' = Files!OldText(x)
  BY DEF Files!OldText
<1>2. CASE i \in DOMAIN Files!OldText(x) /\ Files!OldText(x)[i] = u
  BY <1>1, <1>2 DEF Files!Meant
<1>3. ASSUME NEW w \in Jobs, req[w].op \in Files!Writing, req[w].path = req[x].path,
             i \in DOMAIN Files!Aim(w), Files!Aim(w)[i] = u
      PROVE  Files!Meant(x, i, u)'
  <2>1. req'[w].op = req[w].op /\ req'[w].path = req[w].path
    BY DEF Others, Asked, Bereft, SameBut
  <2>2. Files!OldText(w)' = Files!OldText(w)
    BY DEF Files!OldText
  <2>3. req'[w].body = req[w].body
    <3> SUFFICES ASSUME w = r, req[r].body = <<>>, req[r].op # "append" PROVE FALSE
      BY DEF Others, Bereft, SameBut
    <3>1. Files!Aim(w) = <<>> \o <<>>
      BY DEF Files!Aim
    <3>2. Files!Aim(w) = <<>>
      BY <3>1, ConcatEmptySeq, EmptySeq
    <3> QED BY <1>3, <3>2
  <2>4. Files!Aim(w)' = Files!Aim(w)
    BY <2>1, <2>2, <2>3 DEF Files!Aim
  <2> QED BY <1>3, <2>1, <2>4 DEF Files!Meant
<1> QED BY <1>2, <1>3 DEF Files!Meant

\* What was read of a file is read of one that it begins.
LEMMA BeginsOn ==
    ASSUME NEW g \in Files!Text, NEW s \in Files!Text, NEW t \in Files!Text,
           Begins(g, s), Files!IsPrefix(s, t)
    PROVE  Begins(g, t)
<1>1. Len(s) <= Len(t) /\ \A i \in 1 .. Len(s) : s[i] = t[i]
  BY PrefixIs
<1>2. Len(g) \in Nat /\ Len(s) \in Nat /\ Len(t) \in Nat /\ t # None
  BY FileConstants
<1> QED BY <1>1, <1>2 DEF Begins

\* A file changes as its writer means it to.
Changes(r) ==
    \/ UNCHANGED <<file, torn>>
    \/ /\ Files!Writer(r) /\ \E t \in Files!Text : Files!Becomes(r, t)
       /\ r \notin crossed => \A i \in DOMAIN file'[req[r].path] :
             i \in DOMAIN Files!Aim(r)' /\ Files!Aim(r)'[i] = file'[req[r].path][i]

\* A step of one request keeps the invariant if it keeps what is said of that request.
LEMMA OneMoves ==
    ASSUME FilesInv, Files!TypeOK', NEW r \in Jobs, Others(r), Asked(r),
           UNCHANGED <<before, crossed>>, Files!Under(r), req'[r].pc # "idle",
           \/ req'[r].body = req[r].body
           \/ req[r].body = <<>> /\ req[r].op # "append",
           Changes(r), temp' = temp \/ (Files!Writer(r) /\ req[r].sudo),
           \A x \in Jobs : Has(x)',
           Places(r)', Files!Writer(r)' /\ r \notin crossed => Stand(r)',
           Files!Under(r)' /\ req[r].op \in Files!Reading => ReaderIs(r)'
    PROVE  FilesInv'
<1>1. ASSUME NEW x \in Jobs, x # r
      PROVE  /\ Files!Under(x)' <=> Files!Under(x)
             /\ Files!Writer(x)' <=> Files!Writer(x)
             /\ req'[x].path = req[x].path /\ req'[x].sudo = req[x].sudo /\ Places(x)'
  BY <1>1, OfOne DEF Others, Bereft, SameBut, Files!Under, Files!Writer, Places
<1>2. Files!Writer(r)' => Files!Writer(r)
  BY DEF Asked, Files!Writer
<1>3. Crossings'
  <2>1. Crossings
    BY OfOne
  <2> QED BY <1>1, <1>2, <2>1 DEF Crossings, Asked
<1>4. \A x \in Paths : file'[x] = file[x] \/ (Files!Writer(r) /\ x = req[r].path)
  BY OfOne DEF Changes, Files!Becomes
<1>5. ASSUME NEW x \in Jobs, x # r, Files!Writer(x)', x \notin crossed PROVE Stand(x)'
  <2>1. Files!Writer(x) /\ Stand(x) /\ req'[x] = req[x] /\ Places(x) /\ req[x].path \in Paths
    BY <1>1, <1>5, OfOne DEF Others, Bereft
  <2>2. ~(Files!Writer(r) /\ (req[r].path = req[x].path \/ (req[r].sudo /\ req[x].sudo)))
    BY <1>5, <2>1, OfOne DEF Crossings
  <2>3. file'[req[x].path] = file[req[x].path]
    BY <1>4, <2>1, <2>2
  <2>4. req[x].pc \in {"cat", "copy", "unlink"} => temp' = temp
    BY <2>1, <2>2 DEF Places
  <2>5. Base(x)' = Base(x) /\ (BodyIs(x) => BodyIs(x)')
    BY <2>1 DEF Base, BodyIs, Files!OldText
  <2>6. Grown(x) => Grown(x)'
    BY <2>1, <2>3, <2>5 DEF Grown
  <2> QED BY <2>1, <2>3, <2>4, <2>5, <2>6 DEF Stand
<1>6. ASSUME NEW x \in Jobs, x # r, Files!Under(x)', req'[x].op \in Files!Reading PROVE ReaderIs(x)'
  <2> DEFINE p == req[x].path
  <2>1. /\ Files!Under(x) /\ req[x].op \in Files!Reading /\ req'[x] = req[x] /\ ReaderIs(x)
        /\ p \in Paths /\ req[x].got \in Files!Text
    <3>1. req'[x] = req[x]
      BY <1>6 DEF Others, Bereft, SameBut, Files!Writer, Files!Writing, Files!Reading
    <3> QED BY <1>1, <1>6, <3>1, OfOne
  <2>2. \A i, u : Files!Meant(x, i, u) => Files!Meant(x, i, u)'
    BY <2>1, MeantStays
  <2>3. CASE UNCHANGED <<file, torn>> \/ req[r].path # p
    <3>1. file'[p] = file[p] /\ (x \notin torn' => x \notin torn)
      BY <1>4, <2>1, <2>3 DEF Changes, Files!Becomes
    <3>2. x \notin torn' => Begins(req'[x].got, file'[p])
      BY <2>1, <3>1 DEF ReaderIs
    <3>3. x \notin crossed => /\ file'[p] # None => FromWhere(x, file[p])'
                              /\ FromWhere(x, req[x].got)'
      BY <2>1, <2>2, <3>1 DEF ReaderIs, FromWhere
    <3> QED BY <2>1, <3>2, <3>3 DEF ReaderIs
  <2>4. CASE ~UNCHANGED <<file, torn>> /\ req[r].path = p
    <3>1. PICK t \in Files!Text : Files!Becomes(r, t)
      BY <2>4 DEF Changes
    <3>2. /\ file'[p] = t /\ file[p] \in {None} \cup Files!Text /\ Files!Writer(r)
          /\ torn \subseteq torn'
          /\ file[p] # None /\ x \notin torn' => Files!IsPrefix(file[p], t)
      <4>1. file' = [file EXCEPT ![p] = t] /\ Files!Writer(r)
        BY <2>4, <3>1 DEF Files!Becomes, Changes
      <4>2. file'[p] = t /\ file[p] \in {None} \cup Files!Text
        BY <2>1, <4>1, OfOne
      <4>3. torn \subseteq torn'
        BY <3>1 DEF Files!Becomes
      <4>4. file[p] # None /\ x \notin torn' => Files!IsPrefix(file[p], t)
        BY <2>1, <2>4, <3>1 DEF Files!Becomes
      <4> QED BY <4>1, <4>2, <4>3, <4>4
    <3>3. x \notin torn' => Begins(req[x].got, t)
      <4>1. CASE file[p] = None
        BY <2>1, <3>2, <4>1 DEF ReaderIs, Begins
      <4>2. CASE file[p] # None
        BY <2>1, <3>2, <4>2, BeginsOn DEF ReaderIs
      <4> QED BY <4>1, <4>2
    <3>4. ASSUME x \notin crossed PROVE FromWhere(x, file[p])' /\ FromWhere(x, req[x].got)'
      <4>1. r \notin crossed
        BY <2>1, <2>4, <3>2, <3>4, OfOne DEF Crossings
      <4>2. req'[r].op \in Files!Writing /\ req'[r].path = req'[x].path
        BY <2>1, <2>4, <3>2 DEF Asked, Files!Writer
      <4>3. \A i \in DOMAIN t : i \in DOMAIN Files!Aim(r)' /\ Files!Aim(r)'[i] = t[i]
        BY <2>4, <3>2, <4>1 DEF Changes
      <4>4. FromWhere(x, file[p])'
        BY <2>1, <3>2, <4>2, <4>3 DEF FromWhere, Files!Meant
      <4>5. FromWhere(x, req[x].got)'
        BY <2>1, <2>2, <3>4 DEF ReaderIs, FromWhere
      <4> QED BY <4>4, <4>5
    <3> QED BY <2>1, <3>2, <3>3, <3>4 DEF ReaderIs
  <2> QED BY <2>3, <2>4
<1>7. ASSUME NEW x \in Jobs PROVE RequestIs(x)'
  <2>1. CASE x = r
    BY <2>1 DEF RequestIs, Asked
  <2>2. CASE x # r
    BY <1>1, <1>5, <1>6, <2>2 DEF RequestIs
  <2> QED BY <2>1, <2>2
<1> QED BY <1>3, <1>7 DEF FilesInv

Pcs == {"idle", "check", "read", "open", "put", "temp", "cat", "copy", "unlink", "glob",
        "done", "failed", "missing"}
Ends == {"done", "failed", "missing"}
Alone(r) == \A x \in Jobs : x # r => req'[x] = req[x]
Steady(r)  == /\ req'[r].body = req[r].body /\ req'[r].at = req[r].at /\ req'[r].src = req[r].src

\* A step that takes request r to place c.
LEMMA Goes ==
    ASSUME Files!TypeOK, NEW r \in Jobs, NEW c \in Pcs, Files!Go(r, c)
    PROVE  /\ req' \in [Jobs -> Files!Request] /\ Alone(r) /\ Asked(r) /\ Steady(r)
           /\ req'[r].pc = c /\ req'[r].got = req[r].got
  BY DEF Files!TypeOK, Files!Go, Files!Request, Pcs, Asked, Alone, Steady

\* One that also changes what was read, what is to be written, or what is counted.
LEMMA GoesWith ==
    ASSUME Files!TypeOK, NEW r \in Jobs, NEW new \in Files!Request, req' = [req EXCEPT ![r] = new]
    PROVE  req' \in [Jobs -> Files!Request] /\ Alone(r) /\ req'[r] = new
  BY DEF Files!TypeOK, Alone

\* A step that changes no file.
LEMMA QuietMove ==
    ASSUME FilesInv, NEW r \in Jobs, req' \in [Jobs -> Files!Request], Alone(r), Asked(r),
           UNCHANGED <<file, temp, before, crossed, torn>>, dir \subseteq dir', dir' \subseteq Paths,
           Files!Under(r), req'[r].pc # "idle",
           \/ req'[r].body = req[r].body
           \/ req[r].body = <<>> /\ req[r].op # "append",
           Has(r)', Places(r)', Files!Writer(r)' /\ r \notin crossed => Stand(r)',
           Files!Under(r)' /\ req[r].op \in Files!Reading => ReaderIs(r)'
    PROVE  FilesInv'
<1>1. Files!TypeOK'
  BY DEF FilesInv, Files!TypeOK
<1>2. \A x \in Jobs : Has(x)'
  <2> SUFFICES ASSUME NEW x \in Jobs, x # r PROVE Has(x)'
    OBVIOUS
  <2> QED BY OfOne DEF Alone, Has
<1>3. Others(r) /\ Changes(r)
  BY DEF Alone, Others, Changes
<1> QED BY <1>1, <1>2, <1>3, OneMoves

\* A request that is answered is out of the way.
LEMMA EndIs ==
    ASSUME FilesInv, NEW r \in Jobs, Asked(r), req'[r].pc \in Ends
    PROVE  Places(r)' /\ Has(r)' /\ ~Files!Under(r)' /\ ~Files!Writer(r)' /\ req'[r].pc # "idle"
  BY OfOne DEF Asked, Places, Has, Files!Under, Files!Writer, Ends

LEMMA QuietEnd ==
    ASSUME FilesInv, NEW r \in Jobs, req' \in [Jobs -> Files!Request], Alone(r), Asked(r),
           UNCHANGED <<file, temp, before, crossed, torn>>, dir \subseteq dir', dir' \subseteq Paths,
           Files!Under(r), req'[r].pc \in Ends, req'[r].body = req[r].body
    PROVE  FilesInv'
  BY EndIs, QuietMove

\* A reader that goes on with what it has.
LEMMA ReaderStays ==
    ASSUME FilesInv, NEW r \in Jobs, Alone(r), Asked(r), UNCHANGED <<before, file, crossed, torn>>,
           Files!Under(r), req[r].op \in Files!Reading, req'[r].body = req[r].body,
           \/ req'[r].got = req[r].got
           \/ /\ file[req[r].path] # None
              /\ r \notin torn => Begins(req'[r].got, file[req[r].path])
              /\ \A i \in DOMAIN req'[r].got :
                    \/ i \in DOMAIN req[r].got /\ req'[r].got[i] = req[r].got[i]
                    \/ i \in DOMAIN file[req[r].path] /\ req'[r].got[i] = file[req[r].path][i]
    PROVE  ReaderIs(r)'
<1>1. ReaderIs(r) /\ req'[r].path = req[r].path
  BY OfOne DEF Asked
<1>2. Others(r)
  BY DEF Others, Alone
<1>3. \A i, u : Files!Meant(r, i, u) => Files!Meant(r, i, u)'
  BY <1>1, <1>2, MeantStays
<1>4. r \notin torn => Begins(req'[r].got, file[req[r].path])
  BY <1>1 DEF ReaderIs
<1>5. ASSUME r \notin crossed
      PROVE  /\ file[req[r].path] # None => FromWhere(r, file[req[r].path])'
             /\ FromWhere(r, req[r].got)'
  <2>1. /\ file[req[r].path] # None =>
              \A i \in DOMAIN file[req[r].path] : Files!Meant(r, i, file[req[r].path][i])
        /\ \A i \in DOMAIN req[r].got : Files!Meant(r, i, req[r].got[i])
    BY <1>1, <1>5 DEF ReaderIs, FromWhere
  <2>2. \A i \in DOMAIN req'[r].got : Files!Meant(r, i, req'[r].got[i])
    BY <2>1
  <2> QED BY <1>1, <1>3, <2>1, <2>2 DEF FromWhere
<1> QED BY <1>1, <1>4, <1>5 DEF ReaderIs

LEMMA CheckKeeps == ASSUME FilesInv, NEW r \in Jobs, Files!Check(r) PROVE FilesInv'
<1> DEFINE text == file[req[r].path]
           c == IF text = None /\ ~req[r].sudo THEN "missing" ELSE "read"
           m == IF text = None THEN 0 ELSE Len(text)
           new == [req[r] EXCEPT !.pc = c, !.n = m]
<1>1. /\ req[r].pc = "check" /\ UNCHANGED <<file, dir, temp, before, crossed, torn>>
      /\ req' = [req EXCEPT ![r].pc = c, ![r].n = m]
  BY DEF Files!Check
<1>2. /\ c \in {"missing", "read"} /\ m \in Nat /\ dir \subseteq Paths
      /\ Files!TypeOK /\ Places(r) /\ Files!Under(r)
  BY <1>1, OfOne, FileConstants DEF Files!TypeOK, Files!Under
<1> HIDE DEF c, m
<1>3. /\ new \in Files!Request /\ new.pc = c /\ new.got = req[r].got /\ new.body = req[r].body
      /\ new.at = req[r].at /\ new.src = req[r].src /\ new.op = req[r].op /\ new.path = req[r].path
      /\ new.text = req[r].text /\ new.sudo = req[r].sudo /\ new.range = req[r].range
      /\ req' = [req EXCEPT ![r] = new]
  BY ZenonT(60), <1>1, <1>2, OfOne DEF Files!Request, Files!TypeOK
<1> HIDE DEF new
<1>4. /\ req' \in [Jobs -> Files!Request] /\ Alone(r) /\ Asked(r) /\ req'[r] = new
      /\ req'[r].body = req[r].body
  BY <1>2, <1>3, GoesWith DEF Asked
<1>5. CASE c = "missing"
  BY <1>1, <1>2, <1>3, <1>4, <1>5, QuietEnd DEF Ends
<1>6. CASE c = "read"
  <2>1. Places(r)' /\ Has(r)'
    BY <1>1, <1>2, <1>3, <1>4, <1>6 DEF Places, Has
  <2>2. Files!Writer(r)' /\ r \notin crossed => Stand(r)'
    BY <1>1, <1>2, <1>3, <1>4, <1>6, OfOne DEF Stand, Places, Begins, Files!Writer
  <2>3. req[r].op \in Files!Reading => ReaderIs(r)'
    BY <1>1, <1>2, <1>3, <1>4, ReaderStays
  <2> QED BY <1>1, <1>2, <1>3, <1>4, <1>6, <2>1, <2>2, <2>3, QuietMove
<1> QED BY <1>2, <1>5, <1>6

LEMMA ReadFailsKeeps == ASSUME FilesInv, NEW r \in Jobs, Files!ReadFails(r) PROVE FilesInv'
<1>1. Files!Go(r, "failed") /\ UNCHANGED <<file, dir, temp, before, crossed, torn>> /\ Files!Under(r)
  BY DEF Files!ReadFails, Files!Under
<1>2. Files!TypeOK /\ dir \subseteq Paths /\ "failed" \in Pcs
  BY OfOne DEF Files!TypeOK, Pcs
<1> QED BY <1>1, <1>2, Goes, QuietEnd DEF Ends, Steady

LEMMA OpenFailsKeeps == ASSUME FilesInv, NEW r \in Jobs, Files!OpenFails(r) PROVE FilesInv'
<1>1. /\ Files!Go(r, "failed") /\ UNCHANGED <<file, temp, before, crossed, torn>> /\ Files!Under(r)
      /\ dir' \in {dir, dir \cup {req[r].path}}
  BY DEF Files!OpenFails, Files!Under
<1>2. Files!TypeOK /\ dir \subseteq dir' /\ dir' \subseteq Paths /\ "failed" \in Pcs
  BY <1>1, OfOne DEF Files!TypeOK, Pcs
<1> QED BY <1>1, <1>2, Goes, QuietEnd DEF Ends, Steady

LEMMA PutFailsKeeps == ASSUME FilesInv, NEW r \in Jobs, Files!PutFails(r) PROVE FilesInv'
<1>1. Files!Go(r, "failed") /\ UNCHANGED <<file, dir, temp, before, crossed, torn>> /\ Files!Under(r)
  BY DEF Files!PutFails, Files!Under
<1>2. Files!TypeOK /\ dir \subseteq Paths /\ "failed" \in Pcs
  BY OfOne DEF Files!TypeOK, Pcs
<1> QED BY <1>1, <1>2, Goes, QuietEnd DEF Ends, Steady

LEMMA FindKeeps == ASSUME FilesInv, NEW r \in Jobs, Files!FindByName(r) PROVE FilesInv'
<1> DEFINE c == IF dir = {} THEN "missing" ELSE "done"
           m == Files!Cardinality({p \in Paths : file[p] # None})
           new == [req[r] EXCEPT !.pc = c, !.n = m]
<1>1. /\ req[r].pc = "glob" /\ UNCHANGED <<file, dir, temp, before, crossed, torn>>
      /\ req' = [req EXCEPT ![r].pc = c, ![r].n = m]
  BY DEF Files!FindByName
<1>2. m \in Nat
  <2>1. {p \in Paths : file[p] # None} \subseteq Paths
    OBVIOUS
  <2> QED BY <2>1, FilesCount, FileConstants, FS_Subset, FS_CardinalityType
<1>3. c \in {"missing", "done"} /\ Files!TypeOK /\ dir \subseteq Paths /\ Files!Under(r)
  BY <1>1, OfOne DEF Files!TypeOK, Files!Under
<1> HIDE DEF c, m
<1>4. /\ new \in Files!Request /\ new.pc = c /\ new.body = req[r].body
      /\ new.op = req[r].op /\ new.path = req[r].path
      /\ new.text = req[r].text /\ new.sudo = req[r].sudo /\ new.range = req[r].range
      /\ req' = [req EXCEPT ![r] = new]
  BY ZenonT(60), <1>1, <1>2, <1>3, OfOne DEF Files!Request, Files!TypeOK
<1> HIDE DEF new
<1>5. /\ req' \in [Jobs -> Files!Request] /\ Alone(r) /\ Asked(r) /\ req'[r] = new
  BY <1>3, <1>4, GoesWith DEF Asked
<1> QED BY <1>1, <1>3, <1>4, <1>5, QuietEnd DEF Ends

LEMMA AcceptKeeps ==
    ASSUME FilesInv, NEW r \in Jobs, NEW op \in Ops, NEW p \in Paths, NEW sudo \in SudoUse,
           NEW text \in Texts, NEW range \in Ranges \cup {Files!AllLines},
           range = Files!AllLines \/ op = "read", Files!Accept(r, op, p, sudo, text, range)
    PROVE  FilesInv'
<1> DEFINE c == CASE op \in {"replace", "read", "search", "download"} -> "check"
                  [] op = "find" -> "glob"
                  [] op \in {"write", "append"} /\ sudo -> "temp"
                  [] OTHER -> "open"
           b == IF op \in {"write", "append", "upload"} THEN text ELSE <<>>
           new == [Files!NoRequest EXCEPT !.op = op, !.path = p, !.sudo = sudo, !.range = range,
                                          !.text = text, !.body = b, !.pc = c]
           rivals == Files!Rivals(op, p, sudo)
<1>1. /\ req[r].pc = "idle" /\ UNCHANGED <<file, dir, temp, torn>>
      /\ req' = [req EXCEPT ![r] = new] /\ before' = [before EXCEPT ![r] = file[p]]
      /\ crossed' = IF rivals = {} THEN crossed
                    ELSE crossed \cup {r} \cup {q \in Jobs :
                           Files!Under(q) /\ req[q].path \in {p} \cup {req[w].path : w \in rivals}}
      /\ sudo => op \in {"read", "search", "write", "append", "replace"}
  BY DEF Files!Accept
<1>2. /\ op \in Files!Writing \cup Files!Reading \cup {"find"} /\ sudo \in BOOLEAN
      /\ text \in Files!Text /\ <<>> \in Files!Text /\ <<>> \in Texts /\ b \in Files!Text
  BY FileConstants
<1>3. /\ c \in {"check", "glob", "temp", "open"}
      /\ op = "replace" => c = "check"
      /\ c = "check" => op \in Files!Reading \cup {"replace"} /\ b = <<>>
      /\ c = "glob" <=> op = "find"
      /\ c = "temp" => op \in {"write", "append"} /\ sudo
      /\ c = "open" => op \in Files!Writing /\ op # "replace"
      /\ op \in Files!Writing /\ op # "replace" => b = text
      /\ op = "replace" => range = Files!AllLines
  BY <1>2 DEF Files!Writing, Files!Reading
<1> HIDE DEF c, b
<1>4. /\ new \in Files!Request /\ new.op = op /\ new.path = p /\ new.text = text
      /\ new.sudo = sudo /\ new.range = range /\ new.got = <<>> /\ new.src = None
      /\ new.body = b /\ new.pc = c /\ new.at = 0
  <2>1. /\ Files!NoRequest \in Files!Request /\ Files!NoRequest.at = 0
        /\ Files!NoRequest.got = <<>> /\ Files!NoRequest.src = None
    <3>1. (CHOOSE x \in Paths : TRUE) \in Paths
      BY FileConstants
    <3> QED BY <1>2, <3>1 DEF Files!NoRequest, Files!Request
  <2> QED BY <1>2, <1>3, <2>1 DEF Files!Request
<1> HIDE DEF new
<1>5. /\ Files!TypeOK /\ before \in [Jobs -> {None} \cup Files!Text] /\ crossed \subseteq Jobs
      /\ file \in [Paths -> {None} \cup Files!Text]
  BY OfOne DEF Files!TypeOK
<1>6. /\ req' \in [Jobs -> Files!Request] /\ req'[r] = new /\ before'[r] = file[p]
      /\ before' \in [Jobs -> {None} \cup Files!Text]
      /\ \A q \in Jobs : q # r => req'[q] = req[q] /\ before'[q] = before[q]
  BY <1>1, <1>4, <1>5, GoesWith DEF Alone
<1>7. Files!TypeOK'
  BY <1>1, <1>5, <1>6 DEF Files!TypeOK
<1>8. Files!Under(r)' /\ ~Files!Under(r) /\ (Files!Writer(r)' <=> op \in Files!Writing)
  BY <1>1, <1>3, <1>4, <1>6 DEF Files!Under, Files!Writer
<1>9. \A q \in Jobs : q # r => (Files!Under(q)' <=> Files!Under(q)) /\ (Files!Writer(q)' <=> Files!Writer(q))
  BY <1>6 DEF Files!Under, Files!Writer
<1>10. rivals = {w \in Jobs : /\ Files!Writer(w)
                              /\ IF op \in Files!Writing THEN req[w].path = p \/ (sudo /\ req[w].sudo)
                                                        ELSE req[w].path = p /\ w \in crossed}
  BY DEF Files!Rivals
<1> HIDE DEF rivals
<1>11. crossed \subseteq crossed' /\ r \notin crossed /\ (r \in crossed' <=> rivals # {})
  BY <1>1, <1>8, OfOne DEF Places
<1>12. \A q \in Jobs : q \in crossed' =>
          \/ q \in crossed \/ q = r
          \/ rivals # {} /\ Files!Under(q) /\ req[q].path \in {p} \cup {req[w].path : w \in rivals}
  BY <1>1
<1>13. ASSUME NEW q \in Jobs, rivals # {}, Files!Under(q),
              req[q].path = p \/ \E w \in rivals : req[q].path = req[w].path
       PROVE  q \in crossed'
  BY <1>1, <1>13
<1>14. Crossings'
  <2>0. Crossings
    BY OfOne
  <2>1. ASSUME NEW q \in Jobs, NEW w \in Jobs, Files!Writer(q)', Files!Writer(w)', q # w,
               req'[q].path = req'[w].path \/ (req'[q].sudo /\ req'[w].sudo)
        PROVE  q \in crossed'
    <3>1. CASE q # r /\ w # r
      BY <1>6, <1>9, <1>11, <2>0, <2>1, <3>1 DEF Crossings
    <3>2. CASE q = r
      <4>1. w \in rivals
        BY <1>4, <1>6, <1>8, <1>9, <1>10, <2>1, <3>2
      <4> QED BY <1>11, <3>2, <4>1
    <3>3. CASE w = r
      <4>1. q \in rivals /\ Files!Under(q)
        BY <1>4, <1>6, <1>8, <1>9, <1>10, <2>1, <3>3 DEF Files!Writer
      <4> QED BY <1>13, <4>1
    <3> QED BY <3>1, <3>2, <3>3
  <2>2. ASSUME NEW q \in Jobs, NEW w \in Jobs, Files!Under(q)', Files!Writer(w)', w \in crossed',
               req'[q].path = req'[w].path
        PROVE  q \in crossed'
    <3>1. CASE w = r /\ q # r
      BY <1>4, <1>6, <1>9, <1>11, <1>13, <2>2, <3>1
    <3>2. CASE w # r /\ q # r
      <4>1. req[q].path = req[w].path /\ Files!Under(q) /\ Files!Writer(w)
        BY <1>6, <1>9, <2>2, <3>2
      <4>2. CASE w \in crossed
        BY <1>11, <2>0, <4>1, <4>2 DEF Crossings
      <4>3. CASE w \notin crossed
        BY <1>12, <1>13, <2>2, <3>2, <4>1, <4>3
      <4> QED BY <4>2, <4>3
    <3>3. CASE w # r /\ q = r
      <4>1. Files!Writer(w) /\ req[w].path = p
        BY <1>4, <1>6, <1>9, <2>2, <3>3
      <4>2. CASE w \in crossed \/ op \in Files!Writing
        BY <1>10, <1>11, <3>3, <4>1, <4>2
      <4>3. CASE w \notin crossed
        BY <1>11, <1>12, <2>2, <3>3, <4>3
      <4> QED BY <4>2, <4>3
    <3> QED BY <2>2, <3>1, <3>2, <3>3
  <2> QED BY <2>1, <2>2 DEF Crossings
<1>15. ASSUME NEW x \in Jobs, x # r PROVE RequestIs(x)'
  <2>1. req'[x] = req[x] /\ before'[x] = before[x] /\ (x \notin crossed' => x \notin crossed)
    BY <1>6, <1>11, <1>15
  <2>2. Places(x)' /\ Has(x)'
    <3>1. x \in crossed' => x \in crossed \/ Files!Under(x)
      BY <1>12, <1>15
    <3> QED BY <1>1, <2>1, <3>1, OfOne DEF Places, Has, Files!Under
  <2>3. Files!Writer(x)' /\ x \notin crossed' => Stand(x)'
    BY SMTT(40), <1>1, <1>9, <1>15, <2>1, OfOne DEF Stand, BodyIs, Grown, Base, Files!OldText
  <2>4. \A i, u : Files!Meant(x, i, u) => Files!Meant(x, i, u)'
    <3> SUFFICES ASSUME NEW i, NEW u, Files!Meant(x, i, u) PROVE Files!Meant(x, i, u)'
      OBVIOUS
    <3>1. CASE i \in DOMAIN Files!OldText(x) /\ Files!OldText(x)[i] = u
      BY <2>1, <3>1 DEF Files!Meant, Files!OldText
    <3>2. ASSUME NEW w \in Jobs, req[w].op \in Files!Writing, req[w].path = req[x].path,
                 i \in DOMAIN Files!Aim(w), Files!Aim(w)[i] = u
          PROVE  Files!Meant(x, i, u)'
      <4>1. w # r
        BY <1>1, <3>2, OfOne DEF Places, Files!Writing
      <4>2. req'[w] = req[w] /\ before'[w] = before[w]
        BY <1>6, <4>1
      <4>3. Files!Aim(w)' = Files!Aim(w)
        BY <4>2 DEF Files!Aim, Files!OldText
      <4> QED BY <2>1, <3>2, <4>2, <4>3 DEF Files!Meant
    <3> QED BY <3>1, <3>2 DEF Files!Meant
  <2>5. Files!Under(x)' /\ req'[x].op \in Files!Reading => ReaderIs(x)'
    BY <1>1, <1>9, <1>15, <2>1, <2>4, OfOne DEF ReaderIs, FromWhere
  <2> QED BY <2>2, <2>3, <2>5 DEF RequestIs
<1>16. RequestIs(r)'
  <2>1. Places(r)' /\ Has(r)'
    BY <1>3, <1>4, <1>6 DEF Places, Has, Files!Writing
  <2>2. Files!Writer(r)' => Stand(r)'
    BY <1>1, <1>3, <1>4, <1>6, <1>8 DEF Stand, BodyIs
  <2>3. ReaderIs(r)'
    <3>1. file[p] # None => Files!OldText(r)' = file[p]
      BY <1>6 DEF Files!OldText
    <3> QED BY <1>1, <1>4, <1>6, <3>1 DEF ReaderIs, Begins, FromWhere, Files!Meant
  <2> QED BY <2>1, <2>2, <2>3 DEF RequestIs
<1> QED BY <1>7, <1>14, <1>15, <1>16 DEF FilesInv

LEMMA PieceKeeps == ASSUME FilesInv, NEW r \in Jobs, Files!Piece(r) PROVE FilesInv'
<1> DEFINE text == file[req[r].path]
           g == Append(req[r].got, text[Len(req[r].got) + 1])
           new == [req[r] EXCEPT !.got = g]
<1>1. /\ req[r].pc = "read" /\ text # None /\ Len(req[r].got) < Len(text)
      /\ req' = [req EXCEPT ![r].got = g]
      /\ UNCHANGED <<file, dir, temp, before, crossed, torn>>
  BY OfOne DEF Files!Piece
<1>2. /\ text \in Seq(Alphabet) /\ req[r].got \in Seq(Alphabet) /\ dir \subseteq Paths
      /\ Len(text) \in Nat /\ Len(req[r].got) \in Nat
      /\ Files!TypeOK /\ Places(r) /\ Files!Under(r)
  BY <1>1, OfOne, FileConstants DEF Files!TypeOK, Files!Under
<1>3. /\ g \in Files!Text /\ Len(g) = Len(req[r].got) + 1 /\ Len(g) <= Len(text)
      /\ \A i \in 1 .. Len(req[r].got) : g[i] = req[r].got[i]
      /\ g[Len(g)] = text[Len(g)]
  BY SMTT(40), <1>1, <1>2, FileConstants
<1> HIDE DEF g
<1>4. /\ new \in Files!Request /\ new.pc = "read" /\ new.got = g /\ new.body = req[r].body
      /\ new.at = req[r].at /\ new.src = req[r].src /\ new.op = req[r].op /\ new.path = req[r].path
      /\ new.text = req[r].text /\ new.sudo = req[r].sudo /\ new.range = req[r].range
      /\ req' = [req EXCEPT ![r] = new]
  BY ZenonT(60), <1>1, <1>3, OfOne DEF Files!Request, Files!TypeOK
<1> HIDE DEF new
<1>5. /\ req' \in [Jobs -> Files!Request] /\ Alone(r) /\ Asked(r) /\ req'[r] = new
      /\ req'[r].body = req[r].body /\ req'[r].got = g
  BY <1>2, <1>4, GoesWith DEF Asked
<1>6. Begins(req[r].got, text) => Begins(g, text)
  <2> SUFFICES ASSUME Begins(req[r].got, text) PROVE \A i \in 1 .. Len(g) : g[i] = text[i]
    BY <1>1, <1>3 DEF Begins
  <2>1. \A i \in 1 .. Len(req[r].got) : req[r].got[i] = text[i]
    BY <1>2 DEF Begins
  <2> QED BY SMTT(40), <1>2, <1>3, <2>1
<1>7. Places(r)' /\ Has(r)'
  BY <1>1, <1>2, <1>4, <1>5 DEF Places, Has
<1>8. Files!Writer(r)' /\ r \notin crossed => Stand(r)'
  BY <1>1, <1>2, <1>4, <1>5, <1>6, OfOne DEF Stand, Files!Writer
<1>9. req[r].op \in Files!Reading => ReaderIs(r)'
  <2>1. \A i \in DOMAIN g : \/ i \in DOMAIN req[r].got /\ g[i] = req[r].got[i]
                            \/ i \in DOMAIN text /\ g[i] = text[i]
    <3>1. DOMAIN g = 1 .. Len(g)
      BY <1>3, FileConstants
    <3>2. DOMAIN text = 1 .. Len(text) /\ DOMAIN req[r].got = 1 .. Len(req[r].got)
      BY <1>2
    <3> SUFFICES ASSUME NEW i \in 1 .. Len(g)
                 PROVE  \/ i \in DOMAIN req[r].got /\ g[i] = req[r].got[i]
                        \/ i \in DOMAIN text /\ g[i] = text[i]
      BY <3>1
    <3>3. CASE i = Len(g)
      BY <1>2, <1>3, <3>2, <3>3
    <3>4. CASE i # Len(g)
      <4>1. i \in 1 .. Len(req[r].got)
        BY <1>2, <1>3, <3>4
      <4> QED BY <1>3, <3>2, <4>1
    <3> QED BY <3>3, <3>4
  <2>2. req[r].op \in Files!Reading => (r \notin torn => Begins(g, text))
    BY <1>2, <1>6, OfOne DEF ReaderIs
  <2> QED BY <1>1, <1>2, <1>5, <2>1, <2>2, ReaderStays
<1> QED BY <1>1, <1>2, <1>4, <1>5, <1>7, <1>8, <1>9, QuietMove

\* All of a text has been read.
LEMMA AllRead ==
    ASSUME NEW g \in Files!Text, NEW t \in Files!Text, Begins(g, t), Len(g) >= Len(t)
    PROVE  g = t
<1>1. g \in Seq(Alphabet) /\ t \in Seq(Alphabet) /\ Len(g) \in Nat /\ Len(t) \in Nat
  BY FileConstants
<1>2. CASE g = <<>>
  BY <1>1, <1>2, EmptySeq
<1>3. CASE g # <<>>
  <2>1. Len(g) = Len(t) /\ \A i \in 1 .. Len(g) : g[i] = t[i]
    BY <1>1, <1>3 DEF Begins
  <2> QED BY <1>1, <2>1, SeqEqual
<1> QED BY <1>2, <1>3

\* What a replacement in nobody's way has read is its file's old text.
LEMMA ReplaceReads ==
    ASSUME FilesInv, NEW r \in Jobs, req[r].pc = "read", req[r].op = "replace", r \notin crossed,
           file[req[r].path] # None, Files!AtEnd(r)
    PROVE  /\ before[r] = file[req[r].path] /\ req[r].got = before[r]
           /\ Files!Answer(req[r], req[r].got) = Files!Shorten(Files!Plain(before[r], req[r].sudo))
<1>1. Files!Writer(r)
  BY DEF Files!Writer, Files!Under, Files!Writing
<1>2. Begins(req[r].got, file[req[r].path]) /\ before[r] = file[req[r].path]
  BY <1>1, OfOne DEF Stand
<1>3. req[r].got = file[req[r].path]
  BY <1>2, OfOne, AllRead DEF Files!AtEnd
<1>4. req[r].range = Files!AllLines
  BY OfOne DEF Places
<1> QED BY <1>2, <1>3, <1>4 DEF Files!Answer

LEMMA EndOfFileKeeps == ASSUME FilesInv, NEW r \in Jobs, Files!EndOfFile(r) PROVE FilesInv'
<1> DEFINE answer == Files!Answer(req[r], req[r].got)
           n == Files!Count(answer)
<1>1. /\ req[r].pc = "read" /\ file[req[r].path] # None /\ Files!AtEnd(r)
      /\ UNCHANGED <<file, dir, temp, before, crossed, torn>>
  BY DEF Files!EndOfFile
<1>2. /\ Files!TypeOK /\ Places(r) /\ Files!Under(r) /\ dir \subseteq Paths
      /\ answer \in Files!Text /\ n \in Nat
  BY <1>1, OfOne, AnswerText, CountIsNumber DEF Files!TypeOK, Files!Under
<1>3. CASE req[r].op = "replace" /\ n > 0
  <2> DEFINE b == Files!Replaced(answer, req[r].text)
             c == IF req[r].sudo THEN "temp" ELSE "open"
             new == [req[r] EXCEPT !.body = b, !.n = n, !.pc = c]
  <2>1. req' = [req EXCEPT ![r].body = b, ![r].n = n, ![r].pc = c]
    BY <1>3 DEF Files!EndOfFile
  <2>2. b \in Files!Text /\ c \in {"temp", "open"} /\ (c = "temp" => req[r].sudo)
    BY <1>2, ReplacedText, OfOne
  <2>3. r \notin crossed =>
          /\ before[r] # None /\ before[r] = file[req[r].path]
          /\ answer = Files!Shorten(Files!Plain(before[r], req[r].sudo))
    BY <1>1, <1>3, ReplaceReads
  <2> DEFINE m == n
  <2> HIDE DEF c
  <2>4. /\ new \in Files!Request /\ new.pc = c /\ new.got = req[r].got /\ new.body = b
        /\ new.at = req[r].at /\ new.src = req[r].src /\ new.op = req[r].op /\ new.path = req[r].path
        /\ new.text = req[r].text /\ new.sudo = req[r].sudo /\ new.range = req[r].range
        /\ req' = [req EXCEPT ![r] = new]
    <3> HIDE DEF b, n
    <3> QED BY ZenonT(60), <1>2, <2>1, <2>2, OfOne DEF Files!Request, Files!TypeOK
  <2> HIDE DEF new
  <2>5. req' \in [Jobs -> Files!Request] /\ Alone(r) /\ Asked(r) /\ req'[r] = new
    BY <1>2, <2>4, GoesWith DEF Asked
  <2>6. Places(r)' /\ Has(r)'
    BY <1>1, <1>2, <1>3, <2>2, <2>4, <2>5 DEF Places, Has, Files!Writing
  <2>7. r \notin crossed => Stand(r)'
    <3> SUFFICES ASSUME r \notin crossed PROVE Stand(r)'
      OBVIOUS
    <3>1. BodyIs(r)'
      BY <1>1, <1>3, <2>3, <2>4, <2>5 DEF BodyIs
    <3>2. file'[req'[r].path] = before'[r]
      BY <1>1, <2>3, <2>4, <2>5
    <3> QED BY <2>2, <2>4, <2>5, <3>1, <3>2 DEF Stand
  <2>8. ~(req[r].op \in Files!Reading) /\ req[r].body = <<>> /\ req[r].op # "append"
    BY <1>1, <1>2, <1>3 DEF Files!Reading, Places
  <2>9. req'[r].pc # "idle"
    BY <2>2, <2>4, <2>5
  <2> QED BY <1>1, <1>2, <2>5, <2>6, <2>7, <2>8, <2>9, QuietMove
<1>4. CASE ~(req[r].op = "replace" /\ n > 0)
  <2>1. /\ req' \in [Jobs -> Files!Request] /\ Alone(r) /\ Asked(r)
        /\ req'[r].pc \in Ends /\ req'[r].body = req[r].body
    <3>1. CASE Files!Go(r, "failed")
      <4>1. "failed" \in Pcs /\ "failed" \in Ends
        BY DEF Pcs, Ends
      <4> QED BY <1>2, <3>1, <4>1, Goes DEF Steady
    <3>2. CASE req' = [req EXCEPT ![r].got = answer, ![r].n = n, ![r].pc = "done"]
      <4> DEFINE new == [req[r] EXCEPT !.got = answer, !.n = n, !.pc = "done"]
      <4>1. /\ new \in Files!Request /\ new.pc = "done" /\ new.body = req[r].body
            /\ new.op = req[r].op /\ new.path = req[r].path
            /\ new.text = req[r].text /\ new.sudo = req[r].sudo /\ new.range = req[r].range
            /\ req' = [req EXCEPT ![r] = new]
        <5> HIDE DEF answer, n
        <5> QED BY ZenonT(60), <1>2, <3>2, OfOne DEF Files!Request, Files!TypeOK
      <4> HIDE DEF new
      <4> QED BY <1>2, <4>1, GoesWith DEF Asked, Ends
    <3> QED BY <1>4, <3>1, <3>2 DEF Files!EndOfFile
  <2> QED BY <1>1, <1>2, <2>1, QuietEnd
<1> QED BY <1>3, <1>4

LEMMA TempKeeps == ASSUME FilesInv, NEW r \in Jobs, Files!Temp(r) PROVE FilesInv'
<1>1. /\ req[r].pc = "temp" /\ temp' = req[r].body /\ Files!Go(r, "cat")
      /\ UNCHANGED <<file, dir, before, crossed, torn>>
  BY DEF Files!Temp
<1>2. /\ Files!TypeOK /\ Places(r) /\ Files!Under(r) /\ Files!Writer(r) /\ "cat" \in Pcs
      /\ req[r].sudo /\ req[r].op \in Files!Writing /\ temp' \in Files!Text
  BY <1>1, OfOne DEF Files!TypeOK, Files!Under, Files!Writer, Pcs, Places
<1>3. /\ req' \in [Jobs -> Files!Request] /\ Alone(r) /\ Asked(r) /\ Steady(r)
      /\ req'[r].pc = "cat" /\ req'[r].got = req[r].got
  BY <1>1, <1>2, Goes
<1>4. Files!TypeOK'
  BY <1>1, <1>2, <1>3 DEF Files!TypeOK
<1>5. \A x \in Jobs : Has(x)'
  <2> SUFFICES ASSUME NEW x \in Jobs PROVE Has(x)'
    OBVIOUS
  <2>1. temp' # None
    BY <1>2, FileConstants
  <2> QED BY <1>1, <1>3, <2>1, OfOne DEF Alone, Has
<1>6. Places(r)'
  BY <1>1, <1>2, <1>3 DEF Places, Asked, Steady
<1>7. r \notin crossed => Stand(r)'
  <2> SUFFICES ASSUME r \notin crossed PROVE Stand(r)'
    OBVIOUS
  <2>1. Stand(r) /\ req[r].src = None
    BY <1>1, <1>2, OfOne DEF Places
  <2>2. BodyIs(r)'
    BY <1>1, <1>3, <2>1 DEF Stand, BodyIs, Asked, Steady
  <2>3. file[req[r].path]' = before[r]'
    BY <1>1, <1>3, <2>1 DEF Stand, Asked
  <2> QED BY <1>1, <1>3, <2>1, <2>2, <2>3 DEF Stand, Steady
<1>8. Others(r) /\ Changes(r) /\ ~(req[r].op \in Files!Reading)
  BY <1>1, <1>2, <1>3 DEF Alone, Others, Changes, Files!Writing, Files!Reading
<1> QED BY <1>1, <1>2, <1>3, <1>4, <1>5, <1>6, <1>7, <1>8, OneMoves DEF Steady

LEMMA TempFailsKeeps == ASSUME FilesInv, NEW r \in Jobs, Files!TempFails(r) PROVE FilesInv'
<1>1. /\ req[r].pc = "temp" /\ Files!Go(r, "failed")
      /\ temp' \in {temp} \cup {SubSeq(req[r].body, 1, k) : k \in 0 .. Len(req[r].body)}
      /\ UNCHANGED <<file, dir, before, crossed, torn>>
  BY DEF Files!TempFails
<1>2. /\ Files!TypeOK /\ Places(r) /\ Files!Under(r) /\ Files!Writer(r)
      /\ req[r].sudo /\ req[r].op \in Files!Writing
  BY <1>1, OfOne DEF Files!TypeOK, Files!Under, Files!Writer, Places
<1>3. temp' = temp \/ temp' \in Files!Text
  <2> SUFFICES ASSUME NEW k \in 0 .. Len(req[r].body) PROVE SubSeq(req[r].body, 1, k) \in Seq(Alphabet)
    BY <1>1, FileConstants
  <2>1. req[r].body \in Seq(Alphabet)
    BY OfOne, FileConstants
  <2> QED BY <2>1
<1>4. "failed" \in Pcs /\ "failed" \in Ends
  BY DEF Pcs, Ends
<1>5. /\ req' \in [Jobs -> Files!Request] /\ Alone(r) /\ Asked(r) /\ Steady(r) /\ req'[r].pc = "failed"
  BY <1>1, <1>2, <1>4, Goes
<1>6. Files!TypeOK'
  BY <1>1, <1>2, <1>3, <1>5 DEF Files!TypeOK
<1>7. \A x \in Jobs : Has(x)'
  <2> SUFFICES ASSUME NEW x \in Jobs PROVE Has(x)'
    OBVIOUS
  <2>1. temp # None => temp' # None
    BY <1>3, FileConstants
  <2> QED BY <1>1, <1>5, <2>1, OfOne DEF Alone, Has
<1>8. Others(r) /\ Changes(r)
  BY <1>1, <1>5 DEF Alone, Others, Changes
<1>9. Places(r)' /\ ~Files!Under(r)' /\ ~Files!Writer(r)' /\ req'[r].pc # "idle"
  BY <1>4, <1>5, EndIs
<1> QED BY <1>1, <1>2, <1>5, <1>6, <1>7, <1>8, <1>9, OneMoves DEF Steady

\* What a writer means to write, up to where it is.
LEMMA GrownAim ==
    ASSUME NEW base \in Files!Text, NEW body \in Files!Text, NEW text \in Files!Text, NEW at \in Nat,
           at <= Len(body), Len(text) = Len(base) + at,
           \A i \in 1 .. Len(base) : text[i] = base[i],
           \A i \in 1 .. at : text[Len(base) + i] = body[i]
    PROVE  /\ base \o body \in Files!Text
           /\ \A i \in DOMAIN text : i \in DOMAIN (base \o body) /\ (base \o body)[i] = text[i]
           /\ Files!IsPrefix(text, base \o body) /\ Files!IsPrefix(base, text)
           /\ at = Len(body) => text = base \o body
<1>1. /\ base \in Seq(Alphabet) /\ body \in Seq(Alphabet) /\ text \in Seq(Alphabet)
      /\ Len(base) \in Nat /\ Len(body) \in Nat /\ Len(text) \in Nat /\ DOMAIN text = 1 .. Len(text)
  BY FileConstants
<1> DEFINE all == base \o body
<1>2. /\ all \in Seq(Alphabet) /\ Len(all) = Len(base) + Len(body) /\ DOMAIN all = 1 .. Len(all)
      /\ \A i \in 1 .. Len(all) : all[i] = IF i <= Len(base) THEN base[i] ELSE body[i - Len(base)]
  BY <1>1, ConcatProperties
<1> HIDE DEF all
<1>3. ASSUME NEW i \in 1 .. Len(text) PROVE i \in 1 .. Len(all) /\ all[i] = text[i]
  <2>1. CASE i <= Len(base)
    BY <1>1, <1>2, <2>1
  <2>2. CASE ~(i <= Len(base))
    <3>1. i - Len(base) \in 1 .. at /\ i \in 1 .. Len(all)
      BY <1>1, <1>2, <2>2
    <3>2. text[Len(base) + (i - Len(base))] = body[i - Len(base)]
      BY <3>1
    <3> QED BY <1>1, <1>2, <2>2, <3>1, <3>2
  <2> QED BY <2>1, <2>2
<1>4. Files!IsPrefix(text, all)
  <2>1. all \in Files!Text /\ Len(text) <= Len(all)
    BY <1>1, <1>2, FileConstants
  <2>2. \A i \in 1 .. Len(text) : text[i] = all[i]
    BY <1>3
  <2> QED BY <2>1, <2>2, PrefixIs
<1>5. Files!IsPrefix(base, text)
  <2>1. Len(base) <= Len(text) /\ \A i \in 1 .. Len(base) : base[i] = text[i]
    BY <1>1
  <2> QED BY <2>1, PrefixIs
<1>6. at = Len(body) => text = all
  BY <1>1, <1>2, <1>3, SeqEqual
<1>7. all \in Files!Text
  BY <1>2, FileConstants
<1>8. \A i \in DOMAIN text : i \in DOMAIN all /\ all[i] = text[i]
  BY <1>1, <1>2, <1>3
<1> QED BY <1>4, <1>5, <1>6, <1>7, <1>8 DEF all

\* A writer in nobody's way has a beginning of what it means to write.
LEMMA GrownIs ==
    ASSUME FilesInv, NEW r \in Jobs, Grown(r)
    PROVE  LET text == file[req[r].path] IN
           /\ text \in Files!Text /\ Files!Aim(r) \in Files!Text
           /\ \A i \in DOMAIN text : i \in DOMAIN Files!Aim(r) /\ Files!Aim(r)[i] = text[i]
           /\ Files!IsPrefix(text, Files!Aim(r)) /\ Files!IsPrefix(Base(r), text)
           /\ req[r].at = Len(req[r].body) => text = Files!Aim(r)
<1>1. Files!Aim(r) = Base(r) \o req[r].body
  BY DEF Files!Aim, Base
<1> DEFINE text == file[req[r].path]  base == Base(r)  body == req[r].body  at == req[r].at
<1>2. /\ text \in Files!Text /\ base \in Files!Text /\ body \in Files!Text /\ at \in Nat
      /\ at <= Len(body) /\ Len(text) = Len(base) + at
      /\ \A i \in 1 .. Len(base) : text[i] = base[i]
      /\ \A i \in 1 .. at : text[Len(base) + i] = body[i]
  BY OfOne DEF Grown
<1> HIDE DEF text, base, body, at
<1>3. /\ base \o body \in Files!Text
      /\ \A i \in DOMAIN text : i \in DOMAIN (base \o body) /\ (base \o body)[i] = text[i]
      /\ Files!IsPrefix(text, base \o body) /\ Files!IsPrefix(base, text)
      /\ at = Len(body) => text = base \o body
  BY <1>2, GrownAim
<1> QED BY <1>1, <1>2, <1>3 DEF text, base, body, at

\* A writer that changes its file, as it means to if it is in nobody's way.
LEMMA WriteMove ==
    ASSUME FilesInv, NEW r \in Jobs, NEW t \in Files!Text, Files!Becomes(r, t), Files!Writer(r),
           req' \in [Jobs -> Files!Request], Alone(r), Asked(r), req'[r].body = req[r].body,
           UNCHANGED <<temp, before, crossed>>, dir \subseteq dir', dir' \subseteq Paths,
           req[r].path \in dir', req'[r].pc # "idle", Has(r)', Places(r)',
           r \notin crossed => Grown(r)' /\ (Files!Writer(r)' => Stand(r)')
    PROVE  FilesInv'
<1> DEFINE p == req[r].path
<1>1. /\ p \in Paths /\ Files!TypeOK /\ file \in [Paths -> {None} \cup Files!Text]
      /\ file' = [file EXCEPT ![p] = t] /\ file'[p] = t /\ t # None
      /\ req'[r].path = p /\ before' = before
  BY OfOne, FileConstants DEF Files!Becomes, Asked
<1>2. torn' \subseteq Jobs
  <2>1. torn \subseteq Jobs
    BY <1>1 DEF Files!TypeOK
  <2> QED BY <2>1 DEF Files!Becomes
<1>3. Files!TypeOK'
  BY <1>1, <1>2 DEF Files!TypeOK
<1>4. \A x \in Jobs : Has(x)'
  <2> SUFFICES ASSUME NEW x \in Jobs, x # r PROVE Has(x)'
    OBVIOUS
  <2>1. req'[x] = req[x] /\ req[x].path \in Paths /\ Has(x)
    BY OfOne DEF Alone
  <2>2. file[req[x].path] # None => file'[req[x].path] # None
    BY <1>1, <2>1
  <2> QED BY <2>1, <2>2 DEF Has
<1>5. Changes(r)
  <2>1. ASSUME r \notin crossed
        PROVE  \A i \in DOMAIN t : i \in DOMAIN Files!Aim(r)' /\ Files!Aim(r)'[i] = t[i]
    <3> DEFINE base == Base(r)  body == req[r].body  at == req'[r].at
    <3>1. Base(r)' = base /\ Files!Aim(r)' = base \o body
      BY <1>1 DEF Files!Aim, Base, Files!OldText, Asked
    <3>2. /\ base \in Files!Text /\ body \in Files!Text /\ at \in Nat /\ at <= Len(body)
          /\ Len(t) = Len(base) + at
          /\ \A i \in 1 .. Len(base) : t[i] = base[i]
          /\ \A i \in 1 .. at : t[Len(base) + i] = body[i]
      <4>1. at \in Nat
        BY DEF Files!Request
      <4> QED BY <1>1, <2>1, <3>1, <4>1, OfOne DEF Grown
    <3> HIDE DEF base, body, at
    <3> QED BY <3>1, <3>2, GrownAim
  <2> QED BY <1>1, <2>1 DEF Changes
<1>6. Others(r) /\ Files!Under(r) /\ ~(req[r].op \in Files!Reading)
  BY DEF Alone, Others, Files!Writer, Files!Writing, Files!Reading
<1> QED BY <1>3, <1>4, <1>5, <1>6, OneMoves

LEMMA OpenKeeps == ASSUME FilesInv, NEW r \in Jobs, Files!Open(r) PROVE FilesInv'
<1> DEFINE p == req[r].path
           t == IF Files!Onto(r) /\ file[p] # None THEN file[p] ELSE <<>>
<1>1. /\ Files!Becomes(r, t) /\ UNCHANGED <<temp, before, crossed>>
      /\ \/ req[r].pc = "open" /\ dir' = dir \cup {p} /\ Files!Go(r, "put")
         \/ /\ req[r].pc = "cat" /\ p \in dir /\ dir' = dir
            /\ Files!Go(r, IF temp = None THEN "failed" ELSE "copy")
  BY DEF Files!Open
<1>2. /\ Files!TypeOK /\ Places(r) /\ Files!Writer(r) /\ p \in Paths /\ t \in Files!Text
      /\ dir \subseteq dir' /\ dir' \subseteq Paths /\ p \in dir'
  BY <1>1, OfOne, FileConstants DEF Files!TypeOK, Files!Under, Files!Writer, Places
<1> DEFINE c == IF req[r].pc = "open" THEN "put" ELSE IF temp = None THEN "failed" ELSE "copy"
<1>3. Files!Go(r, c) /\ c \in {"put", "copy", "failed"} /\ c \in Pcs
  BY <1>1 DEF Pcs
<1>4. /\ req' \in [Jobs -> Files!Request] /\ Alone(r) /\ Asked(r) /\ Steady(r) /\ req'[r].pc = c
      /\ req'[r].got = req[r].got
  BY <1>2, <1>3, Goes
<1>5. file' = [file EXCEPT ![p] = t] /\ file'[p] = t /\ t # None /\ req'[r].path = p
  BY <1>1, <1>2, <1>4, OfOne, FileConstants DEF Files!Becomes, Asked
<1>6. Has(r)'
  BY <1>1, <1>4, <1>5 DEF Has
<1>7. Places(r)'
  BY <1>1, <1>2, <1>4 DEF Places, Asked, Steady
<1>8. ASSUME r \notin crossed PROVE Grown(r)' /\ (Files!Writer(r)' => Stand(r)')
  <2>1. /\ Stand(r) /\ file[p] = before[r] /\ BodyIs(r) /\ req[r].at = 0 /\ req[r].src = None
        /\ req[r].pc = "cat" => temp = req[r].body
    BY <1>1, <1>2, <1>8, OfOne DEF Stand, Places
  <2>2. t = Base(r)
    BY <2>1 DEF Base, Files!OldText, Files!Onto
  <2>3. Base(r)' = Base(r)
    BY <1>1, <1>4 DEF Base, Files!OldText, Asked
  <2>4. Grown(r)'
    <3>1. Len(t) \in Nat /\ Len(req[r].body) \in Nat
      BY <1>2, OfOne, FileConstants
    <3> HIDE DEF t
    <3> QED BY <1>4, <1>5, <2>1, <2>2, <2>3, <3>1 DEF Grown, Steady
  <2>5. BodyIs(r)'
    BY <1>1, <1>4, <2>1 DEF BodyIs, Asked, Steady
  <2>6. Files!Writer(r)' => Stand(r)'
    BY <1>1, <1>3, <1>4, <2>1, <2>4, <2>5 DEF Stand, Steady, Files!Writer, Files!Under
  <2> QED BY <2>4, <2>6
<1> HIDE DEF t, c
<1> QED BY <1>1, <1>2, <1>3, <1>4, <1>6, <1>7, <1>8, WriteMove DEF Steady

\* What a piece leaves in a file.
LEMMA LaidText ==
    ASSUME FilesInv, NEW r \in Jobs, NEW u \in Alphabet, file[req[r].path] # None
    PROVE  LET prior == file[req[r].path]  t == Files!Laid(r, u) IN
           /\ t \in Files!Text
           /\ Files!Onto(r) => Len(t) = Len(prior) + 1
           /\ ~Files!Onto(r) /\ req[r].at = Len(prior) => Len(t) = req[r].at + 1
           /\ Files!Onto(r) \/ req[r].at = Len(prior)
              => t[Len(prior) + 1] = u /\ \A i \in 1 .. Len(prior) : t[i] = prior[i]
<1> DEFINE prior == file[req[r].path]  t == Files!Laid(r, u)  at == req[r].at
<1>1. prior \in Seq(Alphabet) /\ Len(prior) \in Nat /\ at \in Nat /\ Files!Text = Seq(Alphabet)
      /\ DOMAIN prior = 1 .. Len(prior)
  BY OfOne, FileConstants
<1>2. CASE Files!Onto(r)
  <2>1. t = Append(prior, u)
    BY <1>2 DEF Files!Laid
  <2> HIDE DEF prior, t
  <2>2. /\ t \in Seq(Alphabet) /\ Len(t) = Len(prior) + 1
        /\ t[Len(prior) + 1] = u /\ \A i \in 1 .. Len(prior) : t[i] = prior[i]
    BY <1>1, <2>1, AppendProperties
  <2> QED BY <1>1, <1>2, <2>2 DEF prior, t
<1>3. CASE ~Files!Onto(r)
  <2> DEFINE m == IF at + 1 > Len(prior) THEN at + 1 ELSE Len(prior)
  <2>1. t = [j \in 1 .. m |-> IF j = at + 1 THEN u ELSE IF j <= Len(prior) THEN prior[j] ELSE Files!Hole]
    BY <1>3 DEF Files!Laid, Files!Over
  <2> HIDE DEF prior, t, at
  <2>2. m \in Nat
    BY <1>1
  <2>3. ASSUME NEW j \in 1 .. m
        PROVE  (IF j = at + 1 THEN u ELSE IF j <= Len(prior) THEN prior[j] ELSE Files!Hole) \in Alphabet
    <3>1. j <= Len(prior) => prior[j] \in Alphabet
      BY <1>1, <2>2, ElementOfSeq
    <3> QED BY <3>1 DEF Alphabet
  <2>4. t \in [1 .. m -> Alphabet]
    BY <2>1, <2>3
  <2>5. t \in Seq(Alphabet) /\ Len(t) = m
    BY <2>2, <2>4, SeqDef
  <2>6. at = Len(prior) => /\ m = at + 1 /\ t[Len(prior) + 1] = u
                         /\ \A i \in 1 .. Len(prior) : t[i] = prior[i]
    BY <1>1, <2>1
  <2> QED BY <1>1, <1>3, <2>5, <2>6 DEF prior, t, at
<1> QED BY <1>2, <1>3

\* What is being written is there; in nobody's way it is what was asked for.
LEMMA SourceText ==
    ASSUME FilesInv, NEW r \in Jobs, req[r].pc \in {"put", "copy"}
    PROVE  /\ Files!Source(r) \in Files!Text
           /\ Files!Under(r) /\ Files!Writer(r) /\ file[req[r].path] # None
           /\ r \notin crossed => Stand(r) /\ Files!Source(r) = req[r].body
<1>1. Files!Under(r) /\ Files!Writer(r) /\ file[req[r].path] # None
  BY OfOne DEF Files!Under, Files!Writer, Places, Has
<1>2. Files!Source(r) \in Files!Text
  BY OfOne DEF Files!Source, Has
<1>3. r \notin crossed => Stand(r) /\ Files!Source(r) = req[r].body
  BY <1>1, OfOne DEF Stand, Files!Source
<1> QED BY <1>1, <1>2, <1>3

LEMMA PutKeeps == ASSUME FilesInv, NEW r \in Jobs, Files!Put(r) PROVE FilesInv'
<1> DEFINE p == req[r].path
           u == Files!Source(r)[req[r].at + 1]
           t == Files!Laid(r, u)
           new == [req[r] EXCEPT !.at = req[r].at + 1]
<1>1. /\ req[r].pc \in {"put", "copy"} /\ req[r].at < Len(Files!Source(r))
      /\ req' = [req EXCEPT ![r].at = req[r].at + 1] /\ Files!Becomes(r, t)
      /\ UNCHANGED <<dir, temp, before, crossed>>
  BY OfOne DEF Files!Put, Files!TypeOK
<1>2. /\ Files!Source(r) \in Files!Text /\ Files!Writer(r) /\ file[p] # None
      /\ r \notin crossed => Stand(r) /\ Files!Source(r) = req[r].body
  BY <1>1, SourceText
<1>3. u \in Alphabet
  <2>1. req[r].at \in Nat /\ Files!Source(r) \in Seq(Alphabet) /\ Len(Files!Source(r)) \in Nat
    BY <1>2, OfOne, FileConstants
  <2>2. req[r].at + 1 \in 1 .. Len(Files!Source(r))
    BY <1>1, <2>1
  <2> QED BY <2>1, <2>2, ElementOfSeq
<1> HIDE DEF u
<1>4. /\ t \in Files!Text
      /\ Files!Onto(r) => Len(t) = Len(file[p]) + 1
      /\ ~Files!Onto(r) /\ req[r].at = Len(file[p]) => Len(t) = req[r].at + 1
      /\ Files!Onto(r) \/ req[r].at = Len(file[p])
         => t[Len(file[p]) + 1] = u /\ \A i \in 1 .. Len(file[p]) : t[i] = file[p][i]
  BY <1>2, <1>3, LaidText
<1> HIDE DEF t
<1>5. /\ Files!TypeOK /\ Places(r) /\ p \in Paths /\ dir \subseteq Paths /\ p \in dir
      /\ req[r].at \in Nat
  BY <1>2, OfOne DEF Files!TypeOK
<1>6. /\ new \in Files!Request /\ new.pc = req[r].pc /\ new.body = req[r].body
      /\ new.at = req[r].at + 1 /\ new.src = req[r].src /\ new.op = req[r].op /\ new.path = p
      /\ new.text = req[r].text /\ new.sudo = req[r].sudo /\ new.range = req[r].range
      /\ req' = [req EXCEPT ![r] = new]
  BY <1>1, <1>5, OfOne DEF Files!Request, Files!TypeOK
<1> HIDE DEF new
<1>7. req' \in [Jobs -> Files!Request] /\ Alone(r) /\ Asked(r) /\ req'[r] = new
  BY <1>5, <1>6, GoesWith DEF Asked
<1>8. file' = [file EXCEPT ![p] = t] /\ file'[p] = t /\ t # None
  BY <1>1, <1>4, <1>5, OfOne, FileConstants DEF Files!Becomes
<1>9. Has(r)' /\ Places(r)'
  BY <1>1, <1>2, <1>5, <1>6, <1>7, <1>8, OfOne DEF Has, Places
<1>10. ASSUME r \notin crossed PROVE Grown(r)' /\ Stand(r)'
  <2> DEFINE base == Base(r)  body == req[r].body  at == req[r].at  prior == file[p]
  <2>1. Stand(r) /\ Grown(r) /\ BodyIs(r) /\ u = body[at + 1] /\ at < Len(body)
    BY <1>1, <1>2, <1>10 DEF Stand, u
  <2>2. /\ Len(base) \in Nat /\ Len(body) \in Nat /\ Len(prior) = Len(base) + at
        /\ \A i \in 1 .. Len(base) : prior[i] = base[i]
        /\ \A i \in 1 .. at : prior[Len(base) + i] = body[i]
    <3>1. Len(base) \in Nat /\ Len(body) \in Nat
      BY OfOne, FileConstants
    <3>2. /\ Len(prior) = Len(base) + at
          /\ \A i \in 1 .. Len(base) : prior[i] = base[i]
          /\ \A i \in 1 .. at : prior[Len(base) + i] = body[i]
      BY <2>1 DEF Grown
    <3> QED BY <3>1, <3>2
  <2>3. ~Files!Onto(r) => Len(base) = 0
    BY EmptySeq DEF Base, Files!Onto
  <2>4. Base(r)' = base
    BY <1>1, <1>6, <1>7 DEF Base, Files!OldText
  <2> HIDE DEF base, body, at, prior
  <2>5. /\ Len(t) = Len(base) + (at + 1) /\ t[Len(prior) + 1] = body[at + 1]
        /\ \A i \in 1 .. Len(prior) : t[i] = prior[i]
    <3>1. Files!Onto(r) \/ at = Len(prior)
      BY <1>5, <2>2, <2>3 DEF at
    <3>2. Len(t) = Len(prior) + 1
      BY <1>4, <3>1 DEF prior, at
    <3>3. at \in Nat /\ Len(t) = Len(base) + (at + 1)
      BY <1>5, <2>2, <3>2 DEF at
    <3> QED BY <1>4, <2>1, <2>2, <3>1, <3>2, <3>3 DEF prior, at
  <2>6. \A i \in 1 .. Len(base) : t[i] = base[i]
    BY SMTT(40), <1>5, <2>2, <2>5 DEF at
  <2>7. \A i \in 1 .. (at + 1) : t[Len(base) + i] = body[i]
    <3> SUFFICES ASSUME NEW i \in 1 .. (at + 1) PROVE t[Len(base) + i] = body[i]
      OBVIOUS
    <3>1. at \in Nat
      BY <1>5 DEF at
    <3>2. CASE i = at + 1
      BY <2>2, <2>5, <3>1, <3>2
    <3>3. CASE i # at + 1
      <4>1. i \in 1 .. at /\ Len(base) + i \in 1 .. Len(prior)
        BY <2>2, <3>1, <3>3
      <4> QED BY <2>2, <2>5, <4>1
    <3> QED BY <3>2, <3>3
  <2>8. Grown(r)'
    <3>1. at + 1 <= Len(body)
      BY <1>5, <2>1, <2>2 DEF at
    <3> QED BY <1>6, <1>7, <1>8, <2>4, <2>5, <2>6, <2>7, <3>1 DEF Grown, body, at
  <2>9. BodyIs(r)'
    BY <1>1, <1>6, <1>7, <2>1 DEF BodyIs
  <2> QED BY <1>1, <1>6, <1>7, <2>1, <2>8, <2>9 DEF Stand
<1>11. req'[r].pc # "idle" /\ req'[r].body = req[r].body
  BY <1>1, <1>6, <1>7
<1> QED BY <1>1, <1>2, <1>4, <1>5, <1>7, <1>9, <1>10, <1>11, WriteMove

LEMMA PutEndsKeeps == ASSUME FilesInv, NEW r \in Jobs, Files!PutEnds(r) PROVE FilesInv'
<1> DEFINE c == IF req[r].pc = "put" THEN "done" ELSE "unlink"
<1>1. /\ req[r].pc \in {"put", "copy"} /\ req[r].at >= Len(Files!Source(r)) /\ Files!Go(r, c)
      /\ UNCHANGED <<file, dir, temp, before, crossed, torn>>
  BY DEF Files!PutEnds
<1>2. /\ Files!Under(r) /\ Files!Writer(r) /\ Files!TypeOK /\ Places(r) /\ dir \subseteq Paths
      /\ r \notin crossed => Stand(r) /\ Files!Source(r) = req[r].body
      /\ c \in Pcs
  BY <1>1, SourceText, OfOne DEF Files!TypeOK, Pcs
<1>3. /\ req' \in [Jobs -> Files!Request] /\ Alone(r) /\ Asked(r) /\ Steady(r) /\ req'[r].pc = c
      /\ req'[r].got = req[r].got
  BY <1>1, <1>2, Goes
<1>4. CASE req[r].pc = "put"
  <2>1. req'[r].pc \in Ends
    BY <1>3, <1>4 DEF Ends
  <2> QED BY <1>1, <1>2, <1>3, <2>1, QuietEnd DEF Steady
<1>5. CASE req[r].pc = "copy"
  <2>1. req'[r].pc = "unlink"
    BY <1>3, <1>5
  <2>2. Has(r)' /\ Places(r)'
    BY <1>2, <1>3, <1>5, <2>1 DEF Has, Places, Asked, Steady
  <2>3. ASSUME r \notin crossed PROVE Stand(r)'
    <3>1. /\ Grown(r) /\ BodyIs(r) /\ temp = req[r].body /\ req[r].src = None
          /\ Files!Source(r) = req[r].body
      BY <1>2, <1>5, <2>3 DEF Stand
    <3>2. req[r].at = Len(req[r].body)
      <4>1. req[r].at \in Nat /\ Len(req[r].body) \in Nat /\ req[r].at <= Len(req[r].body)
        BY <3>1, OfOne, FileConstants DEF Grown
      <4> QED BY <1>1, <3>1, <4>1
    <3>3. Base(r)' = Base(r)
      BY <1>1, <1>3 DEF Base, Files!OldText, Asked
    <3>4. Grown(r)'
      BY <1>1, <1>3, <3>1, <3>3 DEF Grown, Asked, Steady
    <3>5. BodyIs(r)'
      BY <1>1, <1>3, <3>1 DEF BodyIs, Asked, Steady
    <3> QED BY <1>1, <1>3, <2>1, <3>1, <3>2, <3>4, <3>5 DEF Stand, Steady
  <2>4. ~(req[r].op \in Files!Reading)
    BY <1>2 DEF Files!Writer, Files!Writing, Files!Reading
  <2> QED BY <1>1, <1>2, <1>3, <2>1, <2>2, <2>3, <2>4, QuietMove DEF Steady
<1> QED BY <1>1, <1>4, <1>5

LEMMA UnlinkKeeps == ASSUME FilesInv, NEW r \in Jobs, Files!Unlink(r) PROVE FilesInv'
<1> DEFINE c == IF temp = None THEN "failed" ELSE "done"
           new(q) == IF q = r THEN [req[q] EXCEPT !.pc = c]
                     ELSE IF req[q].pc = "copy" /\ req[q].src = None
                          THEN [req[q] EXCEPT !.src = temp] ELSE req[q]
<1>1. /\ req[r].pc = "unlink" /\ temp' = None /\ UNCHANGED <<file, dir, before, crossed, torn>>
      /\ req' = [q \in Jobs |-> new(q)]
  BY DEF Files!Unlink
<1>2. /\ Files!TypeOK /\ Crossings /\ Places(r) /\ Files!Under(r) /\ Files!Writer(r) /\ req[r].sudo
      /\ c \in Pcs /\ c \in Ends /\ temp \in {None} \cup Files!Text
  BY <1>1, OfOne DEF Files!Under, Files!Writer, Places, Pcs, Ends
<1> HIDE DEF c
<1>3. ASSUME NEW q \in Jobs
      PROVE  /\ new(q) \in Files!Request /\ req'[q] = new(q)
             /\ q = r => /\ new(q).pc = c /\ new(q).op = req[q].op /\ new(q).path = req[q].path
                         /\ new(q).sudo = req[q].sudo /\ new(q).text = req[q].text
                         /\ new(q).range = req[q].range /\ new(q).body = req[q].body
             /\ q # r /\ new(q) # req[q] => Bereft(q) /\ new(q).src = temp /\ temp # None
             /\ new(q).pc = "copy" => new(q).src # None
  <2>1. /\ req[q] \in Files!Request /\ Has(q) /\ req'[q] = new(q)
        /\ req[q].pc = "copy" => Files!Writer(q) /\ req[q].sudo
    BY <1>1, OfOne DEF Places, Files!Writer, Files!Under
  <2>2. CASE q = r
    BY <1>2, <2>1, <2>2 DEF Files!Request, Pcs, Ends
  <2>3. CASE q # r /\ req[q].pc = "copy" /\ req[q].src = None
    <3>1. q \in crossed /\ temp # None
      BY <1>2, <2>1, <2>3 DEF Crossings, Has
    <3> QED BY <1>2, <2>1, <2>3, <3>1 DEF Files!Request, Bereft, SameBut
  <2>4. CASE q # r /\ ~(req[q].pc = "copy" /\ req[q].src = None)
    BY <2>1, <2>4
  <2> QED BY <2>2, <2>3, <2>4
<1> HIDE DEF new
<1>4. req' \in [Jobs -> Files!Request] /\ Others(r) /\ Asked(r) /\ req'[r].pc = c
      /\ req'[r].body = req[r].body
  BY <1>1, <1>3 DEF Others, Asked
<1>5. Files!TypeOK'
  BY <1>1, <1>2, <1>4 DEF Files!TypeOK
<1>6. \A x \in Jobs : Has(x)'
  <2> SUFFICES ASSUME NEW x \in Jobs PROVE Has(x)'
    OBVIOUS
  <2>1. CASE x = r
    BY <1>2, <1>4, <2>1 DEF Has, Ends
  <2>2. CASE x # r
    <3>1. req'[x].pc = req[x].pc /\ req'[x].path = req[x].path /\ Has(x)
      BY <1>4, <2>2, OfOne DEF Others, Bereft, SameBut
    <3> QED BY <1>1, <1>3, <3>1 DEF Has
  <2> QED BY <2>1, <2>2
<1>7. Places(r)' /\ ~Files!Under(r)' /\ ~Files!Writer(r)' /\ req'[r].pc # "idle" /\ Changes(r)
  BY <1>1, <1>2, <1>4, EndIs DEF Changes
<1> QED BY <1>1, <1>2, <1>4, <1>5, <1>6, <1>7, OneMoves

LEMMA FilesInit == Files!Init => FilesInv
<1> SUFFICES ASSUME Files!Init PROVE FilesInv
  OBVIOUS
<1>1. /\ Files!NoRequest \in Files!Request /\ Files!NoRequest.pc = "idle"
      /\ Files!NoRequest.op = "find"
  <2>1. (CHOOSE x \in Paths : TRUE) \in Paths
    BY FileConstants
  <2> QED BY <2>1, FileConstants DEF Files!NoRequest, Files!Request
<1>2. \A r \in Jobs : req[r] = Files!NoRequest
  BY DEF Files!Init
<1>3. \A r \in Jobs : ~Files!Under(r) /\ ~Files!Writer(r)
  BY <1>1, <1>2 DEF Files!Under, Files!Writer
<1>4. Files!TypeOK
  <2>1. [Paths -> Texts \cup {None}] \subseteq [Paths -> {None} \cup Files!Text]
    BY FileConstants
  <2> QED BY <1>1, <2>1 DEF Files!Init, Files!TypeOK
<1>5. Crossings
  BY <1>3 DEF Crossings
<1>6. ASSUME NEW r \in Jobs PROVE RequestIs(r)
  <2>1. Places(r) /\ Has(r)
    BY <1>1, <1>2 DEF Places, Has, Files!Init
  <2> QED BY <1>3, <2>1 DEF RequestIs
<1> QED BY <1>4, <1>5, <1>6 DEF FilesInv

\* The steps of the file service, by name.
LEMMA FilesSteps ==
    ASSUME Files!Next
    PROVE  \/ UNCHANGED Files!vars
           \/ \E r \in Jobs :
                \/ \E op \in Ops, p \in Paths, sudo \in SudoUse, text \in Texts,
                      range \in Ranges \cup {Files!AllLines} :
                      /\ range = Files!AllLines \/ op = "read"
                      /\ Files!Accept(r, op, p, sudo, text, range)
                \/ Files!Check(r) \/ Files!Piece(r) \/ Files!EndOfFile(r) \/ Files!ReadFails(r)
                \/ Files!Temp(r) \/ Files!TempFails(r) \/ Files!Open(r) \/ Files!OpenFails(r)
                \/ Files!Put(r) \/ Files!PutEnds(r) \/ Files!PutFails(r) \/ Files!Unlink(r)
                \/ Files!FindByName(r)
  BY DEF Files!Next, Files!Done

LEMMA FilesStep == FilesInv /\ [Files!Next]_Files!vars => FilesInv'
<1> SUFFICES ASSUME FilesInv, [Files!Next]_Files!vars PROVE FilesInv'
  OBVIOUS
<1>1. CASE UNCHANGED Files!vars
  <2>1. UNCHANGED <<file, dir, temp, req, before, crossed, torn>>
    BY <1>1 DEF Files!vars
  <2>2. Files!TypeOK'
    BY <2>1 DEF FilesInv, Files!TypeOK
  <2>3. Crossings'
    BY <2>1 DEF FilesInv, Crossings, Files!Under, Files!Writer
  <2>4. ASSUME NEW r \in Jobs PROVE RequestIs(r)'
    <3>1. Places(r)' /\ Has(r)'
      BY <2>1, OfOne DEF Places, Has
    <3>2. Files!Writer(r)' /\ r \notin crossed' => Stand(r)'
      BY <2>1, OfOne DEF Stand, BodyIs, Grown, Base, Files!OldText, Files!Under, Files!Writer
    <3>3. \A i, u : Files!Meant(r, i, u) <=> Files!Meant(r, i, u)'
      BY <2>1 DEF Files!Meant, Files!Aim, Files!OldText
    <3>4. Files!Under(r)' /\ req'[r].op \in Files!Reading => ReaderIs(r)'
      BY <2>1, <3>3, OfOne DEF ReaderIs, FromWhere, Files!Under
    <3> QED BY <3>1, <3>2, <3>4 DEF RequestIs
  <2> QED BY <2>2, <2>3, <2>4 DEF FilesInv
<1>2. ASSUME NEW r \in Jobs,
             \E op \in Ops, p \in Paths, sudo \in SudoUse, text \in Texts,
                range \in Ranges \cup {Files!AllLines} :
                /\ range = Files!AllLines \/ op = "read"
                /\ Files!Accept(r, op, p, sudo, text, range)
      PROVE  FilesInv'
  BY <1>2, AcceptKeeps
<1> QED BY <1>1, <1>2, FilesSteps, CheckKeeps, PieceKeeps, EndOfFileKeeps, ReadFailsKeeps, TempKeeps,
           TempFailsKeeps, OpenKeeps, OpenFailsKeeps, PutKeeps, PutEndsKeeps, PutFailsKeeps,
           UnlinkKeeps, FindKeeps

\* What a change is answered, and a reading.
AnsweredRight(r) ==
    LET after == file'[req[r].path] IN
    /\ Files!Writer(r) /\ r \notin crossed
    /\ req[r].op = "replace" => Len(Files!OldText(r)) <= MaxLength
    => /\ Files!Answers(r, {"done"}) => after = Files!Wanted(r)
       /\ Files!Answers(r, {"failed", "missing"}) =>
             \/ after = before[r]
             \/ /\ Files!IsPrefix(after, Files!Wanted(r))
                /\ req[r].op = "append" => Files!IsPrefix(Files!OldText(r), after)
ReadRight(r) ==
    req[r].op \in Files!Reading /\ Files!Answers(r, {"done"}) =>
        /\ r \notin torn => req'[r].got = Files!Answer(req[r], file[req[r].path])
        /\ r \notin crossed => FromWhere(r, req[r].got)

\* The answer to a request is a step of its own.
Step(q) ==
    \/ Files!Check(q) \/ Files!Piece(q) \/ Files!EndOfFile(q) \/ Files!ReadFails(q)
    \/ Files!Temp(q) \/ Files!TempFails(q) \/ Files!Open(q) \/ Files!OpenFails(q)
    \/ Files!Put(q) \/ Files!PutEnds(q) \/ Files!PutFails(q) \/ Files!Unlink(q)
    \/ Files!FindByName(q)

LEMMA Outside ==
    ASSUME FilesInv, NEW q \in Jobs, NEW r \in Jobs, q # r, Step(q)
    PROVE  req'[r].pc = req[r].pc
<1>1. req \in [Jobs -> Files!Request]
  BY OfOne
<1>2. CASE \E c : Files!Go(q, c)
  BY <1>1, <1>2 DEF Files!Go
<1>3. CASE Files!Check(q) \/ Files!Piece(q) \/ Files!Put(q) \/ Files!FindByName(q)
  BY <1>1, <1>3 DEF Files!Check, Files!Piece, Files!Put, Files!FindByName
<1>4. CASE Files!EndOfFile(q)
  <2> DEFINE answer == Files!Answer(req[q], req[q].got)
             n == Files!Count(answer)
             b == Files!Replaced(answer, req[q].text)
  <2>1. \/ Files!Go(q, "failed")
        \/ req' = [req EXCEPT ![q].body = b, ![q].n = n,
                              ![q].pc = IF req[q].sudo THEN "temp" ELSE "open"]
        \/ req' = [req EXCEPT ![q].got = answer, ![q].n = n, ![q].pc = "done"]
    <3>1. CASE req[q].op = "replace" /\ n > 0
      BY <1>4, <3>1 DEF Files!EndOfFile
    <3>2. CASE ~(req[q].op = "replace" /\ n > 0)
      BY <1>4, <3>2 DEF Files!EndOfFile
    <3> QED BY <3>1, <3>2
  <2> HIDE DEF answer, n, b
  <2> QED BY <1>1, <1>2, <2>1
<1>5. CASE Files!Unlink(q)
  BY <1>1, <1>5 DEF Files!Unlink
<1>6. CASE \/ Files!ReadFails(q) \/ Files!Temp(q) \/ Files!TempFails(q) \/ Files!Open(q)
           \/ Files!OpenFails(q) \/ Files!PutEnds(q) \/ Files!PutFails(q)
  BY <1>2, <1>6 DEF Files!ReadFails, Files!Temp, Files!TempFails, Files!Open, Files!OpenFails,
                    Files!PutEnds, Files!PutFails
<1> QED BY <1>3, <1>4, <1>5, <1>6 DEF Step

LEMMA Own ==
    ASSUME FilesInv, [Files!Next]_Files!vars, NEW r \in Jobs, Files!Under(r), req'[r].pc \in Ends
    PROVE  Step(r)
<1>1. req'[r].pc # req[r].pc
  BY DEF Files!Under, Ends
<1>2. CASE UNCHANGED Files!vars
  BY <1>1, <1>2 DEF Files!vars
<1>3. ASSUME NEW q \in Jobs, NEW op \in Ops, NEW p \in Paths, NEW sudo \in SudoUse,
             NEW text \in Texts, NEW range \in Ranges \cup {Files!AllLines},
             Files!Accept(q, op, p, sudo, text, range)
      PROVE  FALSE
  <2>1. req[q].pc = "idle" /\ \E new : req' = [req EXCEPT ![q] = new]
    BY <1>3 DEF Files!Accept
  <2> QED BY <1>1, <2>1, OfOne DEF Files!Under
<1>4. ASSUME NEW q \in Jobs, Step(q) PROVE Step(r)
  BY <1>1, <1>4, Outside
<1> QED BY <1>2, <1>3, <1>4, FilesSteps DEF Step

\* What is meant is what is wanted, unless a text too long for it is replaced in.
LEMMA WantedIs ==
    ASSUME FilesInv, NEW r \in Jobs, req[r].op \in Files!Writing, BodyIs(r),
           req[r].op = "replace" => Len(Files!OldText(r)) <= MaxLength
    PROVE  Files!Aim(r) = Files!Wanted(r)
<1> DEFINE prior == Files!Plain(Files!OldText(r), req[r].sudo)
<1>1. req[r].body \in Seq(Alphabet) /\ req[r].text \in Seq(Alphabet)
  BY OfOne, FileConstants
<1>2. CASE req[r].op \in {"write", "upload"}
  BY <1>1, <1>2, ConcatEmptySeq DEF Files!Aim, BodyIs, Files!Wanted
<1>3. CASE req[r].op = "append"
  BY <1>3 DEF Files!Aim, BodyIs, Files!Wanted
<1>4. CASE req[r].op = "replace"
  <2>1. /\ before[r] # None /\ Files!Count(Files!Shorten(prior)) > 0
        /\ req[r].body = Files!Replaced(Files!Shorten(prior), req[r].text)
    BY <1>4 DEF BodyIs, Files!OldText
  <2>2. Files!Shorten(prior) = prior
    BY <1>4, OfOne, PlainText, ShortenText
  <2>3. Files!Wanted(r) = Files!Replaced(prior, req[r].text)
    BY <1>4, <2>1, <2>2 DEF Files!Wanted
  <2>4. Files!Aim(r) = req[r].body
    BY <1>1, <1>4, ConcatEmptySeq DEF Files!Aim
  <2> QED BY <2>1, <2>2, <2>3, <2>4
<1> QED BY <1>2, <1>3, <1>4 DEF Files!Writing

LEMMA WritesRight ==
    ASSUME FilesInv, NEW r \in Jobs, Step(r) PROVE AnsweredRight(r)
<1> SUFFICES ASSUME Files!Writer(r), r \notin crossed, Files!Under(r), req'[r].pc \in Ends,
                    req[r].op = "replace" => Len(Files!OldText(r)) <= MaxLength
             PROVE  LET after == file'[req[r].path] IN
                    /\ req'[r].pc = "done" => after = Files!Wanted(r)
                    /\ req'[r].pc # "done" =>
                         \/ after = before[r]
                         \/ /\ Files!IsPrefix(after, Files!Wanted(r))
                            /\ req[r].op = "append" => Files!IsPrefix(Files!OldText(r), after)
  BY DEF AnsweredRight, Files!Answers, Ends
<1> DEFINE p == req[r].path
<1>1. Stand(r) /\ Places(r) /\ Files!TypeOK /\ req \in [Jobs -> Files!Request]
  BY OfOne
<1>2. \A c : Files!Go(r, c) => req'[r].pc = c
  BY <1>1 DEF Files!Go, Files!Request
<1>3. CASE Files!Check(r)
  <2>1. req[r].pc = "check" /\ file' = file /\ req'[r].pc # "done"
    BY <1>1, <1>3 DEF Files!Check, Files!Request
  <2> QED BY <1>1, <2>1 DEF Stand
<1>4. CASE Files!Piece(r) \/ Files!Put(r)
  BY <1>1, <1>4 DEF Files!Piece, Files!Put, Files!Request, Ends
<1>5. CASE Files!ReadFails(r) \/ Files!TempFails(r) \/ Files!OpenFails(r)
  <2>1. req[r].pc \in {"read", "temp", "open", "cat"} /\ file' = file /\ req'[r].pc = "failed"
    BY <1>2, <1>5 DEF Files!ReadFails, Files!TempFails, Files!OpenFails
  <2> QED BY <1>1, <2>1 DEF Stand
<1>6. CASE Files!EndOfFile(r)
  <2> DEFINE answer == Files!Answer(req[r], req[r].got)
  <2>1. /\ req[r].pc = "read" /\ file[p] # None /\ Files!AtEnd(r) /\ file' = file
        /\ req[r].op = "replace"
    BY <1>1, <1>6 DEF Files!EndOfFile, Places, Files!Writer, Files!Writing, Files!Reading
  <2>2. /\ before[r] = file[p] /\ answer = Files!Shorten(Files!Plain(before[r], req[r].sudo))
    BY <2>1, ReplaceReads
  <2>3. ~(Files!Count(answer) > 0) /\ req'[r].pc = "done"
    <3> DEFINE n == Files!Count(answer)
               b == Files!Replaced(answer, req[r].text)
    <3>1. n > 0 => req' = [req EXCEPT ![r].body = b, ![r].n = n,
                                      ![r].pc = IF req[r].sudo THEN "temp" ELSE "open"]
      BY <1>6, <2>1 DEF Files!EndOfFile
    <3>2. ~(n > 0) => req' = [req EXCEPT ![r].got = answer, ![r].n = n, ![r].pc = "done"]
      BY <1>6, <2>1 DEF Files!EndOfFile
    <3> HIDE DEF answer, n, b
    <3>3. n > 0 => req'[r].pc \in {"temp", "open"}
      BY <1>1, <3>1 DEF Files!Request
    <3>4. ~(n > 0) => req'[r].pc = "done"
      BY <1>1, <3>2 DEF Files!Request
    <3> QED BY <3>3, <3>4 DEF Ends, n
  <2>4. /\ Files!OldText(r) = file[p]
        /\ Files!Shorten(Files!Plain(before[r], req[r].sudo)) = Files!Plain(before[r], req[r].sudo)
    BY <2>1, <2>2, OfOne, PlainText, ShortenText DEF Files!OldText
  <2>5. Files!Count(answer) = 0
    BY <2>3, OfOne, AnswerText, CountIsNumber
  <2>6. Files!Wanted(r) = Files!OldText(r)
    BY <2>1, <2>2, <2>4, <2>5 DEF Files!Wanted
  <2> QED BY <2>1, <2>3, <2>4, <2>6
<1>7. CASE Files!Temp(r)
  BY <1>2, <1>7 DEF Files!Temp, Ends
<1>8. CASE Files!Open(r)
  <2>1. temp = None /\ req[r].pc = "cat"
    BY <1>2, <1>8 DEF Files!Open, Ends
  <2> QED BY <1>1, <2>1, OfOne, FileConstants DEF Stand
<1>9. CASE Files!PutEnds(r)
  <2>1. /\ req[r].pc = "put" /\ file' = file /\ req[r].at >= Len(Files!Source(r))
        /\ req'[r].pc = "done"
    BY <1>2, <1>9 DEF Files!PutEnds, Ends
  <2>2. Grown(r) /\ BodyIs(r) /\ Files!Source(r) = req[r].body
    BY <1>1, <2>1, SourceText DEF Stand
  <2>3. req[r].at = Len(req[r].body)
    <3>1. req[r].at \in Nat /\ Len(req[r].body) \in Nat /\ req[r].at <= Len(req[r].body)
      BY <2>2, OfOne, FileConstants DEF Grown
    <3> QED BY <2>1, <2>2, <3>1
  <2> QED BY <2>1, <2>2, <2>3, GrownIs, WantedIs DEF Files!Writer
<1>10. CASE Files!PutFails(r)
  <2>1. req[r].pc \in {"put", "copy"} /\ file' = file /\ req'[r].pc = "failed"
    BY <1>2, <1>10 DEF Files!PutFails
  <2>2. Grown(r) /\ BodyIs(r)
    BY <1>1, <2>1 DEF Stand
  <2>3. Files!Aim(r) = Files!Wanted(r)
    BY <2>2, WantedIs DEF Files!Writer
  <2>4. Files!IsPrefix(file[p], Files!Wanted(r)) /\ Files!IsPrefix(Base(r), file[p])
    BY <2>2, <2>3, GrownIs
  <2> QED BY <2>1, <2>4 DEF Base
<1>11. CASE Files!Unlink(r)
  <2>1. /\ req[r].pc = "unlink" /\ file' = file
        /\ req'[r].pc = IF temp = None THEN "failed" ELSE "done"
    BY <1>1, <1>11 DEF Files!Unlink, Files!Request
  <2>2. Grown(r) /\ BodyIs(r) /\ req[r].at = Len(req[r].body) /\ temp = req[r].body
    BY <1>1, <2>1 DEF Stand
  <2>3. req'[r].pc = "done"
    BY <2>1, <2>2, OfOne, FileConstants
  <2> QED BY <2>1, <2>2, <2>3, GrownIs, WantedIs DEF Files!Writer
<1>12. CASE Files!FindByName(r)
  BY <1>1, <1>12 DEF Files!FindByName, Places, Files!Writer, Files!Writing
<1> QED BY <1>3, <1>4, <1>5, <1>6, <1>7, <1>8, <1>9, <1>10, <1>11, <1>12 DEF Step

LEMMA ReadsRight ==
    ASSUME FilesInv, NEW r \in Jobs, Step(r) PROVE ReadRight(r)
<1> SUFFICES ASSUME req[r].op \in Files!Reading, Files!Under(r), req'[r].pc = "done"
             PROVE  /\ r \notin torn => req'[r].got = Files!Answer(req[r], file[req[r].path])
                    /\ r \notin crossed => FromWhere(r, req[r].got)
  BY DEF ReadRight, Files!Answers
<1>1. ReaderIs(r) /\ Places(r) /\ req \in [Jobs -> Files!Request]
      /\ ~(req[r].op \in Files!Writing) /\ req[r].op # "find"
  BY OfOne DEF Files!Writing, Files!Reading
<1>2. \A c : Files!Go(r, c) => req'[r].pc = c
  BY <1>1 DEF Files!Go, Files!Request
<1>3. Files!EndOfFile(r)
  <2>1. ~Files!Check(r) /\ ~Files!Piece(r)
    BY <1>1 DEF Files!Check, Files!Piece, Files!Request
  <2>2. ~(Files!ReadFails(r) \/ Files!TempFails(r) \/ Files!OpenFails(r) \/ Files!PutFails(r)
          \/ Files!Temp(r))
    BY <1>2 DEF Files!ReadFails, Files!TempFails, Files!OpenFails, Files!PutFails, Files!Temp
  <2>3. ~(Files!Open(r) \/ Files!Put(r) \/ Files!PutEnds(r) \/ Files!Unlink(r) \/ Files!FindByName(r))
    BY <1>1 DEF Places, Files!Open, Files!Put, Files!PutEnds, Files!Unlink, Files!FindByName
  <2> QED BY <2>1, <2>2, <2>3 DEF Step
<1>4. file[req[r].path] # None /\ Files!AtEnd(r)
  BY <1>3 DEF Files!EndOfFile
<1>5. req'[r].got = Files!Answer(req[r], req[r].got)
  <2>1. req[r].op # "replace" /\ ~Files!Go(r, "failed")
    BY <1>1, <1>2 DEF Files!Writing
  <2>2. \E n : req' = [req EXCEPT ![r].got = Files!Answer(req[r], req[r].got), ![r].n = n, ![r].pc = "done"]
    BY <1>3, <2>1 DEF Files!EndOfFile
  <2> QED BY <1>1, <2>2 DEF Files!Request
<1>6. r \notin torn => req[r].got = file[req[r].path]
  BY <1>1, <1>4, OfOne, AllRead DEF ReaderIs, Files!AtEnd
<1> QED BY <1>1, <1>5, <1>6 DEF ReaderIs

LEMMA AllRight ==
    ASSUME FilesInv, [Files!Next]_Files!vars, NEW r \in Jobs
    PROVE  AnsweredRight(r) /\ ReadRight(r)
<1>1. CASE Files!Under(r) /\ req'[r].pc \in Ends
  BY <1>1, Own, WritesRight, ReadsRight
<1>2. CASE ~(Files!Under(r) /\ req'[r].pc \in Ends)
  BY <1>2 DEF AnsweredRight, ReadRight, Files!Answers, Ends
<1> QED BY <1>1, <1>2

-----------------------------------------------------------------------------
(* The sandbox *)

\* The timer's invariant, in the names of the sandbox.
Timing == INSTANCE SupervisorTimeoutProofs WITH active <- timing

LEMMA TimerInit == Timer!Init => Timing!IInv
<1>1. Timing!Init => Timing!IInv
  BY Timing!InvInit, PartsAssumption DEF Timer!TimeoutAssumption, Timing!TimeoutAssumption
<1> QED BY <1>1 DEF Timer!Init, Timing!Init

LEMMA TimerStep == Timing!IInv /\ [Timer!Next]_Timer!vars => Timing!IInv'
<1>1. Timing!IInv /\ [Timing!Next]_Timing!vars => Timing!IInv'
  BY Timing!InvStep, PartsAssumption DEF Timer!TimeoutAssumption, Timing!TimeoutAssumption
<1>2. ASSUME UNCHANGED Timer!vars PROVE UNCHANGED Timing!vars
  BY <1>2 DEF Timer!vars, Timing!vars, Timer!timerVars, Timing!timerVars
<1>3. Timer!Next <=> Timing!Next
  BY DEF Timer!Next, Timing!Next, Timer!UserSets, Timing!UserSets, Timer!ApiRequest,
         Timing!ApiRequest, Timer!CancelTimeout, Timing!CancelTimeout, Timer!Fire, Timing!Fire,
         Timer!ShutdownCall, Timing!ShutdownCall, Timer!Control, Timing!Control, Timer!Stopped,
         Timing!Stopped, Timer!Tick, Timing!Tick, Timer!Time, Timing!Time, Timer!SetTimeout,
         Timing!SetTimeout, Timer!SetupTimer, Timing!SetupTimer, Timer!OrDefault,
         Timing!OrDefault, Timer!Extends, Timing!Extends, Timer!timerVars, Timing!timerVars,
         Timer!Up, Timing!Up
<1>4. [Timer!Next]_Timer!vars => [Timing!Next]_Timing!vars
  BY <1>2, <1>3
<1> QED BY <1>1, <1>4

LEMMA TimerTypes == Timing!IInv => Timer!TypeOK
  BY DEF Timing!IInv, Timing!TypeOK, Timer!TypeOK, Timing!Time, Timer!Time

\* The invariant of the three.
AllInv == Inv /\ Timing!IInv /\ FilesInv

LEMMA AllInit1 == AllInit => AllInv
  BY InvInit, TimerInit, FilesInit DEF AllInit, AllInv

\* A step of the whole is one of the shell, the timer or the files, or of none.
LEMMA Steps ==
    [AllNext]_allVars => [Next]_vars /\ [Timer!Next]_Timer!vars /\ [Files!Next]_Files!vars
  BY DEF AllNext, allVars, timerVars, fileVars, Timer!vars, Timer!timerVars, Files!vars

LEMMA AllStep == AllInv /\ [AllNext]_allVars => AllInv'
  BY Steps, InvStep, TimerStep, FilesStep DEF AllInv

LEMMA AllHolds == AllSpec => []AllInv
  BY AllInit1, AllStep, PTL DEF AllSpec

\* The shell, the timer and the files are well formed: a file that is there has a
\* directory, a session its process, a timeout its timer.
THEOREM ServicesTypeCorrect == AllSpec => []AllTypeOK
<1>1. AllInv => AllTypeOK
  <2>1. FilesInv => Files!TypeOK
    BY DEF FilesInv
  <2> QED BY <2>1, TimerTypes DEF AllInv, AllTypeOK, Inv
<1> QED BY <1>1, AllHolds, PTL

\* A reader is answered from a text its file has, if the file only grows beside it; and
\* as long as writers do not cross, every unit it read is one the file had, or that a
\* writer means it to have, in that place (read_file, find_in_content, the download).
THEOREM ReadersGetWhatIsThere == AllSpec => ReadsWhatIsThere
<1> DEFINE A == \A r \in Jobs : LET p == req[r].path IN
                 req[r].op \in Files!Reading /\ Files!Answers(r, {"done"}) =>
                   /\ r \notin torn => req'[r].got = Files!Answer(req[r], file[p])
                   /\ r \notin crossed => \A i \in DOMAIN req[r].got :
                                             Files!Meant(r, i, req[r].got[i])
<1>1. AllInv /\ [AllNext]_allVars => [A]_Files!vars
  <2> SUFFICES ASSUME AllInv, [AllNext]_allVars, NEW r \in Jobs PROVE ReadRight(r)
    BY DEF ReadRight, FromWhere
  <2> QED BY Steps, AllRight DEF AllInv
<1> QED BY <1>1, AllHolds, PTL DEF AllSpec, ReadsWhatIsThere, Files!ReadsWhatIsThere

\* A writer that no other crosses has made what it says when it is answered; with an
\* error its file is as it was, or a beginning of what was wanted that holds all an
\* append found there (write_file, str_replace, upload_file).
THEOREM ChangesAreMade == AllSpec => AnsweredAsAsked
<1> DEFINE A == \A r \in Jobs : LET after == file'[req[r].path] IN
                 /\ Files!Writer(r) /\ r \notin crossed
                 /\ req[r].op = "replace" => Len(Files!OldText(r)) <= MaxLength
                 => /\ Files!Answers(r, {"done"}) => after = Files!Wanted(r)
                    /\ Files!Answers(r, {"failed", "missing"}) =>
                          \/ after = before[r]
                          \/ Files!IsPrefix(after, Files!Wanted(r))
                             /\ (req[r].op = "append" => Files!IsPrefix(Files!OldText(r), after))
<1>1. AllInv /\ [AllNext]_allVars => [A]_Files!vars
  <2> SUFFICES ASSUME AllInv, [AllNext]_allVars, NEW r \in Jobs PROVE AnsweredRight(r)
    BY DEF AnsweredRight
  <2> QED BY Steps, AllRight DEF AllInv
<1> QED BY <1>1, AllHolds, PTL DEF AllSpec, AnsweredAsAsked, Files!AnsweredAsAsked

=============================================================================
