---------------------------- MODULE SandboxFiles ----------------------------
(***************************************************************************)
(* The file service of a sandbox (src/sandbox/app/services/file.py and its *)
(* routes): read, write, append, replace, search, find, upload, download.  *)
(*                                                                         *)
(* Requests run in threads and subprocesses beside one another: a file is  *)
(* read and written a piece at a time, and any piece may be the last.  A   *)
(* text is a sequence of units, each a piece: "x" is what a replacement    *)
(* looks for, "lf" and "crlf" end a line, Cut is the mark a shortened      *)
(* answer ends with, Hole what lies between the end of a file and a later  *)
(* place written to.  The length of a text is its number of units.         *)
(***************************************************************************)
EXTENDS Integers, Sequences, FiniteSets, SequencesExt

CONSTANTS Requests, Paths,
          Ops,        \* the operations requests ask for
          SudoUse,    \* the values the sudo flag takes
          Units,      \* what texts consist of
          Texts,      \* the texts that are written, or there at first
          Ranges,     \* the ranges of lines a read names
          MaxLength,  \* the default of max_length: 10000 characters
          NoFile

Writing == {"write", "append", "replace", "upload"}
Reading == {"read", "search", "download"}
Cut  == "(truncated)"
Hole == "nul"
Text == Seq(Units \cup {"lf", Cut, Hole})

SandboxFilesAssumption ==
    /\ Ops \subseteq Writing \cup Reading \cup {"find"} /\ SudoUse \subseteq BOOLEAN
    /\ <<>> \in Texts /\ Texts \subseteq Seq(Units) /\ Ranges \subseteq Nat \X Nat
    /\ MaxLength \in Nat \ {0} /\ IsFiniteSet(Paths) /\ Paths # {} /\ NoFile \notin Text

AllLines == <<>>   \* a read that names no range

Symmetry == Permutations(Requests)

VARIABLES
    file,    \* path -> its text, or NoFile
    dir,     \* the paths whose directory is there
    temp,    \* the temporary file of sudo writes, one per process
    req,     \* the requests
    before,  \* history: request -> the text its file had when it was accepted
    crossed, \* history: requests beside which two writers were in each other's way
    torn     \* history: requests whose file lost text while they were under way

vars == <<file, dir, temp, req, before, crossed, torn>>

\* at counts what is written, n what an answer counts; src is a temporary file that
\* was removed while it was copied.
NoRequest == [pc |-> "idle", op |-> "find", path |-> CHOOSE p \in Paths : TRUE, sudo |-> FALSE,
              range |-> AllLines, text |-> <<>>, got |-> <<>>, body |-> <<>>, src |-> NoFile,
              at |-> 0, n |-> 0]

Init == /\ file \in [Paths -> Texts \cup {NoFile}]
        /\ dir \in {d \in SUBSET Paths : \A p \in Paths : file[p] # NoFile => p \in d}
        /\ temp = NoFile
        /\ req = [r \in Requests |-> NoRequest]
        /\ before = [r \in Requests |-> NoFile]
        /\ crossed = {} /\ torn = {}

Under(r)  == req[r].pc \notin {"idle", "done", "failed", "missing"}
Writer(r) == Under(r) /\ req[r].op \in Writing

\* The writers that make trouble for a new request: for one that writes those of the
\* same file or, with sudo, temporary file; for another those in trouble already.
Rivals(op, p, sudo) ==
    {w \in Requests : /\ Writer(w)
                      /\ IF op \in Writing THEN req[w].path = p \/ (sudo /\ req[w].sudo)
                                           ELSE req[w].path = p /\ w \in crossed}

Accept(r, op, p, sudo, text, range) ==
    LET rivals == Rivals(op, p, sudo) IN
    /\ req[r].pc = "idle"
    /\ sudo => op \in {"read", "search", "write", "append", "replace"}
    /\ req' = [req EXCEPT ![r] = [NoRequest EXCEPT
                 !.op = op, !.path = p, !.sudo = sudo, !.range = range, !.text = text,
                 !.body = IF op \in {"write", "append", "upload"} THEN text ELSE <<>>,
                 !.pc = CASE op \in {"replace", "read", "search", "download"} -> "check"
                          [] op = "find" -> "glob"
                          [] op \in {"write", "append"} /\ sudo -> "temp"
                          [] OTHER -> "open"]]
    /\ before' = [before EXCEPT ![r] = file[p]]
    /\ crossed' = IF rivals = {} THEN crossed
                  ELSE crossed \cup {r} \cup {q \in Requests :
                         Under(q) /\ req[q].path \in {p} \cup {req[w].path : w \in rivals}}
    /\ UNCHANGED <<file, dir, temp, torn>>

Go(r, pc) == req' = [req EXCEPT ![r].pc = pc]

\* The file of a request becomes a text; whoever is reading it may have read more.
Becomes(r, text) ==
    LET p == req[r].path IN
    /\ file' = [file EXCEPT ![p] = text]
    /\ torn' = IF file[p] = NoFile THEN torn
               ELSE IF IsPrefix(file[p], text) THEN torn
               ELSE torn \cup {q \in Requests : Under(q) /\ req[q].path = p}

(* read_file: the test that the file is there, then the reading in a thread *)
(* or through "sudo cat"; a download is declared with the size of its file.  *)

Check(r) ==
    LET text == file[req[r].path] IN
    /\ req[r].pc = "check"
    /\ req' = [req EXCEPT ![r].pc = IF text = NoFile /\ ~req[r].sudo THEN "missing" ELSE "read",
                          ![r].n = IF text = NoFile THEN 0 ELSE Len(text)]
    /\ UNCHANGED <<file, dir, temp, before, crossed, torn>>

Piece(r) ==
    LET text == file[req[r].path] IN
    /\ req[r].pc = "read" /\ text # NoFile /\ Len(req[r].got) < Len(text)
    /\ req' = [req EXCEPT ![r].got = Append(@, text[Len(@) + 1])]
    /\ UNCHANGED <<file, dir, temp, before, crossed, torn>>

\* It cannot be read, or is no text.
ReadFails(r) ==
    /\ req[r].pc = "read" /\ Go(r, "failed")
    /\ UNCHANGED <<file, dir, temp, before, crossed, torn>>

\* Mutant of AtEnd: a piece that comes alone is taken for the last.
AtEndSoon(r) == req[r].got # <<>> \/ file[req[r].path] = <<>>

AtEnd(r) == Len(req[r].got) >= Len(file[req[r].path])

LineEnds == {"lf", "crlf"}
\* A file opened as text is read with single newlines; the output of cat is not.
Plain(text, sudo) == [i \in DOMAIN text |-> IF text[i] = "crlf" /\ ~sudo THEN "lf" ELSE text[i]]
\* splitlines, a slice and a join: the place of a line, and what of it is kept.
LineOf(text, i) == Cardinality({j \in 1..(i - 1) : text[j] \in LineEnds})
Joined(text, range) ==
    LET line(i) == LineOf(text, i)
        ends(i) == line(i) + 1 = range[2] \/ i = Len(text) IN
    FlattenSeq([i \in DOMAIN text |->
        IF line(i) < range[1] \/ line(i) >= range[2] THEN <<>>
        ELSE IF text[i] \notin LineEnds THEN <<text[i]>>
        ELSE IF ends(i) THEN <<>> ELSE <<"lf">>])
Shorten(text) == IF Len(text) > MaxLength THEN SubSeq(text, 1, MaxLength) \o <<Cut>> ELSE text

\* What a request that has read a text makes of it.
Answer(q, text) ==
    IF q.op = "download" THEN text
    ELSE IF q.range = AllLines THEN Shorten(Plain(text, q.sudo))
    ELSE Shorten(Joined(Plain(text, q.sudo), q.range))

Count(text) == Cardinality({i \in DOMAIN text : text[i] = "x"})
Replaced(text, new) == FlattenSeq([i \in DOMAIN text |-> IF text[i] = "x" THEN new ELSE <<text[i]>>])

\* There is no more to read: an answer, the lines that match, or the text to write
\* back.  A download that is not as long as declared breaks off.
EndOfFile(r) ==
    LET answer == Answer(req[r], req[r].got) IN
    /\ req[r].pc = "read" /\ file[req[r].path] # NoFile /\ AtEnd(r)
    /\ CASE req[r].op = "replace" /\ Count(answer) > 0 ->
                req' = [req EXCEPT ![r].body = Replaced(answer, req[r].text), ![r].n = Count(answer),
                                   ![r].pc = IF req[r].sudo THEN "temp" ELSE "open"]
         [] req[r].op = "download" /\ Len(req[r].got) # req[r].n -> Go(r, "failed")
         [] OTHER -> req' = [req EXCEPT ![r].got = answer, ![r].n = Count(answer), ![r].pc = "done"]
    /\ UNCHANGED <<file, dir, temp, before, crossed, torn>>

(* write_file with sudo: a temporary file, a command that copies it, and    *)
(* its removal.  Without sudo: the directory, then open and write in a      *)
(* thread, as upload_file does with its chunks.                             *)

\* One step: no other part of the service reads the temporary file.
Temp(r) ==
    /\ req[r].pc = "temp" /\ temp' = req[r].body /\ Go(r, "cat")
    /\ UNCHANGED <<file, dir, before, crossed, torn>>

TempFails(r) ==
    /\ req[r].pc = "temp" /\ Go(r, "failed")
    /\ temp' \in {temp} \cup {SubSeq(req[r].body, 1, k) : k \in 0..Len(req[r].body)}
    /\ UNCHANGED <<file, dir, before, crossed, torn>>

\* Mutant of Onto: a replacement is appended too.
OntoAll(r) == req[r].op # "write"

Onto(r) == req[r].op = "append"

\* The file is opened, here or by the shell: made if need be and, but to append,
\* emptied; cat then looks for the temporary file.
Open(r) ==
    LET p == req[r].path IN
    /\ \/ req[r].pc = "open" /\ dir' = dir \cup {p} /\ Go(r, "put")
       \/ /\ req[r].pc = "cat" /\ p \in dir /\ UNCHANGED dir
          /\ Go(r, IF temp = NoFile THEN "failed" ELSE "copy")
    /\ Becomes(r, IF Onto(r) /\ file[p] # NoFile THEN file[p] ELSE <<>>)
    /\ UNCHANGED <<temp, before, crossed>>

\* No directory, or no permission.
OpenFails(r) ==
    /\ \/ req[r].pc = "open" /\ dir' \in {dir, dir \cup {req[r].path}}
       \/ req[r].pc = "cat" /\ UNCHANGED dir
    /\ Go(r, "failed")
    /\ UNCHANGED <<file, temp, before, crossed, torn>>

Source(r) == IF req[r].pc = "put" THEN req[r].body
             ELSE IF req[r].src = NoFile THEN temp ELSE req[r].src
Over(old, i, unit) ==
    [j \in 1..(IF i > Len(old) THEN i ELSE Len(old)) |->
        IF j = i THEN unit ELSE IF j <= Len(old) THEN old[j] ELSE Hole]
Laid(r, unit) == LET old == file[req[r].path] IN
                 IF Onto(r) THEN Append(old, unit) ELSE Over(old, req[r].at + 1, unit)

\* The next piece is written, at the end or where the last one ended.
Put(r) ==
    /\ req[r].pc \in {"put", "copy"} /\ req[r].at < Len(Source(r))
    /\ req' = [req EXCEPT ![r].at = @ + 1]
    /\ Becomes(r, Laid(r, Source(r)[req[r].at + 1]))
    /\ UNCHANGED <<dir, temp, before, crossed>>

PutEnds(r) ==
    /\ req[r].pc \in {"put", "copy"} /\ req[r].at >= Len(Source(r))
    /\ Go(r, IF req[r].pc = "put" THEN "done" ELSE "unlink")
    /\ UNCHANGED <<file, dir, temp, before, crossed, torn>>

\* The text cannot be encoded, the disk is full, the upload or cat breaks off.
PutFails(r) ==
    /\ req[r].pc \in {"put", "copy"} /\ Go(r, "failed")
    /\ UNCHANGED <<file, dir, temp, before, crossed, torn>>

\* A cat that has the temporary file open goes on reading it.
Unlink(r) ==
    /\ req[r].pc = "unlink" /\ temp' = NoFile
    /\ req' = [q \in Requests |->
                 IF q = r THEN [req[q] EXCEPT !.pc = IF temp = NoFile THEN "failed" ELSE "done"]
                 ELSE IF req[q].pc = "copy" /\ req[q].src = NoFile THEN [req[q] EXCEPT !.src = temp]
                 ELSE req[q]]
    /\ UNCHANGED <<file, dir, before, crossed, torn>>

FindByName(r) ==
    /\ req[r].pc = "glob"
    /\ req' = [req EXCEPT ![r].pc = IF dir = {} THEN "missing" ELSE "done",
                          ![r].n = Cardinality({p \in Paths : file[p] # NoFile})]
    /\ UNCHANGED <<file, dir, temp, before, crossed, torn>>

\* The requests left over: nothing more to come.
Done == (\A r \in Requests : req[r].pc # "idle" /\ ~Under(r)) /\ UNCHANGED vars

Next ==
    \/ Done
    \/ \E r \in Requests :
        \/ \E op \in Ops, p \in Paths, sudo \in SudoUse, text \in Texts, range \in Ranges \cup {AllLines} :
              (text = <<>> \/ op \in Writing) /\ (range = AllLines \/ op = "read")
              /\ Accept(r, op, p, sudo, text, range)
        \/ Check(r) \/ Piece(r) \/ EndOfFile(r) \/ ReadFails(r) \/ Temp(r) \/ TempFails(r)
        \/ Open(r) \/ OpenFails(r) \/ Put(r) \/ PutEnds(r) \/ PutFails(r) \/ Unlink(r) \/ FindByName(r)

Spec == Init /\ [][Next]_vars

(***************************************************************************)
(* Properties                                                              *)
(***************************************************************************)

\* Type correctness: a file that is there has a directory.
Request == [pc : {"idle", "check", "read", "open", "put", "temp", "cat", "copy", "unlink", "glob",
                  "done", "failed", "missing"},
            op : Ops \cup {"find"}, path : Paths, sudo : BOOLEAN, range : Ranges \cup {AllLines},
            text : Texts, got : Text, body : Text, src : {NoFile} \cup Text, at : Nat, n : Nat]
TypeOK ==
    /\ file \in [Paths -> {NoFile} \cup Text]
    /\ dir \subseteq Paths /\ \A p \in Paths : file[p] # NoFile => p \in dir
    /\ temp \in {NoFile} \cup Text
    /\ req \in [Requests -> Request]
    /\ before \in [Requests -> {NoFile} \cup Text]
    /\ crossed \subseteq Requests /\ torn \subseteq Requests

OldText(r) == IF before[r] = NoFile THEN <<>> ELSE before[r]

\* What a request is to make of its file: a replacement goes by what is read.
Wanted(r) == LET old == Plain(OldText(r), req[r].sudo) IN
             CASE req[r].op \in {"write", "upload"} -> req[r].text
               [] req[r].op = "append" -> OldText(r) \o req[r].text
               [] OTHER -> IF Count(old) = 0 THEN OldText(r) ELSE Replaced(old, req[r].text)
Answers(r, pcs) == Under(r) /\ req'[r].pc \in pcs

\* A writer that no other one crosses, whichever requests read meanwhile, has made of
\* the file what it promises when it is answered with success, whatever its path
\* through reads, temporary files and chunks.  With an error the file is as it was or
\* the beginning of what was wanted, and no append has cost any of the old text
\* (write_file, str_replace, upload_file).  A text longer than max_length is not
\* replaced in (see ReplaceKeepsTheRest).
AnsweredAsAsked ==
    [][\A r \in Requests : LET now == file'[req[r].path] IN
         /\ Writer(r) /\ r \notin crossed
         /\ req[r].op = "replace" => Len(OldText(r)) <= MaxLength
         => /\ Answers(r, {"done"}) => now = Wanted(r)
            /\ Answers(r, {"failed", "missing"}) =>
                  \/ now = before[r]
                  \/ IsPrefix(now, Wanted(r)) /\ (req[r].op = "append" => IsPrefix(OldText(r), now))]_vars

\* What the file of a reader was when it was accepted, or what a writer is making of
\* it, has this unit here.
Aim(w) == (IF req[w].op = "append" THEN OldText(w) ELSE <<>>) \o req[w].body
Meant(r, i, unit) ==
    \/ i \in DOMAIN OldText(r) /\ OldText(r)[i] = unit
    \/ \E w \in Requests : /\ req[w].op \in Writing /\ req[w].path = req[r].path
                           /\ i \in DOMAIN Aim(w) /\ Aim(w)[i] = unit

\* A reader beside the ones that write: as long as its file only grows it answers
\* from a text the file has at that moment, however many pieces it read it in; and
\* what it read while writers emptied and refilled it, one at a time, is still made of
\* units in the places they had or were meant for.
ReadsWhatIsThere ==
    [][\A r \in Requests : LET p == req[r].path IN
         req[r].op \in Reading /\ Answers(r, {"done"}) =>
           /\ r \notin torn => req'[r].got = Answer(req[r], file[p])
           /\ r \notin crossed => \A i \in DOMAIN req[r].got : Meant(r, i, req[r].got[i])]_vars

\* "Replace string in file": the units that are not replaced stay, in their order.
Rest(text) == SelectSeq(text, LAMBDA u : u # "x")
Holds(text, part) ==
    \E at \in [DOMAIN part -> DOMAIN text] :
        \A i, j \in DOMAIN part : text[at[i]] = part[i] /\ (i < j => at[i] < at[j])
ReplaceKeepsTheRest ==
    [][\A r \in Requests : req[r].op = "replace" /\ r \notin crossed /\ Answers(r, {"done"}) =>
            Holds(file'[req[r].path], Rest(OldText(r)))]_vars

\* "Content to write": a file only one request writes holds that request's text.
Touches(q, p) == req[q].pc # "idle" /\ req[q].path = p
OwnText ==
    \A r \in Requests :
        /\ req[r].pc = "done" /\ req[r].op = "write"
        /\ \A q \in Requests \ {r} : ~Touches(q, req[r].path)
        => file[req[r].path] = req[r].text

=============================================================================
