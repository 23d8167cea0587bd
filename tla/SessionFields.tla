---------------------------- MODULE SessionFields ----------------------------
(***************************************************************************)
(* The fields of a session document that the session list and the shared   *)
(* page show: the unread count, the shared flag and the files, written by  *)
(* the routes, by the chats that create tasks and watch them, and by the   *)
(* tasks' runners (session_routes.py, agent_service.py,                    *)
(* agent_domain_service.py, agent_task_runner.py).                         *)
(*                                                                         *)
(* A route changes one field in one command.  A chat that needs a task     *)
(* writes back the whole document it found, up to three times, while a     *)
(* sandbox is created.  Each chat makes at most one task; task c is the    *)
(* one chat c made.  What the tasks do besides is AgentSession's subject.  *)
(***************************************************************************)
EXTENDS Integers, Sequences, FiniteSets, TLC

CONSTANTS Chats, Paths,
          Faults,     \* an upload may fail
          MaxEvents,  \* messages and files of a runner
          MaxFlips,   \* requests to share or unshare
          None

SessionFieldsAssumption ==
    /\ Faults \in BOOLEAN
    /\ MaxEvents \in Nat /\ MaxFlips \in Nat /\ None \notin Chats /\ IsFiniteSet(Chats)

VARIABLES
    doc,     \* the document: unread, shared, files, status, task
    chat,    \* the chat requests
    run,     \* the runners
    out,     \* the output streams: "message" or "done"
    asked,   \* history: what the last answered request left shared as
    flips,   \* requests to share or unshare
    covered, \* history: task -> the events that a chat read to a closing one
    stale,   \* history: chats that hold a document older than what is covered
    revived, \* history: one of them wrote its unread count back, and it stands
    listed,  \* history: the paths add_file ever listed
    today    \* chats accepted today, of the one user there is

vars == <<doc, chat, run, out, asked, flips, covered, stale, revived, listed, today>>

Symmetry == Permutations(Chats)

Fresh == [unread |-> 0, shared |-> FALSE, files |-> {}, status |-> "pending", task |-> None]
NoChat == [pc |-> "idle", snap |-> Fresh, task |-> None, at |-> 0]
NoRun == [pc |-> "off", left |-> 0, path |-> None, old |-> None]

Init == /\ doc = Fresh
        /\ chat = [c \in Chats |-> NoChat]
        /\ run = [c \in Chats |-> NoRun] /\ out = [c \in Chats |-> <<>>]
        /\ asked = FALSE /\ flips = 0
        /\ covered = [c \in Chats |-> 0] /\ stale = {} /\ revived = FALSE
        /\ listed = {} /\ today = 0

Creating(c) == chat[c].pc \in {"sandbox", "browser", "create"}

\* update_one of one field, or save() of a document found earlier.
Reset     == doc' = [doc EXCEPT !.unread = 0] /\ revived' = FALSE
Update(d) == doc' = d /\ UNCHANGED revived
Save(c,d) == doc' = d /\ revived' = (c \in stale)
Untouched == UNCHANGED <<doc, revived>>

(* The shared flag: two routes, each a test that the session is there and   *)
(* one update of the field.                                                 *)

Share(on) ==
    /\ flips < MaxFlips
    /\ flips' = IF on = doc.shared /\ on = asked THEN flips ELSE flips + 1
    /\ Update([doc EXCEPT !.shared = on]) /\ asked' = on
    /\ UNCHANGED <<chat, run, out, covered, stale, listed, today>>

(* The unread count: also reset by the list's own request.                  *)

ClearUnread ==
    /\ doc.unread > 0 /\ Reset
    /\ UNCHANGED <<chat, run, out, asked, flips, covered, stale, listed, today>>

(* A chat with a message.  The route charges a credit to the document of    *)
(* the caller; get_current_user makes every caller the user "anonymous",    *)
(* and no registration gives a document that id.                            *)

Limit == 1                           \* DAILY_CREDIT_LIMIT
Documents == {}                      \* of a user with the caller's id
HasCredits == Documents = {} \/ today < Limit

Find(c) ==
    /\ chat[c].pc = "idle" /\ HasCredits /\ today' = today + 1
    /\ chat' = [chat EXCEPT ![c] =
          IF doc.status # "running" THEN [NoChat EXCEPT !.pc = "sandbox", !.snap = doc]
          ELSE [NoChat EXCEPT !.task = doc.task,
                              !.pc = IF doc.task # None /\ run[doc.task].pc # "off"
                                     THEN "watch" ELSE "leave"]]
    /\ stale' = IF revived THEN stale \cup {c} ELSE stale \ {c}
    /\ Untouched /\ UNCHANGED <<run, out, asked, flips, covered, listed>>

\* A new sandbox is saved at once; an old one is only looked up.
Sandbox(c) ==
    /\ chat[c].pc = "sandbox"
    /\ chat' = [chat EXCEPT ![c].pc = "browser"]
    /\ Save(c, chat[c].snap) \/ Untouched
    /\ UNCHANGED <<run, out, asked, flips, covered, stale, listed, today>>

Browser(c) ==
    /\ chat[c].pc = "browser"
    /\ \/ Save(c, chat[c].snap) /\ chat' = [chat EXCEPT ![c].pc = "create"]
       \/ Untouched /\ chat' = [chat EXCEPT ![c] = [NoChat EXCEPT !.pc = "leave"]]  \* no browser
    /\ UNCHANGED <<run, out, asked, flips, covered, stale, listed, today>>

Create(c) ==
    /\ chat[c].pc = "create"
    /\ Save(c, [chat[c].snap EXCEPT !.task = c])
    /\ run' = [run EXCEPT ![c] = [NoRun EXCEPT !.pc = "start", !.left = MaxEvents]]
    /\ chat' = [chat EXCEPT ![c] = [NoChat EXCEPT !.pc = "watch", !.task = c]]
    /\ UNCHANGED <<out, asked, flips, covered, stale, listed, today>>

\* An event is read: the count is reset, then the event goes to the client.
Read(c) ==
    LET t == chat[c].task IN
    /\ chat[c].pc = "watch" /\ chat[c].at < Len(out[t])
    /\ Reset
    /\ chat' = [chat EXCEPT ![c].at = @ + 1,
                            ![c].pc = IF out[t][chat[c].at + 1] = "done" THEN "leave" ELSE "watch"]
    /\ UNCHANGED <<run, out, asked, flips, covered, stale, listed, today>>

\* The client goes away, or the task is done.
Quit(c) ==
    /\ chat[c].pc = "watch" /\ chat' = [chat EXCEPT ![c].pc = "leave"]
    /\ Untouched /\ UNCHANGED <<run, out, asked, flips, covered, stale, listed, today>>

\* The finally clause resets the count once more.
Leave(c) ==
    LET t == chat[c].task  n == chat[c].at IN
    /\ chat[c].pc = "leave" /\ chat' = [chat EXCEPT ![c] = [NoChat EXCEPT !.pc = "done"]]
    /\ Reset
    /\ IF n > 0 /\ out[t][n] = "done" /\ n > covered[t]
       THEN covered' = [covered EXCEPT ![t] = n] /\ stale' = {d \in Chats : Creating(d)}
       ELSE UNCHANGED <<covered, stale>>
    /\ UNCHANGED <<run, out, asked, flips, listed, today>>

(* A runner: messages are published and counted, files are synchronised.    *)

Step(r, pc, next) == run[r].pc = pc /\ run' = [run EXCEPT ![r].pc = next]
Synced(r, pc) == /\ run[r].pc = pc
                 /\ run' = [run EXCEPT ![r] = [NoRun EXCEPT !.pc = "flow", !.left = run[r].left]]

Begin(r) == /\ Step(r, "start", "flow") /\ Update([doc EXCEPT !.status = "running"])
            /\ UNCHANGED <<chat, out, asked, flips, covered, stale, listed, today>>

Publish(r) ==
    /\ run[r].pc = "flow" /\ run[r].left > 0
    /\ out' = [out EXCEPT ![r] = Append(@, "message")]
    /\ run' = [run EXCEPT ![r].pc = "count", ![r].left = @ - 1]
    /\ Untouched /\ UNCHANGED <<chat, asked, flips, covered, stale, listed, today>>

Increment(r) == /\ Step(r, "count", "flow") /\ Update([doc EXCEPT !.unread = @ + 1])
                /\ UNCHANGED <<chat, out, asked, flips, covered, stale, listed, today>>

\* Mutant of Close: the end does not wait for the count to be incremented.
CloseEarly(r) == /\ run[r].pc \in {"flow", "count"}
                 /\ run' = [run EXCEPT ![r].pc = IF @ = "count" THEN "count" ELSE "settle"]
                 /\ out' = [out EXCEPT ![r] = Append(@, "done")]
                 /\ Len(out[r]) <= MaxEvents
                 /\ Untouched /\ UNCHANGED <<chat, asked, flips, covered, stale, listed, today>>

\* The flow ends with a done event, and the status is settled.
Close(r) == /\ Step(r, "flow", "settle") /\ out' = [out EXCEPT ![r] = Append(@, "done")]
            /\ Untouched /\ UNCHANGED <<chat, asked, flips, covered, stale, listed, today>>
Settle(r) == /\ Step(r, "settle", "off") /\ Update([doc EXCEPT !.status = "completed"])
             /\ UNCHANGED <<chat, out, asked, flips, covered, stale, listed, today>>

\* A file a tool wrote: looked up by its path, downloaded, the old entry removed,
\* uploaded, the new entry added.  An exception is logged; a cancellation ends
\* the runner.  The id of a file is the runner's event that uploaded it; which of
\* two entries of one path is found is left open.
Found(path) == {f \in doc.files : f.path = path}

LookUp(r) ==
    /\ run[r].pc = "flow" /\ run[r].left > 0
    /\ \E p \in Paths : \E f \in IF Found(p) = {} THEN {None} ELSE Found(p) :
         run' = [run EXCEPT ![r].pc = "remove", ![r].left = @ - 1, ![r].path = p, ![r].old = f]
    /\ Untouched /\ UNCHANGED <<chat, out, asked, flips, covered, stale, listed, today>>

Remove(r) ==
    /\ Step(r, "remove", "upload")
    /\ Update([doc EXCEPT !.files = @ \ {run[r].old}])
    /\ UNCHANGED <<chat, out, asked, flips, covered, stale, listed, today>>

Upload(r) ==
    /\ Step(r, "upload", "add")
    /\ Untouched /\ UNCHANGED <<chat, out, asked, flips, covered, stale, listed, today>>

UploadFails(r) ==
    /\ Faults /\ Synced(r, "upload")
    /\ Untouched /\ UNCHANGED <<chat, out, asked, flips, covered, stale, listed, today>>

Add(r) ==
    /\ Synced(r, "add")
    /\ Update([doc EXCEPT !.files = @ \cup {[path |-> run[r].path, by |-> r, event |-> run[r].left]}])
    /\ listed' = listed \cup {run[r].path}
    /\ UNCHANGED <<chat, out, asked, flips, covered, stale, today>>

Next ==
    \/ \E on \in BOOLEAN : Share(on)
    \/ ClearUnread
    \/ \E c \in Chats : \/ Find(c) \/ Sandbox(c) \/ Browser(c) \/ Create(c)
                        \/ Read(c) \/ Quit(c) \/ Leave(c)
    \/ \E r \in Chats : \/ Begin(r) \/ Publish(r) \/ Increment(r) \/ Close(r) \/ Settle(r)
                        \/ LookUp(r) \/ Remove(r) \/ Upload(r) \/ UploadFails(r) \/ Add(r)

Spec == Init /\ [][Next]_vars

(***************************************************************************)
(* Properties                                                              *)
(***************************************************************************)

\* Type correctness.
TypeOK ==
    /\ doc.unread \in Nat /\ doc.shared \in BOOLEAN
    /\ doc.status \in {"pending", "running", "completed"} /\ doc.task \in Chats \cup {None}
    /\ \A f \in doc.files : f.path \in Paths
    /\ \A c \in Chats : out[c] \in Seq({"message", "done"}) /\ covered[c] \in 0..Len(out[c])
    /\ stale \subseteq Chats /\ revived \in BOOLEAN

\* The count never exceeds the messages that nobody has watched to the end: a
\* chat's last reset comes after the increments of everything it read, although
\* a message is published before it is counted.  What breaks it, until the next
\* reset, is a chat that writes back the document it found before another one
\* watched a task to its end.
Owed == {x \in UNION {{c} \X DOMAIN out[c] : c \in Chats} :
            out[x[1]][x[2]] = "message" /\ x[2] > covered[x[1]]}
UnreadIsOwed == revived \/ doc.unread <= Cardinality(Owed)

\* A file listed once stays listed outside its own update ("Upload or update file").
Updating(p) == \E r \in Chats : run[r].path = p /\ run[r].pc \in {"remove", "upload", "add"}
FilesStay == \A p \in listed : Updating(p) \/ Found(p) # {}

\* "Unshare a session to make it private again": the flag is what the last
\* answered request made it.
SharedAsAsked == doc.shared = asked

\* "You can run 1 task per day."
OneTaskPerDay == today <= Limit
=============================================================================
