----------------------------- MODULE ClawLifecycle -----------------------------
(***************************************************************************)
(* The claw of one user: the document that describes it and the requests    *)
(* and background tasks that read it, wait, and write it back: create and    *)
(* provision (ClawDomainService.prepare_claw_for_creation,                   *)
(* provision_claw_instance), the look that expires or stops it (get_claw),   *)
(* the API key, deletion, and a chat as far as the messages it appends.      *)
(*                                                                         *)
(* A step is one command to MongoDB or Docker and the code up to the next    *)
(* one.  Document.save of the ODM is an upsert of the whole document by the  *)
(* key of the one that was found, and user_id is unique.                     *)
(***************************************************************************)
EXTENDS Naturals, Sequences, FiniteSets

CONSTANTS
    Creates, Gets, Keys, Deletes, Chats,   \* the requests, by kind
    MayCrash                               \* whether the backend may be lost

Requests == Creates \cup Gets \cup Keys \cup Deletes \cup Chats

ASSUME ClawAssumption ==
    /\ Creates \cap (Gets \cup Keys \cup Deletes \cup Chats) = {}
    /\ Gets \cap (Keys \cup Deletes \cup Chats) = {}
    /\ Keys \cap (Deletes \cup Chats) = {} /\ Deletes \cap Chats = {}
    /\ IsFiniteSet(Requests)
    /\ MayCrash \in BOOLEAN

VARIABLES
    doc,        \* the ClawDocument of the user
    live,       \* the containers that exist, by the id of their claw
    ids,        \* claw ids given out so far
    pc,         \* per request: the command that comes next
    claw,       \* per request: its Claw object
    found,      \* per request: the document append_message or delete found
    todo,       \* per request: the messages it has still to append
    stage,      \* per request: "request", "provision", or "failed" (its handler)
    readied,    \* claws whose container has answered a health check (history)
    removed     \* claws whose document was deleted (history)

locals == <<claw, found, todo, stage>>
vars   == <<doc, live, ids, pc, locals, readied, removed>>

-----------------------------------------------------------------------------
Id      == 1 .. Cardinality(Creates \cup Keys)
Status  == {"creating", "running", "stopped", "error"}
Message == Requests \X {"user", "assistant", "attachments", "ready"}
Claw    == [id : Id, status : Status, url : BOOLEAN, messages : SUBSET Message]
NoClaw  == [id |-> 0, status |-> "none", url |-> FALSE, messages |-> {}]

NewClaw(id, status) == [id |-> id, status |-> status, url |-> FALSE, messages |-> {}]

TypeOK ==
    /\ doc \in Claw \cup {NoClaw}
    /\ live \in SUBSET Id
    /\ ids \in 0 .. Cardinality(Creates \cup Keys)
    /\ pc \in [Requests -> {"start", "insert", "find", "save", "boot", "ready", "health",
                            "appendFind", "appendSave", "stream", "deleteFind",
                            "delete", "done"}]
    /\ claw \in [Requests -> Claw \cup {NoClaw}]
    /\ found \in [Requests -> Claw \cup {NoClaw}]
    /\ todo \in [Requests -> Seq(Message)]
    /\ stage \in [Requests -> {"request", "provision", "failed"}]
    /\ readied \in SUBSET Id
    /\ removed \in SUBSET Id

Init ==
    /\ doc = NoClaw
    /\ live = {}
    /\ ids = 0
    /\ pc = [p \in Requests |-> "start"]
    /\ claw = [p \in Requests |-> NoClaw]
    /\ found = [p \in Requests |-> NoClaw]
    /\ todo = [p \in Requests |-> <<>>]
    /\ stage = [p \in Requests |-> "request"]
    /\ readied = {}
    /\ removed = {}

-----------------------------------------------------------------------------
Goto(p, at)   == pc' = [pc EXCEPT ![p] = at]
SetClaw(p, c) == claw' = [claw EXCEPT ![p] = c]

\* Mutant of Raise: a status the model of the claw does not have.
RaiseFailed(p) ==
    /\ claw' = [claw EXCEPT ![p].status = "failed"]
    /\ Goto(p, "done")
    /\ UNCHANGED stage

\* Mutant of Raise: the error status is not stored.
RaiseQuietly(p) == Goto(p, "done") /\ UNCHANGED <<stage, claw>>

\* An exception: provision_claw_instance stores ERROR, and gives up if even
\* that raises; anything else ends the request.
Raise(p) ==
    IF stage[p] = "provision"
    THEN /\ stage' = [stage EXCEPT ![p] = "failed"]
         /\ claw' = [claw EXCEPT ![p].status = "error"]
         /\ Goto(p, "find")
    ELSE Goto(p, "done") /\ UNCHANGED <<stage, claw>>

\* doc.save(): its outcome when the document d was found earlier.
Upserts(d) == doc.id \in {0, d.id}

-----------------------------------------------------------------------------
(* The first command of every request: get_by_user_id *)

Fresh(p, status, at) ==
    /\ ids' = ids + 1
    /\ SetClaw(p, NewClaw(ids + 1, status))
    /\ Goto(p, at)

LoadCreate(p) ==
    /\ p \in Creates /\ pc[p] = "start"
    /\ \/ doc = NoClaw /\ Fresh(p, "creating", "insert")
       \/ doc.status = "running" /\ Goto(p, "done") /\ UNCHANGED <<ids, claw>>
       \/ /\ doc.status \notin {"none", "running"}
          /\ SetClaw(p, NewClaw(doc.id, "creating"))
          /\ Goto(p, "find")
          /\ UNCHANGED ids
    /\ UNCHANGED <<doc, live, found, todo, stage, readied, removed>>

\* get_or_create_api_key
LoadKey(p) ==
    /\ p \in Keys /\ pc[p] = "start"
    /\ \/ doc = NoClaw /\ Fresh(p, "stopped", "insert")
       \/ doc # NoClaw /\ Goto(p, "done") /\ UNCHANGED <<ids, claw>>
    /\ UNCHANGED <<doc, live, found, todo, stage, readied, removed>>

\* get_claw: a RUNNING claw is deleted when expired, else its health checked.
LoadGet(p) ==
    /\ p \in Gets /\ pc[p] = "start"
    /\ SetClaw(p, doc)
    /\ \/ doc.status # "running" /\ Goto(p, "done")
       \/ doc.status = "running" /\ Goto(p, "deleteFind")
       \/ doc.status = "running" /\ Goto(p, IF doc.url THEN "health" ELSE "done")
    /\ UNCHANGED <<doc, live, ids, found, todo, stage, readied, removed>>

LoadDelete(p) ==
    /\ p \in Deletes /\ pc[p] = "start"
    /\ Goto(p, IF doc = NoClaw THEN "done" ELSE "deleteFind")
    /\ UNCHANGED <<doc, live, ids, locals, readied, removed>>

\* send_message: validate_claw_for_chat, then the user's message.
LoadChat(p) ==
    /\ p \in Chats /\ pc[p] = "start"
    /\ IF doc.url /\ doc.status = "running"
       THEN todo' = [todo EXCEPT ![p] = <<<<p, "user">>>>] /\ Goto(p, "appendFind")
       ELSE UNCHANGED todo /\ Goto(p, "done")
    /\ UNCHANGED <<doc, live, ids, claw, found, stage, readied, removed>>

-----------------------------------------------------------------------------
(* ClawRepository *)

\* Mutant of Insert: the duplicate key goes unnoticed.
InsertAnyway(p) ==
    /\ pc[p] = "insert"
    /\ doc' = IF doc = NoClaw THEN claw[p] ELSE doc
    /\ Goto(p, IF p \in Creates THEN "boot" ELSE "done")
    /\ UNCHANGED <<live, ids, locals, readied, removed>>

Insert(p) ==
    /\ pc[p] = "insert"
    /\ \/ /\ doc = NoClaw
          /\ doc' = claw[p]
          /\ Goto(p, IF p \in Creates THEN "boot" ELSE "done")
       \/ doc # NoClaw /\ Goto(p, "done") /\ UNCHANGED doc
    /\ UNCHANGED <<live, ids, locals, readied, removed>>

\* update: the document is found by the claw's id ...
Find(p) ==
    /\ pc[p] = "find"
    /\ IF doc.id = claw[p].id
       THEN Goto(p, "save") /\ UNCHANGED <<claw, stage>>
       ELSE Raise(p)
    /\ UNCHANGED <<doc, live, ids, found, todo, readied, removed>>

\* Where a request goes on after update.
AfterSave(p) ==
    CASE stage[p] = "provision"                 -> "appendFind"
      [] stage[p] = "request" /\ p \in Creates  -> "boot"
      [] OTHER                                  -> "done"

\* ... and takes every field of it, its messages too.
Save(p) ==
    /\ pc[p] = "save"
    /\ \/ /\ Upserts(claw[p])
          /\ doc' = claw[p]
          /\ Goto(p, AfterSave(p))
          /\ todo' = IF stage[p] = "provision"
                     THEN [todo EXCEPT ![p] = <<<<p, "ready">>>>] ELSE todo
          /\ UNCHANGED <<claw, stage>>
       \/ ~Upserts(claw[p]) /\ Raise(p) /\ UNCHANGED <<doc, todo>>
    /\ UNCHANGED <<live, ids, found, readied, removed>>

\* Where a request goes on after its last append.
AfterAppend(p) == IF Head(todo[p])[2] = "user" THEN "stream"
                  ELSE IF Tail(todo[p]) # <<>> THEN "appendFind" ELSE "done"

Appended(p, at) == todo' = [todo EXCEPT ![p] = Tail(@)] /\ Goto(p, at)

AppendFind(p) ==
    /\ pc[p] = "appendFind"
    /\ IF doc = NoClaw
       THEN Appended(p, AfterAppend(p)) /\ UNCHANGED found
       ELSE /\ found' = [found EXCEPT ![p] =
                           [doc EXCEPT !.messages = @ \cup {Head(todo[p])}]]
            /\ Goto(p, "appendSave")
            /\ UNCHANGED todo
    /\ UNCHANGED <<doc, live, ids, claw, stage, readied, removed>>

AppendSave(p) ==
    /\ pc[p] = "appendSave"
    /\ \/ /\ Upserts(found[p])
          /\ doc' = found[p]
          /\ Appended(p, AfterAppend(p))
          /\ UNCHANGED <<claw, stage>>
       \/ ~Upserts(found[p]) /\ Raise(p) /\ UNCHANGED <<doc, todo>>
    /\ UNCHANGED <<live, ids, found, readied, removed>>

\* delete_by_user_id
DeleteFind(p) ==
    /\ pc[p] = "deleteFind"
    /\ found' = [found EXCEPT ![p] = doc]
    /\ Goto(p, IF doc = NoClaw THEN "done" ELSE "delete")
    /\ UNCHANGED <<doc, live, ids, claw, todo, stage, readied, removed>>

Delete(p) ==
    /\ pc[p] = "delete"
    /\ doc' = IF doc.id = found[p].id THEN NoClaw ELSE doc
    /\ removed' = removed \cup {found[p].id}
    /\ Goto(p, "done")
    /\ UNCHANGED <<live, ids, locals, readied>>

-----------------------------------------------------------------------------
(* provision_claw_instance, the health checks and the chat itself *)

\* Mutant of Boot: the claw counts as ready as soon as its container runs.
BootUnready(p) ==
    /\ pc[p] = "boot"
    /\ live' = live \cup {claw[p].id}
    /\ claw' = [claw EXCEPT ![p].url = TRUE, ![p].status = "running"]
    /\ stage' = [stage EXCEPT ![p] = "provision"]
    /\ Goto(p, "find")
    /\ UNCHANGED <<doc, ids, found, todo, readied, removed>>

\* The container is named after the claw: a second one is a conflict.  It may
\* come without an address.
Boot(p) ==
    /\ pc[p] = "boot"
    /\ \/ /\ claw[p].id \notin live
          /\ live' = live \cup {claw[p].id}
          /\ stage' = [stage EXCEPT ![p] = "provision"]
          /\ \E address \in BOOLEAN :
               /\ claw' = [claw EXCEPT ![p].url = address,
                                       ![p].status = IF address THEN @ ELSE "running"]
               /\ Goto(p, IF address THEN "ready" ELSE "find")
       \* The conflict, or Docker fails, or fails to describe the container it runs.
       \/ /\ stage' = [stage EXCEPT ![p] = "failed"]
          /\ claw' = [claw EXCEPT ![p].status = "error"]
          /\ Goto(p, "find")
          /\ live' \in {live, live \cup {claw[p].id}}
    /\ UNCHANGED <<doc, ids, found, todo, readied, removed>>

\* wait_for_ready
Ready(p) ==
    /\ pc[p] = "ready"
    /\ \/ /\ claw[p].id \in live
          /\ readied' = readied \cup {claw[p].id}
          /\ claw' = [claw EXCEPT ![p].status = "running"]
          /\ Goto(p, "find")
          /\ UNCHANGED stage
       \/ Raise(p) /\ UNCHANGED readied
    /\ UNCHANGED <<doc, live, ids, found, todo, removed>>

\* get_claw's check, which may fail with the container alive.
Health(p) ==
    /\ pc[p] = "health"
    /\ \/ claw[p].id \in live /\ Goto(p, "done") /\ UNCHANGED claw
       \/ claw' = [claw EXCEPT ![p].status = "stopped"] /\ Goto(p, "find")
    /\ UNCHANGED <<doc, live, ids, found, todo, stage, readied, removed>>

\* process_chat_stream: what was received before the stream ended is appended.
Stream(p) ==
    /\ pc[p] = "stream"
    /\ \E answer \in {<<>>, <<"assistant">>, <<"attachments">>, <<"attachments", "assistant">>} :
         /\ todo' = [todo EXCEPT ![p] = [i \in DOMAIN answer |-> <<p, answer[i]>>]]
         /\ Goto(p, IF answer = <<>> THEN "done" ELSE "appendFind")
    /\ UNCHANGED <<doc, live, ids, claw, found, stage, readied, removed>>

-----------------------------------------------------------------------------
\* Containers end with their own time to live, and are removed by Docker.
ContainerEnds ==
    /\ \E id \in live : live' = live \ {id}
    /\ UNCHANGED <<doc, ids, pc, locals, readied, removed>>

\* The backend is lost, with the requests and tasks it was working on.
Crash ==
    /\ MayCrash
    /\ pc' = [p \in Requests |-> IF pc[p] = "start" THEN "start" ELSE "done"]
    /\ UNCHANGED <<doc, live, ids, locals, readied, removed>>

Load(p) == LoadCreate(p) \/ LoadKey(p) \/ LoadGet(p) \/ LoadDelete(p) \/ LoadChat(p)

GoOn(p) ==
    \/ Insert(p) \/ Find(p) \/ Save(p) \/ AppendFind(p) \/ AppendSave(p)
    \/ DeleteFind(p) \/ Delete(p) \/ Boot(p) \/ Ready(p) \/ Health(p) \/ Stream(p)

Next == (\E p \in Requests : Load(p) \/ GoOn(p)) \/ ContainerEnds \/ Crash

\* A request or task that has begun goes on; nobody need make a request.
Fairness == \A p \in Requests : WF_vars(GoOn(p))

Spec     == Init /\ [][Next]_vars

-----------------------------------------------------------------------------
(* Properties *)

\* However create requests race with each other, with deletions and with a loss
\* of the backend, a container belongs to the claw the user has, unless that
\* claw was deleted (delete_claw leaves the container alive).
NoStrayContainer == \A c \in live \ removed : doc.id = c

\* A claw is offered for chat only once its own container has answered, even
\* when older provisioning tasks and stale saves write to the document.
OnlyReadyRuns == doc.status = "running" /\ doc.url => doc.id \in readied

\* With one create request, a claw that is being created does not stay so:
\* whatever looks at it, chats or deletes it, its provisioning has the last word.
CreatingSettles == doc.status = "creating" ~> doc.status # "creating"

-----------------------------------------------------------------------------
(* Statements of the repository that the code does not keep *)

\* prepare_claw_for_creation: "Prepare a Claw record for creation (or return
\* existing running one)".  No create request takes RUNNING from a claw.
ReturnsRunning ==
    [][\A p \in Creates :
         pc[p] # pc'[p] /\ doc.status = "running" /\ doc'.id = doc.id
            => doc'.status = "running"]_vars

\* append_message: "Append a message to the claw's chat history".  A message
\* that was appended stays as long as the claw does.
HistoryKept ==
    [][doc # NoClaw /\ doc'.id = doc.id => doc.messages \subseteq doc'.messages]_vars
=============================================================================
