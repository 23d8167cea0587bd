------------------------------- MODULE ClawChat -------------------------------
(***************************************************************************)
(* The live side of a claw's chat, for one user: messages that are sent, the *)
(* background tasks that stream the answers (_process_chat), the event bus      *)
(* that hands the pieces to every open WebSocket, and the text kept of an         *)
(* answer so that a client that connects in the middle can catch up.  Meanwhile    *)
(* the claw may be deleted, by its user or because it expired, and made again.     *)
(*                                                                         *)
(* A step runs one coroutine up to its next await.  A piece of text is named by   *)
(* its message and its place in the answer.  What a client shows of an answer is   *)
(* what ClawPage makes of the events: "catchup" sets it, "text" adds to it.        *)
(***************************************************************************)
EXTENDS Naturals, Sequences, FiniteSets

CONSTANTS
    Messages,     \* messages the user sends
    Clients,      \* WebSocket connections
    None,
    MaxPieces,    \* bound: pieces of text in one answer
    StoreFails    \* whether a write of the history may fail

ChatAssumption ==
    /\ IsFiniteSet(Messages) /\ IsFiniteSet(Clients)
    /\ None \notin Messages
    /\ MaxPieces \in Nat
    /\ StoreFails \in BOOLEAN

VARIABLES
    pc,           \* per message: where its sending and its task are
    pending,      \* per message: pending_text of its _ChatState
    entry,        \* the message whose state _chat_states holds
    stored,       \* per message: the answer append_message has stored
    broken,       \* messages whose stream or storing raised
    there,        \* whether the user has a claw: the document that holds the history
    bereft,       \* messages under way when a claw was deleted (history)
    conn,         \* per client: "off", "subscribed", "open" or "closed"
    queue,        \* per client: its queue on the bus
    shown,        \* per client: the text of the answer it shows
    got           \* per client: the events it was sent, for each message (history)

clawVars   == <<there, bereft>>
chatVars   == <<pc, pending, entry, stored, broken, clawVars>>
clientVars == <<conn, queue, shown, got>>
vars       == <<chatVars, clientVars>>

-----------------------------------------------------------------------------
Text(m, i) == [type |-> "text", of |-> m, piece |-> i]
Done(m)    == [type |-> "done", of |-> m, piece |-> 0]
Error(m)   == [type |-> "error", of |-> m, piece |-> 0]

Piece == Messages \X (1 .. MaxPieces)
Event == {Text(p[1], p[2]) : p \in Piece} \cup {Done(m) : m \in Messages}
           \cup {Error(m) : m \in Messages}

TypeOK ==
    /\ pc \in [Messages -> {"idle", "append", "task", "stream", "file", "text",
                            "end", "over"}]
    /\ pending \in [Messages -> Seq(Piece)]
    /\ entry \in Messages \cup {None}
    /\ entry # None => pc[entry] \notin {"idle", "append", "task"}
    /\ stored \in [Messages -> Seq(Piece)]
    /\ broken \in SUBSET Messages
    /\ there \in BOOLEAN /\ bereft \in SUBSET Messages
    /\ conn \in [Clients -> {"off", "subscribed", "open", "closed"}]
    /\ queue \in [Clients -> Seq(Event)]
    /\ shown \in [Clients -> Seq(Piece)]
    /\ got \in [Clients -> Seq(Event)]

Init ==
    /\ pc = [m \in Messages |-> "idle"]
    /\ pending = [m \in Messages |-> <<>>]
    /\ entry = None
    /\ stored = [m \in Messages |-> <<>>]
    /\ broken = {}
    /\ there = TRUE /\ bereft = {}
    /\ conn = [c \in Clients |-> "off"]
    /\ queue = [c \in Clients |-> <<>>]
    /\ shown = [c \in Clients |-> <<>>]
    /\ got = [c \in Clients |-> <<>>]

-----------------------------------------------------------------------------
(* ClawEventBus *)

Subscribers == {c \in Clients : conn[c] \in {"subscribed", "open"}}

Publish(events) ==
    queue' = [c \in Clients |-> IF c \in Subscribers THEN queue[c] \o events ELSE queue[c]]

-----------------------------------------------------------------------------
(* send_message and _process_chat *)

Goto(m, at) == pc' = [pc EXCEPT ![m] = at]

\* validate_claw_for_chat finds a claw that runs.
Send(m) ==
    /\ pc[m] = "idle" /\ there
    /\ Goto(m, "append")
    /\ UNCHANGED <<pending, entry, stored, broken, clawVars, clientVars>>

\* The user's message is stored, or nothing is where there is no claw any more; or the
\* sending fails and no task is made.
AppendUser(m) ==
    /\ pc[m] = "append"
    /\ Goto(m, "task") \/ (StoreFails /\ Goto(m, "over"))
    /\ UNCHANGED <<pending, entry, stored, broken, clawVars, clientVars>>

Begin(m) ==
    /\ pc[m] = "task"
    /\ entry' = m
    /\ Goto(m, "stream")
    /\ UNCHANGED <<pending, stored, broken, clawVars, clientVars>>

\* A chunk of text: kept for those who come later, sent to those who are there.
Chunk(m) ==
    /\ pc[m] = "stream" /\ Len(pending[m]) < MaxPieces
    /\ LET i == Len(pending[m]) + 1 IN
         /\ pending' = [pending EXCEPT ![m] = Append(@, <<m, i>>)]
         /\ Publish(<<Text(m, i)>>)
    /\ UNCHANGED <<pc, entry, stored, broken, clawVars, conn, shown, got>>

\* Mutant of StreamEnds: the claw's own "done" is passed on.
StreamEndsAloud(m) ==
    /\ pc[m] = "stream"
    /\ Publish(<<Done(m)>>)
    /\ Goto(m, "file") \/ Goto(m, "text")
    /\ UNCHANGED <<pending, entry, stored, broken, clawVars, conn, shown, got>>

\* The claw's stream ends or breaks off, with files to store or without.
StreamEnds(m) ==
    /\ pc[m] = "stream"
    /\ Goto(m, "file") \/ Goto(m, "text")
    /\ broken' = broken \/ broken' = broken \cup {m}
    /\ UNCHANGED <<pending, entry, stored, clawVars, clientVars>>

\* With no claw, again, nothing is stored and nothing raised.
AppendFiles(m) ==
    /\ pc[m] = "file"
    /\ \/ Goto(m, "text") /\ UNCHANGED broken
       \/ StoreFails /\ Goto(m, "end") /\ broken' = broken \cup {m}
    /\ UNCHANGED <<pending, entry, stored, clawVars, clientVars>>

\* The answer is stored, unless it is empty or append_message finds no claw to store
\* it in, which it does not say.
AppendAnswer(m) ==
    /\ pc[m] = "text"
    /\ \/ stored' = (IF there THEN [stored EXCEPT ![m] = pending[m]] ELSE stored)
          /\ UNCHANGED broken
       \/ StoreFails /\ pending[m] # <<>> /\ broken' = broken \cup {m} /\ UNCHANGED stored
    /\ Goto(m, "end")
    /\ UNCHANGED <<pending, entry, clawVars, clientVars>>

\* The end of the task takes the state of the user away, whose ever it is.
Finish(m) ==
    /\ pc[m] = "end"
    /\ Publish(IF m \in broken THEN <<Error(m), Done(m)>> ELSE <<Done(m)>>)
    /\ entry' = None
    /\ Goto(m, "over")
    /\ UNCHANGED <<pending, stored, broken, clawVars, conn, shown, got>>

-----------------------------------------------------------------------------
(* delete_claw, or get_claw of one that expired; create_claw *)

UnderWay(m) == pc[m] \notin {"idle", "over"}

DeleteClaw ==
    /\ there /\ there' = FALSE
    /\ bereft' = bereft \cup {m \in Messages : UnderWay(m)}
    /\ UNCHANGED <<pc, pending, entry, stored, broken, clientVars>>

MakeClaw ==
    /\ ~there /\ there' = TRUE
    /\ UNCHANGED <<pc, pending, entry, stored, broken, bereft, clientVars>>

-----------------------------------------------------------------------------
(* claw_ws and the page *)

SetConn(c, state) == conn' = [conn EXCEPT ![c] = state]

Subscribe(c) ==
    /\ conn[c] = "off"
    /\ SetConn(c, "subscribed")
    /\ UNCHANGED <<chatVars, queue, shown, got>>

\* get_pending_content, in the first turn of the task that writes.
CatchUp(c) ==
    /\ conn[c] = "subscribed"
    /\ SetConn(c, "open")
    /\ shown' = IF entry = None THEN shown
                ELSE IF pending[entry] = <<>> THEN shown
                ELSE [shown EXCEPT ![c] = pending[entry]]
    /\ UNCHANGED <<chatVars, queue, got>>

\* What the page shows after an event: "done" ends the answer it shows.
Show(text, event) ==
    CASE event.type = "text" -> Append(text, <<event.of, event.piece>>)
      [] event.type = "done" -> <<>>
      [] OTHER               -> text

Deliver(c) ==
    /\ conn[c] = "open" /\ queue[c] # <<>>
    /\ queue' = [queue EXCEPT ![c] = Tail(@)]
    /\ got' = [got EXCEPT ![c] = Append(@, Head(queue[c]))]
    /\ shown' = [shown EXCEPT ![c] = Show(@, Head(queue[c]))]
    /\ UNCHANGED <<chatVars, conn>>

\* Mutant of Close: the bus forgets the user's other connections too.
CloseAll(c) ==
    /\ conn[c] \in {"subscribed", "open"}
    /\ SetConn(c, "closed")
    /\ queue' = [d \in Clients |-> <<>>]
    /\ UNCHANGED <<chatVars, shown, got>>

\* The client goes; the queue is unsubscribed.
Close(c) ==
    /\ conn[c] \in {"subscribed", "open"}
    /\ SetConn(c, "closed")
    /\ queue' = [queue EXCEPT ![c] = <<>>]
    /\ UNCHANGED <<chatVars, shown, got>>

Work(m) == Begin(m) \/ StreamEnds(m) \/ AppendFiles(m) \/ AppendAnswer(m) \/ Finish(m)
Chat(m) == Send(m) \/ AppendUser(m) \/ Work(m) \/ Chunk(m)
Conn(c) == Subscribe(c) \/ CatchUp(c) \/ Deliver(c) \/ Close(c)

Next ==
    \/ \E m \in Messages : Chat(m)
    \/ \E c \in Clients : Conn(c)
    \/ DeleteClaw \/ MakeClaw

Spec     == Init /\ [][Next]_vars

-----------------------------------------------------------------------------
(* Properties *)

\* What a client was sent or has in its queue.
Events(c) == got[c] \o queue[c]

\* A client that has received a piece of an answer receives every later one,
\* once and in order, whatever other answers and connections do meanwhile.
NoGaps ==
    \A c \in Subscribers, m \in Messages : \A i \in DOMAIN Events(c), p \in 1 .. MaxPieces :
        Events(c)[i] = Text(m, p) =>
            /\ p <= Len(pending[m])
            /\ \A q \in p + 1 .. Len(pending[m]) :
                 \E j \in i + 1 .. Len(Events(c)) : Events(c)[j] = Text(m, q)
            /\ \A j \in DOMAIN Events(c) : Events(c)[j] = Text(m, p) => j = i

\* A client told that an answer is done: the answer was stored, or the client told of an
\* error before, unless the claw was deleted while the message was under way.  The claw's
\* own "done" is held back until the answer is stored (_process_chat).
DoneIsStored ==
    \A c \in Clients, m \in Messages : \A i \in DOMAIN Events(c) :
        Events(c)[i] = Done(m) =>
            stored[m] = pending[m] \/ m \in bereft \/ \E j \in 1 .. i : Events(c)[j] = Error(m)

\* "Tracks an in-progress response so new SSE clients can catch up": a client
\* that has read all its events shows the text of the answer in progress.
CaughtUp ==
    \A c \in Clients, m \in Messages :
        (conn[c] = "open" /\ queue[c] = <<>> /\ pc[m] = "stream") => shown[c] = pending[m]

=============================================================================
