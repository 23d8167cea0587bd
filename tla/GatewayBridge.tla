---------------------------- MODULE GatewayBridge ----------------------------
(***************************************************************************)
(* The plugin in a claw's container: a client that keeps one connection to *)
(* the local gateway (gateway-client.js), and a bridge that sends prompts  *)
(* over it and gives the events of the runs back to the open streams       *)
(* (gateway-bridge.js, http-server.js).                                    *)
(*                                                                         *)
(* Each start of the service makes a client and a bridge; the callbacks of *)
(* every client use the bridge of the latest start (index.js).  Timers are *)
(* steps that may come at any time; the gateway accepts, refuses, ends and *)
(* forgets as it likes.                                                    *)
(***************************************************************************)
EXTENDS Naturals, FiniteSets

CONSTANTS Streams,    \* requests to /chat
          Fetches,    \* requests to /history
          MaxStarts,  \* starts of the service
          MaxConns,   \* connections of a client
          MaxPieces,  \* pieces of the text of a run
          None

GatewayAssumption == /\ MaxStarts \in Nat \ {0} /\ MaxConns \in Nat \ {0} /\ MaxPieces \in Nat
                     /\ None \notin Streams \cup Fetches
                     /\ None \notin {"done", "error", "refused", "left"}

Gens == 1..MaxStarts

VARIABLES
    cur,       \* gatewayClient and gatewayBridge of index.js: the start they are of, or 0
    starts,
    link,      \* client -> what its connection is at
    ready,     \* client -> this.ready
    conns,     \* client -> connections so far
    init,      \* bridge -> _initialized
    handlers,  \* _responseHandlers of the bridges
    requests,  \* _gwRequestMap, as the streams it leads to
    bound,     \* _runIdMap, as the streams it leads to
    stream,    \* stream -> [pc, gen, conn, told, got]
    run,       \* stream -> [state, pieces]: the gateway's run of its prompt
    fetch      \* fetch -> [state, gen, conn]

clientVars == <<cur, starts, link, ready, conns, init>>
streamVars == <<handlers, requests, bound, stream, run, fetch>>
vars == <<clientVars, streamVars>>

\* "late": closing, with the answer to the handshake still on its way.
Links == {"none", "waiting", "connecting", "open", "handshake", "ready", "closing", "late"}
Live == Links \ {"none", "waiting"}

NoStream == [pc |-> "idle", gen |-> 0, conn |-> 0, told |-> None, got |-> 0]

NoFetch == [state |-> "idle", gen |-> 0, conn |-> 0]

Init ==
    /\ cur = 0 /\ starts = 0
    /\ link = [g \in Gens |-> "none"] /\ ready = [g \in Gens |-> FALSE]
    /\ conns = [g \in Gens |-> 0] /\ init = [g \in Gens |-> FALSE]
    /\ handlers = {} /\ requests = {} /\ bound = {}
    /\ stream = [s \in Streams |-> NoStream]
    /\ run = [s \in Streams |-> [state |-> "none", pieces |-> 0]]
    /\ fetch = [f \in Fetches |-> NoFetch]

TypeOK ==
    /\ cur \in {0} \cup Gens /\ starts \in 0..MaxStarts
    /\ link \in [Gens -> Links] /\ ready \in [Gens -> BOOLEAN]
    /\ conns \in [Gens -> 0..MaxConns] /\ init \in [Gens -> BOOLEAN]
    /\ handlers \subseteq Streams /\ requests \subseteq Streams /\ bound \subseteq Streams
    /\ \A s \in Streams :
         /\ stream[s].pc \in {"idle", "resolving", "sent", "over"}
         /\ stream[s].told \in {None, "done", "error", "refused", "left"}
         /\ run[s].state \in {"none", "asked", "running", "over"}
         /\ stream[s].got \in 0..MaxPieces /\ run[s].pieces \in 0..MaxPieces

Move(g, from, to) == link[g] \in from /\ link' = [link EXCEPT ![g] = to]

\* Streams of the bridge that are told something: _cleanupByReqId takes them out
\* of all three maps.
Tell(told, what) ==
    /\ stream' = [s \in Streams |-> IF s \in told THEN [stream[s] EXCEPT !.told = what]
                                                  ELSE stream[s]]
    /\ handlers' = handlers \ told /\ requests' = requests \ told /\ bound' = bound \ told

(* The service.                                                             *)

Start ==
    /\ cur = 0 /\ starts < MaxStarts
    /\ starts' = starts + 1 /\ cur' = starts'
    /\ Move(cur', {"none"}, "connecting") /\ conns' = [conns EXCEPT ![cur'] = 1]
    /\ UNCHANGED <<ready, init, streamVars>>

\* The HTTP server takes no new requests; the streams it has stay open.
Stop ==
    /\ cur # 0 /\ cur' = 0
    /\ ready' = [ready EXCEPT ![cur] = FALSE]
    /\ link' = [link EXCEPT ![cur] = CASE @ \in {"none", "waiting"} -> "none"
                                       [] @ \in {"handshake", "late"} -> "late"
                                       [] OTHER -> "closing"]
    /\ UNCHANGED <<starts, conns, init, streamVars>>

(* The client's connection.                                                 *)

Open(g) == /\ Move(g, {"connecting"}, "open")
           /\ UNCHANGED <<cur, starts, ready, conns, init, streamVars>>

\* The challenge or the timer, whichever comes first; the other finds it sent.
SendConnect(g) == /\ Move(g, {"open"}, "handshake")
                  /\ UNCHANGED <<cur, starts, ready, conns, init, streamVars>>

\* onReady is told to the bridge of the latest start; if there is none it throws.
Accepted(g) ==
    /\ link[g] \in {"handshake", "late"}
    /\ link' = [link EXCEPT ![g] = IF @ = "late" THEN "closing" ELSE "ready"]
    /\ ready' = [ready EXCEPT ![g] = TRUE]
    /\ init' = [b \in Gens |-> init[b] \/ b = cur]
    /\ UNCHANGED <<cur, starts, conns, streamVars>>

Rejected(g) == /\ Move(g, {"handshake", "late"}, "closing")
               /\ UNCHANGED <<cur, starts, ready, conns, init, streamVars>>

ConnectTimeout(g) == /\ Move(g, {"handshake"}, "late")
                     /\ UNCHANGED <<cur, starts, ready, conns, init, streamVars>>

\* Nothing was heard for a minute: terminate() reads nothing any more.
LivenessTimeout(g) == /\ Move(g, {"open", "handshake", "ready"}, "closing")
                      /\ UNCHANGED <<cur, starts, ready, conns, init, streamVars>>

\* Mutant of Flush: only the streams whose run is known are ended.
FlushBound == handlers \cap bound

\* The 'close' event.  onClose is told to the bridge of the latest start, which
\* ends its streams; without one it throws, and only a stopped client has none.
Flush == {s \in handlers : stream[s].gen = cur}
Closed(g) ==
    /\ link[g] \in Live
    /\ link' = [link EXCEPT ![g] = IF g = cur THEN "waiting" ELSE "none"]
    /\ ready' = [ready EXCEPT ![g] = FALSE]
    /\ init' = [b \in Gens |-> init[b] /\ b # cur]
    /\ Tell(Flush, "error")
    /\ UNCHANGED <<cur, starts, conns, run, fetch>>

\* maxAttempts is 0, its default: there is always another attempt.
Reconnect(g) ==
    /\ conns[g] < MaxConns /\ conns' = [conns EXCEPT ![g] = @ + 1]
    /\ Move(g, {"waiting"}, "connecting")
    /\ UNCHANGED <<cur, starts, ready, init, streamVars>>

(* A stream: the handler is registered, files are resolved, the prompt sent. *)

IsGatewayReady(g) == ready[g] /\ init[g]

Ask(s) ==
    /\ cur # 0 /\ stream[s].pc = "idle"
    /\ IF IsGatewayReady(cur)
       THEN /\ stream' = [stream EXCEPT ![s].pc = "resolving", ![s].gen = cur]
            /\ handlers' = handlers \cup {s}
       ELSE /\ stream' = [stream EXCEPT ![s].pc = "over", ![s].told = "refused"]
            /\ UNCHANGED handlers
    /\ UNCHANGED <<clientVars, requests, bound, run, fetch>>

\* Whether the stream is still open is not asked again.
CanSend(g) == ready[g] /\ link[g] = "ready"
SendPrompt(s) ==
    LET g == stream[s].gen IN
    /\ stream[s].pc = "resolving" /\ UNCHANGED <<clientVars, fetch>>
    /\ IF CanSend(g)
       THEN /\ stream' = [stream EXCEPT ![s].pc = "sent", ![s].conn = conns[g]]
            /\ run' = [run EXCEPT ![s].state = "asked"]
            /\ requests' = requests \cup {s} /\ UNCHANGED <<handlers, bound>>
       ELSE /\ stream' = [stream EXCEPT ![s].pc = "over",
                                        ![s].told = IF @ = None THEN "error" ELSE @]
            /\ handlers' = handlers \ {s} /\ bound' = bound \ {s}
            /\ requests' = IF stream[s].told = None THEN requests \ {s} ELSE requests \cup {s}
            /\ UNCHANGED run

Leave(s) ==
    /\ stream[s].pc \in {"resolving", "sent"} /\ stream[s].told = None
    /\ Tell({s}, "left")
    /\ UNCHANGED <<clientVars, run, fetch>>

(* What the gateway says of a run; the answer to the prompt goes to the     *)
(* connection that asked, the events to the one there is.                   *)

Hears(g) == ready[g] /\ link[g] = "ready"
HearsAnswer(s) == Hears(stream[s].gen) /\ conns[stream[s].gen] = stream[s].conn /\ s \in requests
HearsEvents(s) == Hears(stream[s].gen) /\ s \in bound \cap handlers

Answer(s, accepted) ==
    /\ run[s].state = "asked"
    /\ run' = [run EXCEPT ![s].state = IF accepted THEN "running" ELSE "over"]
    /\ IF HearsAnswer(s) /\ ~accepted THEN Tell({s}, "error")
       ELSE /\ bound' = IF HearsAnswer(s) THEN bound \cup {s} ELSE bound
            /\ UNCHANGED <<stream, handlers, requests>>
    /\ UNCHANGED <<clientVars, fetch>>

Piece(s) ==
    /\ run[s].state = "running" /\ run[s].pieces < MaxPieces
    /\ run' = [run EXCEPT ![s].pieces = @ + 1]
    /\ stream' = [stream EXCEPT ![s].got = IF HearsEvents(s) THEN @ + 1 ELSE @]
    /\ UNCHANGED <<clientVars, handlers, requests, bound, fetch>>

\* The end of the run comes as a lifecycle event and again as a final chat event,
\* which finds no handler.
End(s, what) ==
    /\ run[s].state = "running" /\ run' = [run EXCEPT ![s].state = "over"]
    /\ IF HearsEvents(s) THEN Tell({s}, what)
       ELSE UNCHANGED <<stream, handlers, requests, bound>>
    /\ UNCHANGED <<clientVars, fetch>>

(* request(): the history of a session.  Its timer is its own; the end of   *)
(* the connection does not touch it.                                        *)

Fetch(f) ==
    /\ cur # 0 /\ fetch[f].state = "idle"
    /\ fetch' = [fetch EXCEPT ![f] =
                    IF IsGatewayReady(cur) /\ CanSend(cur)
                    THEN [state |-> "pending", gen |-> cur, conn |-> conns[cur]]
                    ELSE [NoFetch EXCEPT !.state = "over"]]
    /\ UNCHANGED <<clientVars, handlers, requests, bound, stream, run>>

Finish(f) ==
    /\ fetch[f].state = "pending" /\ fetch' = [fetch EXCEPT ![f] = [NoFetch EXCEPT !.state = "over"]]
    /\ UNCHANGED <<clientVars, handlers, requests, bound, stream, run>>

FetchAnswered(f) == Finish(f) /\ Hears(fetch[f].gen) /\ conns[fetch[f].gen] = fetch[f].conn
FetchTimeout(f) == Finish(f)

Connection(g) == \/ Open(g) \/ SendConnect(g) \/ Accepted(g) \/ Rejected(g) \/ ConnectTimeout(g)
                 \/ LivenessTimeout(g) \/ Closed(g) \/ Reconnect(g)
Gateway(s) == \/ \E a \in BOOLEAN : Answer(s, a)
              \/ Piece(s)
              \/ \E what \in {"done", "error"} : End(s, what)

Next ==
    \/ Start \/ Stop
    \/ \E g \in Gens : Connection(g)
    \/ \E s \in Streams : Ask(s) \/ SendPrompt(s) \/ Leave(s) \/ Gateway(s)
    \/ \E f \in Fetches : Fetch(f) \/ FetchAnswered(f) \/ FetchTimeout(f)

Spec == Init /\ [][Next]_vars

\* The files of a prompt are found or time out, a closing connection closes, the
\* gateway answers a prompt and ends its run, and timers fire.
Fairness ==
    /\ \A g \in Gens : WF_vars(link[g] \in {"closing", "late"} /\ Closed(g))
    /\ \A s \in Streams : /\ WF_vars(SendPrompt(s))
                          /\ WF_vars(\E a \in BOOLEAN : Answer(s, a))
                          /\ WF_vars(\E what \in {"done", "error"} : End(s, what))
    /\ \A f \in Fetches : WF_vars(FetchTimeout(f))

FairSpec == Spec /\ Fairness

-----------------------------------------------------------------------------
(* Properties *)

Waiting(s) == stream[s].pc \in {"resolving", "sent"} /\ stream[s].told = None
Served(s) == stream[s].gen = cur

\* While the service runs, an open stream has a handler somebody may call, and one
\* whose prompt is sent waits on nothing but the connection it was sent over, so
\* that the end of that connection ends it, however its files, a reconnect and
\* the answer overtake one another (sendPrompt, handleGatewayDisconnected).
StreamsAreOwned ==
    \A s \in Streams : Served(s) =>
       /\ Waiting(s) <=> s \in handlers
       /\ Waiting(s) /\ stream[s].pc = "sent" =>
            /\ conns[cur] = stream[s].conn /\ link[cur] \in {"ready", "closing"}
            /\ run[s].state = "over" /\ link[cur] = "ready" => s \notin handlers

\* A stream that is told "done" got every piece of its run's text.
DoneIsWhole == \A s \in Streams : stream[s].told = "done" => stream[s].got = run[s].pieces

StreamsKept == StreamsAreOwned /\ DoneIsWhole

\* Every stream is told its end unless the service is stopped under it, and every
\* fetch has one (onComplete, onError, the timer of request).
StreamsEnd == /\ \A s \in Streams : Waiting(s) ~> ~Waiting(s) \/ ~Served(s)
              /\ \A f \in Fetches : fetch[f].state = "pending" ~> fetch[f].state = "over"

\* The bridge ends the streams of a connection that closes ("Gateway disconnected").
EveryStreamEnds == \A s \in Streams : Waiting(s) ~> ~Waiting(s)

\* A service that runs, with its connection up, takes chats ("gateway_ready").
ReadyIsServed == cur # 0 /\ link[cur] = "ready" => IsGatewayReady(cur)
=============================================================================
