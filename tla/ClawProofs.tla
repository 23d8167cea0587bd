------------------------------ MODULE ClawProofs ------------------------------
(***************************************************************************)
(* What the parts of a claw promise, for every set of messages, clients,    *)
(* contents and files and every bound: the plugin in its container, the live   *)
(* side of its chat, and the merge of its history.  Each part has an inductive  *)
(* invariant, and a step of one leaves the variables of the others alone.  The   *)
(* document and the container have theirs in ClawLifecycleProofs.                *)
(***************************************************************************)
EXTENDS MCClaw, ClawLifecycleProofs, FiniteSetTheorems, FunctionTheorems, SequenceTheorems,
        TLAPS

-----------------------------------------------------------------------------
(* The plugin's streams (GatewayBridge) *)

StreamRec == [pc : {"idle", "resolving", "sent", "over"}, gen : 0 .. MaxStarts,
              conn : 0 .. MaxConns, told : {None, "done", "error", "refused", "left"},
              got : 0 .. MaxOutput]
RunRec    == [state : {"none", "asked", "running", "over"}, pieces : 0 .. MaxOutput]

GateTypes ==
    /\ cur \in {0} \cup Gate!Gens /\ starts \in 0 .. MaxStarts
    /\ link \in [Gate!Gens -> Gate!Links] /\ ready \in [Gate!Gens -> BOOLEAN]
    /\ conns \in [Gate!Gens -> 0 .. MaxConns] /\ init \in [Gate!Gens -> BOOLEAN]
    /\ handlers \subseteq Messages /\ requests \subseteq Messages /\ bound \subseteq Messages
    /\ stream \in [Messages -> StreamRec] /\ run \in [Messages -> RunRec]

\* Only the client of the latest start, while it is not stopped, connects.
LinkIs(g) ==
    /\ link[g] \in {"waiting", "connecting", "open", "handshake", "ready"} => g = cur
    /\ link[g] = "ready" => ready[g]

\* A stream has a handler as long as it waits, and one that waits for the run of
\* its prompt, over a connection that is up, has heard all there was of it.
StreamIs(s) ==
    /\ stream[s].gen <= starts
    /\ stream[s].pc \in {"resolving", "sent"} => stream[s].gen # 0
    /\ stream[s].pc = "idle" => stream[s].told = None
    /\ stream[s].pc # "sent" => run[s].state = "none" /\ run[s].pieces = 0 /\ stream[s].got = 0
    /\ stream[s].pc = "sent" => run[s].state # "none"
    /\ Gate!Waiting(s) <=> s \in handlers
    /\ stream[s].told = "done" =>
         stream[s].pc = "sent" /\ run[s].state = "over" /\ stream[s].got = run[s].pieces
    /\ Gate!Waiting(s) /\ stream[s].pc = "sent" /\ stream[s].gen = cur =>
         /\ stream[s].conn = conns[cur] /\ link[cur] \in {"ready", "closing"}
         /\ link[cur] = "ready" =>
              /\ stream[s].got = run[s].pieces
              /\ run[s].state = "asked" => s \in requests
              /\ run[s].state = "running" => s \in bound
              /\ run[s].state # "over"

GateInv ==
    /\ GateTypes /\ cur \in {0, starts}
    /\ \A g \in Gate!Gens : LinkIs(g)
    /\ \A s \in Messages : StreamIs(s)

\* What the bounds and None are.
LEMMA GateConstants == /\ MaxStarts \in Nat /\ MaxConns \in Nat /\ MaxOutput \in Nat
                       /\ MaxStarts > 0 /\ MaxConns > 0
                       /\ None \notin {"done", "error", "refused", "left"}
  BY PartsAssumption DEF Gate!GatewayAssumption

\* The plugin starts without a client and without streams.
LEMMA GateInit == Gate!Init => GateInv
<1> SUFFICES ASSUME Gate!Init PROVE GateInv
  OBVIOUS
<1> USE DEF Gate!Init
<1>1. GateTypes
  BY GateConstants DEF GateTypes, StreamRec, RunRec, Gate!NoStream, Gate!Gens, Gate!Links
<1>2. \A g \in Gate!Gens : LinkIs(g)
  BY DEF LinkIs
<1>3. \A s \in Messages : StreamIs(s)
  BY GateConstants DEF StreamIs, Gate!NoStream, Gate!Waiting
<1> QED BY <1>1, <1>2, <1>3 DEF GateInv

\* The end of streams changes what they were told, and no other field.
LEMMA TellFacts ==
    ASSUME GateTypes, NEW T \in SUBSET Messages,
           NEW what \in {"done", "error", "left"}, Gate!Tell(T, what)
    PROVE  /\ stream' \in [Messages -> StreamRec]
           /\ handlers' = handlers \ T /\ requests' = requests \ T /\ bound' = bound \ T
           /\ \A s \in Messages :
                /\ stream'[s].pc = stream[s].pc /\ stream'[s].gen = stream[s].gen
                /\ stream'[s].conn = stream[s].conn /\ stream'[s].got = stream[s].got
                /\ stream'[s].told = IF s \in T THEN what ELSE stream[s].told
<1>1. \A r \in StreamRec : [r EXCEPT !.told = what] \in StreamRec
  BY DEF StreamRec
<1>2. \A r \in StreamRec : /\ [r EXCEPT !.told = what].pc = r.pc
                           /\ [r EXCEPT !.told = what].gen = r.gen
                           /\ [r EXCEPT !.told = what].conn = r.conn
                           /\ [r EXCEPT !.told = what].got = r.got
                           /\ [r EXCEPT !.told = what].told = what
  BY DEF StreamRec
<1>3. \A s \in Messages : stream[s] \in StreamRec
  BY DEF GateTypes
<1>4. stream' = [s \in Messages |-> IF s \in T THEN [stream[s] EXCEPT !.told = what]
                                              ELSE stream[s]]
  BY DEF Gate!Tell
<1>5. \A s \in Messages : stream'[s] = IF s \in T THEN [stream[s] EXCEPT !.told = what]
                                                 ELSE stream[s]
  BY <1>4
<1>6. stream' \in [Messages -> StreamRec]
  BY <1>1, <1>3, <1>4
<1>7. handlers' = handlers \ T /\ requests' = requests \ T /\ bound' = bound \ T
  BY DEF Gate!Tell
<1> HIDE DEF StreamRec
<1>8. ASSUME NEW s \in Messages
      PROVE /\ stream'[s].pc = stream[s].pc /\ stream'[s].gen = stream[s].gen
            /\ stream'[s].conn = stream[s].conn /\ stream'[s].got = stream[s].got
            /\ stream'[s].told = IF s \in T THEN what ELSE stream[s].told
  <2>1. CASE s \in T
    BY <1>2, <1>3, <1>5, <2>1
  <2>2. CASE s \notin T
    BY <1>5, <2>2
  <2> QED BY <2>1, <2>2
<1> QED BY <1>6, <1>7, <1>8

\* A step of the service or of a connection, which tells nobody, leaves alone the
\* streams that do not wait for what it moves.
LEMMA ClientStep ==
    ASSUME GateInv, UNCHANGED <<handlers, requests, bound, stream, run>>,
           cur' \in {0} \cup Gate!Gens, starts' \in 0 .. MaxStarts, starts' >= starts,
           cur' \in {0, starts'},
           link' \in [Gate!Gens -> Gate!Links], ready' \in [Gate!Gens -> BOOLEAN],
           conns' \in [Gate!Gens -> 0 .. MaxConns], init' \in [Gate!Gens -> BOOLEAN],
           \A g \in Gate!Gens : LinkIs(g)',
           cur' \notin {0, cur} => cur' > starts,
           cur' = cur /\ cur # 0 /\ link[cur] \in {"ready", "closing"} =>
               /\ conns'[cur] = conns[cur] /\ link'[cur] \in {"ready", "closing"}
               /\ link'[cur] = "ready" => link[cur] = "ready"
    PROVE  GateInv'
<1>1. GateTypes'
  BY DEF GateInv, GateTypes
<1>2. ASSUME NEW s \in Messages PROVE StreamIs(s)'
  <2>1. StreamIs(s) /\ stream[s].gen \in 0 .. MaxStarts /\ starts \in Nat /\ starts' \in Nat
    BY DEF GateInv, GateTypes, StreamRec
  <2>2. cur' = stream[s].gen /\ stream[s].gen # 0 => cur' = cur /\ cur # 0
    BY <2>1 DEF StreamIs
  <2> QED BY <2>1, <2>2 DEF StreamIs, Gate!Waiting
<1> QED BY <1>1, <1>2 DEF GateInv

\* The service starts and stops; what a client does without its streams.
LEMMA StartStep == GateInv /\ Gate!Start => GateInv'
<1> SUFFICES ASSUME GateInv, Gate!Start PROVE GateInv'
  OBVIOUS
<1> USE GateConstants
<1>1. cur' = starts + 1 /\ starts' = starts + 1 /\ cur' \in Gate!Gens
      /\ starts' \in 0 .. MaxStarts
      /\ cur = 0 /\ starts \in Nat
  BY DEF Gate!Start, GateInv, GateTypes, Gate!Gens
<1>2. /\ link' \in [Gate!Gens -> Gate!Links] /\ conns' \in [Gate!Gens -> 0 .. MaxConns]
      /\ \A g \in Gate!Gens : link'[g] = IF g = cur' THEN "connecting" ELSE link[g]
  BY <1>1 DEF Gate!Start, Gate!Move, GateInv, GateTypes, Gate!Links
<1>3. ready' = ready /\ init' = init /\ UNCHANGED <<handlers, requests, bound, stream, run>>
  BY DEF Gate!Start, Gate!streamVars
<1>4. \A g \in Gate!Gens : LinkIs(g)'
  BY <1>1, <1>2, <1>3 DEF LinkIs, GateInv, Gate!Gens
<1> QED BY <1>1, <1>2, <1>3, <1>4, ClientStep DEF GateInv, GateTypes

\* The service stops its client, or there is none.
LEMMA StopStep == GateInv /\ Gate!Stop => GateInv'
<1> SUFFICES ASSUME GateInv, Gate!Stop PROVE GateInv'
  OBVIOUS
<1> USE GateConstants
<1>1. cur' = 0 /\ starts' = starts /\ conns' = conns /\ init' = init /\ cur \in Gate!Gens
      /\ starts \in 0 .. MaxStarts /\ UNCHANGED <<handlers, requests, bound, stream, run>>
  BY DEF Gate!Stop, Gate!streamVars, GateInv, GateTypes
<1>2. /\ link' \in [Gate!Gens -> Gate!Links]
      /\ \A g \in Gate!Gens : g # cur => link'[g] = link[g]
      /\ link'[cur] \in {"none", "late", "closing"}
  BY <1>1 DEF Gate!Stop, GateInv, GateTypes, Gate!Links
<1>3. ready' \in [Gate!Gens -> BOOLEAN]
  BY DEF Gate!Stop, GateInv, GateTypes
<1>4. \A g \in Gate!Gens : LinkIs(g)'
  BY <1>1, <1>2 DEF LinkIs, GateInv
<1> QED BY <1>1, <1>2, <1>3, <1>4, ClientStep DEF GateInv, GateTypes

\* A connection comes up or is given up: a stream that waits for it has nothing to hear.
LEMMA ConnectionStep ==
    ASSUME GateInv, NEW g \in Gate!Gens,
           \/ Gate!Open(g) \/ Gate!SendConnect(g) \/ Gate!Accepted(g) \/ Gate!Rejected(g)
           \/ Gate!ConnectTimeout(g) \/ Gate!LivenessTimeout(g) \/ Gate!Reconnect(g)
    PROVE  GateInv'
<1> USE GateConstants
<1> DEFINE Acts == {"connecting", "open", "handshake", "late", "closing", "ready", "waiting"}
<1>1. /\ cur' = cur /\ starts' = starts /\ UNCHANGED <<handlers, requests, bound, stream, run>>
      /\ cur \in {0} \cup Gate!Gens /\ starts \in 0 .. MaxStarts
  BY DEF Gate!Open, Gate!SendConnect, Gate!Accepted, Gate!Rejected, Gate!ConnectTimeout,
         Gate!LivenessTimeout, Gate!Reconnect, Gate!streamVars, GateInv, GateTypes
<1>2. /\ link' \in [Gate!Gens -> Gate!Links] /\ ready' \in [Gate!Gens -> BOOLEAN]
      /\ init' \in [Gate!Gens -> BOOLEAN]
  BY DEF Gate!Open, Gate!SendConnect, Gate!Accepted, Gate!Rejected, Gate!ConnectTimeout,
         Gate!LivenessTimeout, Gate!Reconnect, Gate!Move, GateInv, GateTypes, Gate!Links
<1>3. conns' \in [Gate!Gens -> 0 .. MaxConns]
  BY DEF Gate!Open, Gate!SendConnect, Gate!Accepted, Gate!Rejected, Gate!ConnectTimeout,
         Gate!LivenessTimeout, Gate!Reconnect, GateInv, GateTypes
<1>4. /\ \A h \in Gate!Gens \ {g} : link'[h] = link[h] /\ ready'[h] = ready[h]
      /\ link[g] # "waiting" => conns' = conns
      /\ \A h \in Gate!Gens \ {g} : conns'[h] = conns[h]
      /\ \/ link[g] = "connecting" /\ link'[g] = "open"
         \/ link[g] = "open" /\ link'[g] = "handshake"
         \/ link[g] = "handshake" /\ link'[g] \in {"ready", "late"} 
              /\ (link'[g] = "ready" => ready'[g])
         \/ link[g] \in {"open", "handshake", "late", "ready"} /\ link'[g] = "closing"
         \/ link[g] = "waiting" /\ link'[g] = "connecting"
  BY DEF Gate!Open, Gate!SendConnect, Gate!Accepted, Gate!Rejected, Gate!ConnectTimeout,
         Gate!LivenessTimeout, Gate!Reconnect, Gate!Move, GateInv, GateTypes
<1>5. \A h \in Gate!Gens : LinkIs(h)'
  BY <1>1, <1>4 DEF LinkIs, GateInv
<1>6. cur # 0 /\ link[cur] \in {"ready", "closing"} =>
          /\ conns'[cur] = conns[cur] /\ link'[cur] \in {"ready", "closing"}
          /\ link'[cur] = "ready" => link[cur] = "ready"
  BY <1>1, <1>4
<1> QED BY <1>1, <1>2, <1>3, <1>5, <1>6, ClientStep DEF GateInv

\* Whoever has no handler, and is as before, is as he was.
LEMMA ClosedStep ==
    ASSUME GateInv, NEW g \in Gate!Gens, Gate!Closed(g)
    PROVE  GateInv'
<1> USE GateConstants
<1>1. /\ cur' = cur /\ starts' = starts /\ conns' = conns /\ run' = run
      /\ cur \in {0} \cup Gate!Gens /\ starts \in 0 .. MaxStarts
      /\ cur \in {0, starts}
  BY DEF Gate!Closed, GateInv, GateTypes
<1>2. /\ link' \in [Gate!Gens -> Gate!Links]
      /\ \A h \in Gate!Gens \ {g} : link'[h] = link[h] /\ ready'[h] = ready[h]
      /\ link'[g] = IF g = cur THEN "waiting" ELSE "none"
      /\ ready' \in [Gate!Gens -> BOOLEAN]
  BY DEF Gate!Closed, GateInv, GateTypes, Gate!Links
<1>3. init' \in [Gate!Gens -> BOOLEAN]
  BY DEF Gate!Closed, GateInv, GateTypes
<1>4. Gate!Flush \in SUBSET Messages /\ Gate!Tell(Gate!Flush, "error")
  BY DEF Gate!Flush, Gate!Closed, GateInv, GateTypes
<1>5. /\ stream' \in [Messages -> StreamRec]
      /\ handlers' = handlers \ Gate!Flush /\ requests' = requests \ Gate!Flush
      /\ bound' = bound \ Gate!Flush
      /\ \A s \in Messages :
           /\ stream'[s].pc = stream[s].pc /\ stream'[s].gen = stream[s].gen
           /\ stream'[s].conn = stream[s].conn /\ stream'[s].got = stream[s].got
           /\ stream'[s].told = IF s \in Gate!Flush THEN "error" ELSE stream[s].told
  BY <1>4, TellFacts DEF GateInv
<1>6. GateTypes'
  BY <1>1, <1>2, <1>3, <1>5 DEF GateTypes, GateInv
<1>7. \A h \in Gate!Gens : LinkIs(h)'
  BY <1>1, <1>2 DEF LinkIs, GateInv
<1>8. ASSUME NEW s \in Messages PROVE StreamIs(s)'
  <2>1. StreamIs(s) /\ LinkIs(g)
    BY DEF GateInv
  <2>2. s \in Gate!Flush <=> s \in handlers /\ stream[s].gen = cur
    BY DEF Gate!Flush
  <2> QED BY <1>1, <1>2, <1>5, <2>1, <2>2 DEF StreamIs, Gate!Waiting
<1> QED BY <1>1, <1>6, <1>7, <1>8 DEF GateInv

\* A step of one stream: the client and the other streams are as they were.
LEMMA StreamStep ==
    ASSUME GateInv, NEW s \in Messages,
           UNCHANGED <<cur, starts, link, ready, conns, init>>,
           handlers' \subseteq Messages, requests' \subseteq Messages,
           bound' \subseteq Messages,
           stream' \in [Messages -> StreamRec], run' \in [Messages -> RunRec],
           \A r \in Messages \ {s} : /\ stream'[r] = stream[r] /\ run'[r] = run[r]
                                     /\ r \in handlers' <=> r \in handlers
                                     /\ r \in requests' <=> r \in requests
                                     /\ r \in bound' <=> r \in bound,
           StreamIs(s)'
    PROVE  GateInv'
<1>1. GateTypes'
  BY DEF GateInv, GateTypes
<1>2. \A g \in Gate!Gens : LinkIs(g)'
  BY DEF GateInv, LinkIs
<1>3. \A r \in Messages \ {s} : StreamIs(r)'
  BY DEF GateInv, StreamIs, Gate!Waiting
<1> QED BY <1>1, <1>2, <1>3 DEF GateInv

\* A stream is opened, or refused.
LEMMA AskStep == ASSUME GateInv, NEW s \in Messages, Gate!Ask(s) PROVE GateInv'
<1> USE GateConstants
<1> DEFINE g == cur
           p == stream'[s]
<1>1. /\ UNCHANGED <<cur, starts, link, ready, conns, init>> /\ requests' = requests
      /\ bound' = bound /\ run' = run /\ cur # 0 /\ stream[s].pc = "idle"
  BY DEF Gate!Ask, Gate!clientVars
<1>2. /\ stream[s] \in StreamRec /\ run[s] \in RunRec /\ cur \in 0 .. MaxStarts
      /\ DOMAIN stream = Messages /\ StreamIs(s) /\ cur = starts
      /\ stream[s].told = None
  BY <1>1 DEF GateInv, GateTypes, Gate!Gens, StreamIs
<1>3. CASE Gate!IsGatewayReady(cur)
  <2>1. /\ stream' = [stream EXCEPT ![s] = [stream[s] EXCEPT !.pc = "resolving", !.gen = cur]]
        /\ handlers' = handlers \cup {s}
    BY <1>3 DEF Gate!Ask
  <2>2. p = [stream[s] EXCEPT !.pc = "resolving", !.gen = cur]
    BY <1>2, <2>1
  <2>3. /\ p \in StreamRec /\ p.pc = "resolving" /\ p.gen = cur /\ p.told = None
        /\ p.got = stream[s].got
    BY <1>2, <2>2, GateConstants DEF StreamRec
  <2>4. stream' \in [Messages -> StreamRec] /\ \A r \in Messages \ {s} : stream'[r] = stream[r]
    BY <1>2, <2>1, <2>2, <2>3 DEF GateInv, GateTypes
  <2>5. StreamIs(s)'
    BY <1>1, <1>2, <2>1, <2>3 DEF StreamIs, Gate!Waiting
  <2> HIDE DEF p
  <2> QED BY <1>1, <2>1, <2>4, <2>5, StreamStep DEF GateInv, GateTypes
<1>4. CASE ~Gate!IsGatewayReady(cur)
  <2>1. /\ stream' = [stream EXCEPT ![s] =
                       [stream[s] EXCEPT !.pc = "over", !.told = "refused"]]
        /\ handlers' = handlers
    BY <1>4 DEF Gate!Ask
  <2>2. p = [stream[s] EXCEPT !.pc = "over", !.told = "refused"]
    BY <1>2, <2>1
  <2>3. /\ p \in StreamRec /\ p.pc = "over" /\ p.gen = stream[s].gen /\ p.told = "refused"
        /\ p.got = stream[s].got
    BY <1>2, <2>2, GateConstants DEF StreamRec
  <2>4. stream' \in [Messages -> StreamRec] /\ \A r \in Messages \ {s} : stream'[r] = stream[r]
    BY <1>2, <2>1, <2>2, <2>3 DEF GateInv, GateTypes
  <2>5. StreamIs(s)'
    BY <1>1, <1>2, <2>1, <2>3 DEF StreamIs, Gate!Waiting
  <2> HIDE DEF p
  <2> QED BY <1>1, <2>1, <2>4, <2>5, StreamStep DEF GateInv, GateTypes
<1> QED BY <1>3, <1>4

\* A prompt is sent over the connection that is ready, or the stream ends.
LEMMA SendStep == ASSUME GateInv, NEW s \in Messages, Gate!SendPrompt(s) PROVE GateInv'
<1> USE GateConstants
<1> DEFINE g == stream[s].gen
           p == stream'[s]
<1>1. /\ UNCHANGED <<cur, starts, link, ready, conns, init>> /\ stream[s].pc = "resolving"
  BY DEF Gate!SendPrompt, Gate!clientVars
<1>2. /\ stream[s] \in StreamRec /\ run[s] \in RunRec /\ DOMAIN stream = Messages
      /\ DOMAIN run = Messages /\ StreamIs(s)
      /\ g \in Gate!Gens /\ g # 0 /\ LinkIs(g) /\ conns[g] \in 0 .. MaxConns
      /\ stream[s].told \in {None, "done", "error", "refused", "left"}
  BY <1>1 DEF GateInv, GateTypes, Gate!Gens, StreamIs, StreamRec
<1>3. CASE Gate!CanSend(g)
  <2>1. /\ stream' = [stream EXCEPT ![s] = [stream[s] EXCEPT !.pc = "sent", !.conn = conns[g]]]
        /\ run' = [run EXCEPT ![s] = [run[s] EXCEPT !.state = "asked"]]
        /\ requests' = requests \cup {s} /\ handlers' = handlers /\ bound' = bound
        /\ link[g] = "ready" /\ g = cur
    BY <1>2, <1>3 DEF Gate!SendPrompt, Gate!CanSend, LinkIs
  <2>2. /\ p = [stream[s] EXCEPT !.pc = "sent", !.conn = conns[g]]
        /\ run'[s] = [run[s] EXCEPT !.state = "asked"]
    BY <1>2, <2>1
  <2>3. /\ p \in StreamRec /\ p.pc = "sent" /\ p.gen = g /\ p.told = stream[s].told
        /\ p.got = stream[s].got /\ p.conn = conns[g]
        /\ run'[s] \in RunRec /\ run'[s].state = "asked" /\ run'[s].pieces = run[s].pieces
    BY <1>2, <2>2, GateConstants DEF StreamRec, RunRec
  <2>4. /\ stream' \in [Messages -> StreamRec]
        /\ run' \in [Messages -> RunRec]
        /\ \A r \in Messages \ {s} : stream'[r] = stream[r] /\ run'[r] = run[r]
    BY <1>2, <2>1, <2>2, <2>3 DEF GateInv, GateTypes
  <2>5. StreamIs(s)'
    BY <1>1, <1>2, <2>1, <2>3 DEF StreamIs, Gate!Waiting
  <2> HIDE DEF p
  <2> QED BY <1>1, <2>1, <2>4, <2>5, StreamStep DEF GateInv, GateTypes
<1>4. CASE ~Gate!CanSend(g)
  <2> DEFINE told == IF stream[s].told = None THEN "error" ELSE stream[s].told
  <2>1. /\ stream' = [stream EXCEPT ![s] = [stream[s] EXCEPT !.pc = "over", !.told = told]]
        /\ run' = run /\ handlers' = handlers \ {s} /\ bound' = bound \ {s}
        /\ requests' \in {requests \ {s}, requests \cup {s}}
    BY <1>2, <1>4 DEF Gate!SendPrompt
  <2>2. told \in {None, "done", "error", "refused", "left"} /\ told # None
        /\ (told = "done" => stream[s].told = "done")
    BY <1>2
  <2> HIDE DEF told
  <2>3. p = [stream[s] EXCEPT !.pc = "over", !.told = told]
    BY <1>2, <2>1
  <2>4. /\ p \in StreamRec /\ p.pc = "over" /\ p.gen = g /\ p.told = told
        /\ p.got = stream[s].got
    BY <1>2, <2>2, <2>3, GateConstants DEF StreamRec
  <2>5. stream' \in [Messages -> StreamRec] /\ \A r \in Messages \ {s} : stream'[r] = stream[r]
    BY <1>2, <2>1, <2>3, <2>4 DEF GateInv, GateTypes
  <2>6. StreamIs(s)'
    BY <1>1, <1>2, <2>1, <2>2, <2>4 DEF StreamIs, Gate!Waiting
  <2> HIDE DEF p
  <2> QED BY <1>1, <2>1, <2>5, <2>6, StreamStep DEF GateInv, GateTypes
<1> QED BY <1>3, <1>4

\* A stream that is told its end loses its handler.
LEMMA ToldStep ==
    ASSUME GateInv, NEW s \in Messages, NEW what \in {"done", "error", "left"},
           UNCHANGED <<cur, starts, link, ready, conns, init>>, Gate!Tell({s}, what),
           stream[s].pc \in {"resolving", "sent"},
           run' \in [Messages -> RunRec], \A r \in Messages \ {s} : run'[r] = run[r],
           run'[s].pieces = run[s].pieces,
           stream[s].pc = "resolving" => run'[s] = run[s],
           stream[s].pc = "sent" => run'[s].state # "none",
           what = "done" =>
               /\ stream[s].pc = "sent" /\ run'[s].state = "over"
               /\ stream[s].got = run[s].pieces,
           what # "done" => stream[s].told # "done"
    PROVE  GateInv'
<1>1. /\ stream' \in [Messages -> StreamRec]
      /\ handlers' = handlers \ {s} /\ requests' = requests \ {s} /\ bound' = bound \ {s}
      /\ \A r \in Messages :
           /\ stream'[r].pc = stream[r].pc /\ stream'[r].gen = stream[r].gen
           /\ stream'[r].conn = stream[r].conn /\ stream'[r].got = stream[r].got
           /\ stream'[r].told = IF r = s THEN what ELSE stream[r].told
  <2>1. {s} \in SUBSET Messages
    OBVIOUS
  <2> QED BY <2>1, TellFacts DEF GateInv
<1>2. \A r \in Messages \ {s} : stream'[r] = stream[r]
  BY DEF Gate!Tell
<1>3. StreamIs(s)
  BY DEF GateInv
<1>4. StreamIs(s)'
  BY <1>1, <1>3, GateConstants DEF StreamIs, Gate!Waiting
<1> QED BY <1>1, <1>2, <1>4, StreamStep DEF GateInv, GateTypes

\* A stream whose reader leaves has no handler any more.
LEMMA LeaveStep == ASSUME GateInv, NEW s \in Messages, Gate!Leave(s) PROVE GateInv'
<1>1. /\ UNCHANGED <<cur, starts, link, ready, conns, init>> /\ Gate!Tell({s}, "left")
      /\ stream[s].pc \in {"resolving", "sent"} /\ stream[s].told = None /\ run' = run
  BY DEF Gate!Leave, Gate!clientVars
<1>2. StreamIs(s) /\ None # "done" /\ run \in [Messages -> RunRec]
  BY GateConstants DEF GateInv, GateTypes
<1> QED BY <1>1, <1>2, ToldStep DEF StreamIs

\* A stream of which the gateway speaks had its prompt sent.
LEMMA AnswerStep ==
    ASSUME GateInv, NEW s \in Messages, NEW a \in BOOLEAN, Gate!Answer(s, a)
    PROVE  GateInv'
<1> USE GateConstants
<1> DEFINE p == run'[s]
           end == IF a THEN "running" ELSE "over"
<1>1. /\ UNCHANGED <<cur, starts, link, ready, conns, init>> /\ run[s].state = "asked"
      /\ run' = [run EXCEPT ![s] = [run[s] EXCEPT !.state = end]]
  BY DEF Gate!Answer, Gate!clientVars
<1>2. /\ stream[s] \in StreamRec /\ run[s] \in RunRec /\ DOMAIN run = Messages
      /\ StreamIs(s) /\ end \in {"running", "over"} /\ (end = "over" <=> ~a)
  BY DEF GateInv, GateTypes
<1>3. /\ stream[s].pc = "sent" /\ stream[s].gen \in 0 .. MaxStarts
      /\ stream[s].told # "done"
  BY <1>1, <1>2 DEF StreamIs, StreamRec
<1> HIDE DEF end
<1>4. p = [run[s] EXCEPT !.state = end]
  BY <1>1, <1>2
<1>5. p \in RunRec /\ p.state = end /\ p.pieces = run[s].pieces
  BY <1>2, <1>4 DEF RunRec
<1>6. run' \in [Messages -> RunRec] /\ \A r \in Messages \ {s} : run'[r] = run[r]
  BY <1>1, <1>2, <1>4, <1>5 DEF GateInv, GateTypes
<1>7. CASE Gate!HearsAnswer(s) /\ ~a
  <2>1. Gate!Tell({s}, "error")
    BY <1>7 DEF Gate!Answer
  <2> QED BY <1>1, <1>2, <1>3, <1>5, <1>6, <2>1, ToldStep
<1>8. CASE ~(Gate!HearsAnswer(s) /\ ~a)
  <2>1. /\ UNCHANGED <<stream, handlers, requests>>
        /\ bound' = IF Gate!HearsAnswer(s) THEN bound \cup {s} ELSE bound
    BY <1>8 DEF Gate!Answer
  <2>2. Gate!Waiting(s) /\ stream[s].gen = cur /\ link[cur] = "ready" => Gate!HearsAnswer(s)
    <3> SUFFICES ASSUME Gate!Waiting(s), stream[s].gen = cur, link[cur] = "ready"
                 PROVE  Gate!HearsAnswer(s)
      OBVIOUS
    <3>1. cur \in Gate!Gens /\ LinkIs(cur)
      BY <1>2, <1>3 DEF StreamIs, GateInv, GateTypes
    <3> QED BY <1>1, <1>2, <1>3, <3>1 DEF Gate!HearsAnswer, Gate!Hears, LinkIs, StreamIs
  <2>3. StreamIs(s)'
    BY <1>1, <1>2, <1>3, <1>5, <1>8, <2>1, <2>2 DEF StreamIs, Gate!Waiting
  <2>4. stream \in [Messages -> StreamRec] /\ bound' \subseteq Messages
        /\ handlers \subseteq Messages /\ requests \subseteq Messages
    BY <2>1 DEF GateInv, GateTypes
  <2> HIDE DEF p
  <2> QED BY <1>1, <1>6, <2>1, <2>3, <2>4, StreamStep
<1> QED BY <1>7, <1>8

\* What a run says is heard by a stream that waits while its connection is up.
LEMMA Heard ==
    ASSUME GateInv, NEW s \in Messages, run[s].state = "running"
    PROVE  /\ Gate!HearsEvents(s) => /\ Gate!Waiting(s) /\ stream[s].gen = cur
                                     /\ link[cur] = "ready"
           /\ Gate!Waiting(s) /\ stream[s].gen = cur /\ link[cur] = "ready"
                => Gate!HearsEvents(s)
<1>1. StreamIs(s) /\ stream[s].gen \in 0 .. MaxStarts
  BY DEF GateInv, GateTypes, StreamRec
<1>2. stream[s].pc = "sent" /\ (Gate!Waiting(s) <=> s \in handlers)
  BY <1>1 DEF StreamIs
<1>3. Gate!Waiting(s) => stream[s].gen \in Gate!Gens /\ LinkIs(stream[s].gen)
  BY <1>1, <1>2, GateConstants DEF StreamIs, GateInv, Gate!Gens
<1> QED BY <1>1, <1>2, <1>3 DEF Gate!HearsEvents, Gate!Hears, LinkIs, StreamIs

\* A piece is heard by a stream that waits while the connection is up.
LEMMA PieceStep == ASSUME GateInv, NEW s \in Messages, Gate!Piece(s) PROVE GateInv'
<1> USE GateConstants
<1> DEFINE p == run'[s]
           q == stream'[s]
           got1 == IF Gate!HearsEvents(s) THEN stream[s].got + 1 ELSE stream[s].got
<1>1. /\ UNCHANGED <<cur, starts, link, ready, conns, init, handlers, requests, bound>>
      /\ run[s].state = "running" /\ run[s].pieces < MaxOutput
      /\ run' = [run EXCEPT ![s] = [run[s] EXCEPT !.pieces = run[s].pieces + 1]]
      /\ stream' = [stream EXCEPT ![s] = [stream[s] EXCEPT !.got = got1]]
  BY DEF Gate!Piece, Gate!clientVars
<1>2. /\ stream[s] \in StreamRec /\ run[s] \in RunRec /\ DOMAIN run = Messages
      /\ StreamIs(s) /\ DOMAIN stream = Messages
  BY DEF GateInv, GateTypes
<1>3. /\ stream[s].pc = "sent" /\ stream[s].gen \in 0 .. MaxStarts
      /\ stream[s].told # "done" /\ stream[s].got \in 0 .. MaxOutput
      /\ run[s].pieces \in 0 .. MaxOutput
  BY <1>1, <1>2 DEF StreamIs, StreamRec, RunRec
<1>4. /\ Gate!HearsEvents(s) => Gate!Waiting(s) /\ stream[s].gen = cur /\ link[cur] = "ready"
      /\ Gate!Waiting(s) /\ stream[s].gen = cur /\ link[cur] = "ready" => Gate!HearsEvents(s)
  BY <1>1, Heard
<1>5. /\ got1 \in 0 .. MaxOutput
      /\ Gate!Waiting(s) /\ stream[s].gen = cur /\ link[cur] = "ready"
           => got1 = run[s].pieces + 1
  BY <1>1, <1>2, <1>3, <1>4 DEF StreamIs
<1> HIDE DEF got1
<1>6. p = [run[s] EXCEPT !.pieces = run[s].pieces + 1] /\ q = [stream[s] EXCEPT !.got = got1]
  BY <1>1, <1>2
<1> HIDE DEF p, q
<1>7. p \in RunRec /\ p.state = "running" /\ p.pieces = run[s].pieces + 1
  BY <1>1, <1>2, <1>3, <1>6 DEF RunRec
<1>8. /\ q \in StreamRec /\ q.pc = "sent" /\ q.gen = stream[s].gen /\ q.conn = stream[s].conn
      /\ q.told = stream[s].told /\ q.got = got1
  BY <1>2, <1>3, <1>5, <1>6 DEF StreamRec
<1> USE DEF p, q
<1>9. /\ run' \in [Messages -> RunRec] /\ stream' \in [Messages -> StreamRec]
      /\ \A r \in Messages \ {s} : run'[r] = run[r] /\ stream'[r] = stream[r]
  <2>1. \A r \in Messages \ {s} : run'[r] = run[r] /\ stream'[r] = stream[r]
    BY <1>1, <1>2
  <2>2. run' \in [Messages -> RunRec]
    BY <1>1, <1>6, <1>7 DEF GateInv, GateTypes
  <2>3. stream' \in [Messages -> StreamRec]
    BY <1>1, <1>6, <1>8 DEF GateInv, GateTypes
  <2> QED BY <2>1, <2>2, <2>3
<1>10. StreamIs(s)'
  BY <1>1, <1>2, <1>3, <1>5, <1>7, <1>8 DEF StreamIs, Gate!Waiting
<1> HIDE DEF p, q
<1> QED BY <1>1, <1>9, <1>10, StreamStep DEF GateInv, GateTypes

\* A stream that hears the end of its run has heard all of it.
LEMMA EndStep ==
    ASSUME GateInv, NEW s \in Messages, NEW what \in {"done", "error"}, Gate!End(s, what)
    PROVE  GateInv'
<1> USE GateConstants
<1> DEFINE p == run'[s]
<1>1. /\ UNCHANGED <<cur, starts, link, ready, conns, init>> /\ run[s].state = "running"
      /\ run' = [run EXCEPT ![s] = [run[s] EXCEPT !.state = "over"]]
  BY DEF Gate!End, Gate!clientVars
<1>2. /\ stream[s] \in StreamRec /\ run[s] \in RunRec /\ DOMAIN run = Messages /\ StreamIs(s)
  BY DEF GateInv, GateTypes
<1>3. /\ stream[s].pc = "sent" /\ stream[s].told # "done"
  BY <1>1, <1>2 DEF StreamIs
<1>4. p = [run[s] EXCEPT !.state = "over"]
  BY <1>1, <1>2
<1>5. p \in RunRec /\ p.state = "over" /\ p.pieces = run[s].pieces
  BY <1>2, <1>4 DEF RunRec
<1>6. run' \in [Messages -> RunRec] /\ \A r \in Messages \ {s} : run'[r] = run[r]
  BY <1>1, <1>2, <1>4, <1>5 DEF GateInv, GateTypes
<1>7. CASE Gate!HearsEvents(s)
  <2>1. Gate!Tell({s}, what)
    BY <1>7 DEF Gate!End
  <2>2. stream[s].got = run[s].pieces
    BY <1>1, <1>2, <1>3, <1>7, Heard DEF StreamIs
  <2> QED BY <1>1, <1>2, <1>3, <1>5, <1>6, <2>1, <2>2, ToldStep
<1>8. CASE ~Gate!HearsEvents(s)
  <2>1. UNCHANGED <<stream, handlers, requests, bound>>
    BY <1>8 DEF Gate!End
  <2>2. ~(Gate!Waiting(s) /\ stream[s].gen = cur /\ link[cur] = "ready")
    BY <1>1, <1>8, Heard
  <2>3. StreamIs(s)'
    BY <1>1, <1>2, <1>3, <1>5, <2>1, <2>2 DEF StreamIs, Gate!Waiting
  <2> HIDE DEF p
  <2> QED BY <1>1, <1>6, <2>1, <2>3, StreamStep DEF GateInv, GateTypes
<1> QED BY <1>7, <1>8

\* Every step of the plugin keeps the invariant.
LEMMA GateStep == GateInv /\ [Gate!Next]_gateVars => GateInv'
<1> SUFFICES ASSUME GateInv, [Gate!Next]_gateVars PROVE GateInv'
  OBVIOUS
<1>1. CASE Gate!Start BY <1>1, StartStep
<1>2. CASE Gate!Stop BY <1>2, StopStep
<1>3. ASSUME NEW g \in Gate!Gens, Gate!Connection(g) PROVE GateInv'
  BY <1>3, ConnectionStep, ClosedStep DEF Gate!Connection
<1>4. ASSUME NEW s \in Messages, Gate!Ask(s) \/ Gate!SendPrompt(s) \/ Gate!Leave(s)
      PROVE  GateInv'
  BY <1>4, AskStep, SendStep, LeaveStep
<1>5. ASSUME NEW s \in Messages, Gate!Gateway(s) PROVE GateInv'
  BY <1>5, AnswerStep, PieceStep, EndStep DEF Gate!Gateway
<1>6. ASSUME UNCHANGED <<cur, starts, link, ready, conns, init, handlers, requests, bound,
                         stream, run>>
      PROVE  GateInv'
  BY <1>6 DEF GateInv, GateTypes, LinkIs, StreamIs, Gate!Waiting
<1>7. ASSUME NEW f \in Fetches,
             Gate!Fetch(f) \/ Gate!FetchAnswered(f) \/ Gate!FetchTimeout(f)
      PROVE  GateInv'
  BY <1>6, <1>7 DEF Gate!Fetch, Gate!FetchAnswered, Gate!FetchTimeout, Gate!Finish,
                    Gate!clientVars
<1>8. CASE UNCHANGED gateVars
  BY <1>6, <1>8 DEF gateVars
<1> QED BY <1>1, <1>2, <1>3, <1>4, <1>5, <1>7, <1>8 DEF Gate!Next

\* What it says of the streams and of the types.
LEMMA GateMeans == GateInv => Gate!StreamsKept /\ Gate!TypeOK
<1> SUFFICES ASSUME GateInv PROVE Gate!StreamsKept /\ Gate!TypeOK
  OBVIOUS
<1>1. ASSUME NEW s \in Messages
      PROVE /\ StreamIs(s) /\ stream[s] \in StreamRec /\ run[s] \in RunRec
  BY DEF GateInv, GateTypes
<1>2. Gate!DoneIsWhole
  BY <1>1 DEF Gate!DoneIsWhole, StreamIs
<1>3. Gate!StreamsAreOwned
  BY <1>1 DEF Gate!StreamsAreOwned, Gate!Served, StreamIs
<1>4. ASSUME NEW s \in Messages
      PROVE /\ stream[s].pc \in {"idle", "resolving", "sent", "over"}
            /\ stream[s].told \in {None, "done", "error", "refused", "left"}
            /\ run[s].state \in {"none", "asked", "running", "over"}
            /\ stream[s].got \in 0 .. MaxOutput /\ run[s].pieces \in 0 .. MaxOutput
  BY <1>1 DEF StreamRec, RunRec
<1>5. Gate!TypeOK
  BY <1>4 DEF Gate!TypeOK, GateInv, GateTypes
<1> QED BY <1>2, <1>3, <1>5 DEF Gate!StreamsKept

\* The plugin is as the invariant says.
LEMMA GateHolds == AllSpec => []GateInv
<1>1. AllInit => GateInv
  BY GateInit DEF AllInit
<1>2. GateInv /\ [AllNext]_allVars => GateInv'
  BY GateStep DEF AllNext, allVars
<1> QED BY <1>1, <1>2, PTL DEF AllSpec

\* An open stream of the plugin has a handler and waits on nothing but the
\* connection its prompt was sent over, and one that is told "done" got the whole
\* text, for any number of streams, restarts of the service and reconnections.
THEOREM StreamsAreKept == AllSpec => []StreamsKept
<1>1. GateInv => StreamsKept
  BY GateMeans DEF StreamsKept
<1> QED BY <1>1, GateHolds, PTL

-----------------------------------------------------------------------------
(* The chat's events (ClawChat) *)

\* That these events say of an answer that it is done only when it is, or an error is
\* told, or its claw was deleted; and that they have each later piece of an answer once.
Stored(m, e, i, kept, text) ==
    kept[m] = text[m] \/ m \in bereft \/ \E j \in 1 .. i : e[j] = Chat!Error(m)
DonesOf(e, where, kept, text) ==
    \A m \in Messages : \A i \in DOMAIN e :
        e[i] = Chat!Done(m) =>
            where[m] = "over" /\ Stored(m, e, i, kept, text)
PiecesOf(e, text) ==
    \A m \in Messages : \A i \in DOMAIN e, p \in 1 .. MaxPieces :
        e[i] = Chat!Text(m, p) =>
            /\ p <= Len(text[m])
            /\ \A q \in p + 1 .. Len(text[m]) :
                 \E j \in i + 1 .. Len(e) : e[j] = Chat!Text(m, q)
            /\ \A j \in DOMAIN e : e[j] = Chat!Text(m, p) => j = i

ChatInv ==
    /\ Chat!TypeOK
    /\ \A m \in Messages :
         /\ at[m] = "end" => m \in broken \/ m \in bereft \/ stored[m] = pending[m]
         /\ Chat!UnderWay(m) => there \/ m \in bereft
    /\ \A c \in Clients : conn[c] = "off" => got[c] = <<>> /\ queue[c] = <<>>
    /\ \A c \in Clients : DonesOf(Chat!Events(c), at, stored, pending)
    /\ \A c \in Chat!Subscribers : PiecesOf(Chat!Events(c), pending)

\* Events of different kinds, of different messages and of different pieces differ.
LEMMA EventFacts ==
    /\ \A m, n \in Messages, p, q \in 1 .. MaxPieces :
         /\ Chat!Text(m, p) = Chat!Text(n, q) <=> m = n /\ p = q
         /\ Chat!Text(m, p) # Chat!Done(n) /\ Chat!Text(m, p) # Chat!Error(n)
         /\ Chat!Text(m, p) \in Chat!Event
    /\ \A m, n \in Messages :
         /\ Chat!Done(m) = Chat!Done(n) => m = n
         /\ Chat!Done(m) # Chat!Error(n)
         /\ Chat!Done(m) \in Chat!Event /\ Chat!Error(m) \in Chat!Event
<1>1. \A m, n \in Messages, p, q \in 1 .. MaxPieces :
         /\ Chat!Text(m, p) = Chat!Text(n, q) <=> m = n /\ p = q
         /\ Chat!Text(m, p) # Chat!Done(n) /\ Chat!Text(m, p) # Chat!Error(n)
  BY DEF Chat!Text, Chat!Done, Chat!Error
<1>2. \A m, n \in Messages : /\ Chat!Done(m) # Chat!Error(n)
                             /\ Chat!Done(m) = Chat!Done(n) => m = n
  BY DEF Chat!Done, Chat!Error
<1>3. \A m \in Messages : Chat!Done(m) \in Chat!Event /\ Chat!Error(m) \in Chat!Event
  BY DEF Chat!Event
<1>4. \A m \in Messages, p \in 1 .. MaxPieces : Chat!Text(m, p) \in Chat!Event
  <2> SUFFICES ASSUME NEW m \in Messages, NEW p \in 1 .. MaxPieces
               PROVE  Chat!Text(m, p) \in Chat!Event
    OBVIOUS
  <2>1. <<m, p>> \in Chat!Piece /\ Chat!Text(m, p) = Chat!Text(<<m, p>>[1], <<m, p>>[2])
    BY DEF Chat!Piece
  <2> QED BY <2>1 DEF Chat!Event
<1> QED BY <1>1, <1>2, <1>3, <1>4

\* Every event is of one of the three kinds.
LEMMA EventKinds ==
    ASSUME NEW x \in Chat!Event
    PROVE  \/ x.type = "text" /\ x.of \in Messages /\ x.piece \in 1 .. MaxPieces
           \/ x.type # "text"
<1>1. CASE x \in {Chat!Text(p[1], p[2]) : p \in Chat!Piece}
  <2>1. PICK p \in Chat!Piece : x = Chat!Text(p[1], p[2])
    BY <1>1
  <2> QED BY <2>1 DEF Chat!Piece, Chat!Text
<1>2. CASE x \in {Chat!Done(m) : m \in Messages}
  BY <1>2 DEF Chat!Done
<1>3. CASE x \in {Chat!Error(m) : m \in Messages}
  BY <1>3 DEF Chat!Error
<1> QED BY <1>1, <1>2, <1>3 DEF Chat!Event

\* None is no message, and there is a bound on pieces.
LEMMA ChatConstants == None \notin Messages /\ MaxPieces \in Nat
  BY PartsAssumption DEF Chat!ChatAssumption

\* At first nobody was sent anything.
LEMMA ChatInit == Chat!Init => ChatInv
<1> SUFFICES ASSUME Chat!Init PROVE ChatInv
  OBVIOUS
<1>1. \A c \in Clients : got[c] = <<>> /\ queue[c] = <<>> /\ Chat!Events(c) = <<>>
  BY DEF Chat!Init, Chat!Events
<1>2. /\ pending \in [Messages -> Seq(Chat!Piece)] /\ stored \in [Messages -> Seq(Chat!Piece)]
      /\ queue \in [Clients -> Seq(Chat!Event)] /\ got \in [Clients -> Seq(Chat!Event)]
      /\ shown \in [Clients -> Seq(Chat!Piece)]
  BY DEF Chat!Init
<1>3. Chat!TypeOK
  BY <1>2 DEF Chat!Init, Chat!TypeOK
<1>4. \A c \in Clients : /\ DonesOf(Chat!Events(c), at, stored, pending)
                         /\ PiecesOf(Chat!Events(c), pending)
  BY <1>1 DEF DonesOf, PiecesOf
<1>5. \A m \in Messages : at[m] # "end" /\ ~Chat!UnderWay(m)
  BY DEF Chat!Init, Chat!UnderWay
<1> QED BY <1>1, <1>3, <1>4, <1>5 DEF ChatInv, Chat!Subscribers

\* What a client was sent and has in its queue are sequences of events.
LEMMA EventsAreEvents ==
    ASSUME Chat!TypeOK, NEW c \in Clients
    PROVE  /\ got[c] \in Seq(Chat!Event) /\ queue[c] \in Seq(Chat!Event)
           /\ Chat!Events(c) \in Seq(Chat!Event)
<1>1. got[c] \in Seq(Chat!Event) /\ queue[c] \in Seq(Chat!Event)
  BY DEF Chat!TypeOK
<1> QED BY <1>1, ConcatProperties DEF Chat!Events

\* Events that are published come last, for those who are there.
LEMMA PublishAppends ==
    ASSUME Chat!TypeOK, NEW x \in Seq(Chat!Event), Chat!Publish(x), got' = got
    PROVE  /\ queue' \in [Clients -> Seq(Chat!Event)]
           /\ \A c \in Clients :
                Chat!Events(c)' = IF c \in Chat!Subscribers THEN Chat!Events(c) \o x
                                                           ELSE Chat!Events(c)
           /\ \A c \in Clients : conn[c] = "off" => queue'[c] = queue[c]
<1>1. \A c \in Clients : queue'[c] = IF c \in Chat!Subscribers THEN queue[c] \o x ELSE queue[c]
  BY DEF Chat!Publish
<1>2. ASSUME NEW c \in Clients
      PROVE  /\ got[c] \in Seq(Chat!Event) /\ queue[c] \in Seq(Chat!Event)
             /\ queue[c] \o x \in Seq(Chat!Event)
             /\ (got[c] \o queue[c]) \o x = got[c] \o (queue[c] \o x)
  <2>1. got[c] \in Seq(Chat!Event) /\ queue[c] \in Seq(Chat!Event)
    BY EventsAreEvents
  <2>2. queue[c] \o x \in Seq(Chat!Event)
    BY <2>1, ConcatProperties
  <2>3. (got[c] \o queue[c]) \o x = got[c] \o (queue[c] \o x)
    <3>1. \A s, t, u \in Seq(Chat!Event) : (s \o t) \o u = s \o (t \o u)
      BY ConcatAssociative
    <3> QED BY <2>1, <3>1
  <2> QED BY <2>1, <2>2, <2>3
<1>3. queue' \in [Clients -> Seq(Chat!Event)]
  BY <1>2 DEF Chat!Publish
<1>4. \A c \in Clients :
         Chat!Events(c)' = IF c \in Chat!Subscribers THEN Chat!Events(c) \o x
                                                     ELSE Chat!Events(c)
  BY <1>1, <1>2 DEF Chat!Events
<1>5. \A c \in Clients : conn[c] = "off" => queue'[c] = queue[c]
  BY <1>1 DEF Chat!Subscribers
<1> QED BY <1>3, <1>4, <1>5

\* A step of a message that publishes nothing and neither adds a piece nor ends.
LEMMA QuietStep ==
    ASSUME ChatInv, UNCHANGED <<there, bereft, pending, conn, queue, shown, got>>,
           NEW m \in Messages, at[m] # "over",
           \A n \in Messages \ {m} : at'[n] = at[n] /\ stored'[n] = stored[n],
           at' \in [Messages -> {"idle", "append", "task", "stream", "file", "text", "end",
                                 "over"}],
           stored' \in [Messages -> Seq(Chat!Piece)],
           broken \subseteq broken', broken' \subseteq Messages,
           entry' \in {entry, m, None},
           entry' = m => at'[m] \notin {"idle", "append", "task"},
           at'[m] = "end" => m \in broken' \/ m \in bereft \/ stored'[m] = pending[m],
           Chat!UnderWay(m) \/ there
    PROVE  ChatInv'
<1> USE DEF ChatInv
<1>1. Chat!TypeOK'
  BY ChatConstants DEF Chat!TypeOK
<1>2. \A c \in Clients : Chat!Events(c)' = Chat!Events(c)
  BY DEF Chat!Events
<1>3. \A c \in Clients : DonesOf(Chat!Events(c), at, stored, pending)'
  BY SMTT(40), <1>2 DEF DonesOf, Stored
<1>4. ASSUME NEW c \in Clients, PiecesOf(Chat!Events(c), pending)
      PROVE  PiecesOf(Chat!Events(c), pending)'
  <2>1. Chat!Events(c)' = Chat!Events(c) /\ pending' = pending
    BY <1>2
  <2> HIDE DEF ChatInv
  <2> QED BY <1>4, <2>1
<1>5. Chat!Subscribers' = Chat!Subscribers /\ Chat!Subscribers \subseteq Clients
  BY DEF Chat!Subscribers
<1>6. \A n \in Messages :
         /\ at'[n] = "end" => n \in broken' \/ n \in bereft' \/ stored'[n] = pending'[n]
         /\ Chat!UnderWay(n)' => there' \/ n \in bereft'
  BY DEF Chat!UnderWay
<1> QED BY <1>1, <1>3, <1>4, <1>5, <1>6

\* The steps of an answer that publish nothing.
LEMMA SilentChat ==
    ASSUME ChatInv, NEW m \in Messages,
           \/ Chat!Send(m) \/ Chat!AppendUser(m) \/ Chat!Begin(m)
           \/ Chat!StreamEnds(m) \/ Chat!AppendFiles(m) \/ Chat!AppendAnswer(m)
    PROVE  ChatInv'
<1>1. /\ UNCHANGED <<there, bereft, pending, conn, queue, shown, got>> /\ at[m] # "over"
      /\ \A n \in Messages \ {m} : at'[n] = at[n] /\ stored'[n] = stored[n]
      /\ at' \in [Messages -> {"idle", "append", "task", "stream", "file", "text", "end",
                               "over"}]
      /\ broken \subseteq broken' /\ broken' \subseteq Messages
  BY DEF Chat!Send, Chat!AppendUser, Chat!Begin, Chat!StreamEnds, Chat!AppendFiles,
         Chat!AppendAnswer, Chat!Goto, Chat!clientVars, Chat!clawVars, ChatInv, Chat!TypeOK
<1>2. stored' \in [Messages -> Seq(Chat!Piece)]
  BY DEF Chat!Send, Chat!AppendUser, Chat!Begin, Chat!StreamEnds, Chat!AppendFiles,
         Chat!AppendAnswer, ChatInv, Chat!TypeOK
<1>3. entry' \in {entry, m, None} /\ (entry' = m => at'[m] \notin {"idle", "append", "task"})
  BY ChatConstants DEF Chat!Send, Chat!AppendUser, Chat!Begin, Chat!StreamEnds,
     Chat!AppendFiles, Chat!AppendAnswer, Chat!Goto, ChatInv, Chat!TypeOK
<1>4. at'[m] = "end" => m \in broken' \/ m \in bereft \/ stored'[m] = pending[m]
  BY DEF Chat!Send, Chat!AppendUser, Chat!Begin, Chat!StreamEnds, Chat!AppendFiles,
         Chat!AppendAnswer, Chat!Goto, Chat!UnderWay, ChatInv, Chat!TypeOK
<1>5. Chat!UnderWay(m) \/ there
  BY DEF Chat!Send, Chat!AppendUser, Chat!Begin, Chat!StreamEnds, Chat!AppendFiles,
         Chat!AppendAnswer, Chat!UnderWay
<1> QED BY <1>1, <1>2, <1>3, <1>4, <1>5, QuietStep

\* A piece comes last, and is the last of its answer.
LEMMA ChunkEvents ==
    ASSUME NEW m \in Messages, NEW n \in 1 .. MaxPieces, NEW e \in Seq(Chat!Event),
           n = Len(pending[m]) + 1, pending[m] \in Seq(Chat!Piece),
           Len(pending'[m]) = n,
           \A x \in Messages \ {m} : pending'[x] = pending[x],
           \A x \in Messages : Len(pending[x]) \in Nat,
           at[m] # "over"
    PROVE  /\ DonesOf(e, at, stored, pending) =>
                /\ DonesOf(e, at, stored, pending')
                /\ DonesOf(e \o <<Chat!Text(m, n)>>, at, stored, pending')
           /\ PiecesOf(e, pending) => PiecesOf(e \o <<Chat!Text(m, n)>>, pending')
<1> DEFINE t == Chat!Text(m, n)
           f == e \o <<t>>
<1>1. t \in Chat!Event /\ <<t>> \in Seq(Chat!Event)
  BY EventFacts
<1>2. Len(<<t>>) = 1 /\ <<t>>[1] = t
  OBVIOUS
<1>3. Len(f) = Len(e) + 1 /\ \A i \in 1 .. Len(e) : f[i] = e[i]
  BY <1>1, <1>2, ConcatProperties
<1>4. f[Len(e) + 1] = t
  BY <1>1, <1>2, ConcatProperties
<1>5. f \in Seq(Chat!Event) /\ DOMAIN f = 1 .. Len(e) + 1 /\ DOMAIN e = 1 .. Len(e)
      /\ Len(e) \in Nat
  BY <1>1, <1>3, ConcatProperties
<1> HIDE DEF f, t
<1>6. ASSUME DonesOf(e, at, stored, pending),
             NEW x \in Messages, NEW i \in DOMAIN e, e[i] = Chat!Done(x)
      PROVE  /\ at[x] = "over"
             /\ Stored(x, e, i, stored, pending')
  BY <1>6 DEF DonesOf, Stored
<1>7. ASSUME DonesOf(e, at, stored, pending) PROVE DonesOf(e, at, stored, pending')
  BY <1>6, <1>7 DEF DonesOf
<1>8. ASSUME DonesOf(e, at, stored, pending) PROVE DonesOf(f, at, stored, pending')
  <2> SUFFICES ASSUME NEW x \in Messages, NEW i \in DOMAIN f, f[i] = Chat!Done(x)
               PROVE  at[x] = "over" /\ Stored(x, f, i, stored, pending')
    BY DEF DonesOf
  <2>1. i \in 1 .. Len(e)
    BY <1>4, <1>5, EventFacts DEF t
  <2>2. e[i] = Chat!Done(x) /\ i \in DOMAIN e
    BY <1>3, <1>5, <2>1
  <2>3. at[x] = "over" /\ Stored(x, e, i, stored, pending')
    BY <1>6, <1>8, <2>2
  <2>4. \A j \in 1 .. i : f[j] = e[j]
    BY <1>3, <1>5, <2>1
  <2> QED BY <2>3, <2>4 DEF Stored
<1>9. ASSUME PiecesOf(e, pending) PROVE PiecesOf(f, pending')
  <2>1. SUFFICES ASSUME NEW x \in Messages, NEW i \in DOMAIN f, NEW p \in 1 .. MaxPieces,
                        f[i] = Chat!Text(x, p)
        PROVE  /\ p <= Len(pending'[x])
               /\ \A q \in p + 1 .. Len(pending'[x]) :
                    \E j \in i + 1 .. Len(f) : f[j] = Chat!Text(x, q)
               /\ \A j \in DOMAIN f : f[j] = Chat!Text(x, p) => j = i
    BY DEF PiecesOf
  <2>2. /\ Len(pending'[x]) = IF x = m THEN n ELSE Len(pending[x])
        /\ Len(pending[x]) \in Nat /\ (x = m => n = Len(pending[x]) + 1)
    OBVIOUS
  <2>3. \A j \in 1 .. Len(e) :
            f[j] = Chat!Text(x, p) => p <= Len(pending[x])
    BY <1>3, <1>5, <1>9 DEF PiecesOf
  <2>4. f[Len(e) + 1] = Chat!Text(x, p) <=> x = m /\ p = n
    BY <1>4, EventFacts DEF t
  <2>5. CASE i \in 1 .. Len(e)
    <3>1. /\ p <= Len(pending[x])
          /\ \A q \in p + 1 .. Len(pending[x]) :
               \E j \in i + 1 .. Len(e) : e[j] = Chat!Text(x, q)
          /\ \A j \in DOMAIN e : e[j] = Chat!Text(x, p) => j = i
      BY <1>3, <1>5, <1>9, <2>1, <2>5 DEF PiecesOf
    <3>2. ASSUME NEW q \in p + 1 .. Len(pending'[x])
          PROVE  \E j \in i + 1 .. Len(f) : f[j] = Chat!Text(x, q)
      <4>1. CASE q <= Len(pending[x])
        <5>1. PICK j \in i + 1 .. Len(e) : e[j] = Chat!Text(x, q)
          BY <3>1, <4>1, <2>2
        <5>2. j \in i + 1 .. Len(f) /\ f[j] = e[j]
          BY <1>3, <1>5, <2>5
        <5> QED BY <5>1, <5>2
      <4>2. CASE q > Len(pending[x])
        <5>1. x = m /\ q = n
          BY <2>2, <4>2
        <5>2. Len(e) + 1 \in i + 1 .. Len(f)
          BY <1>3, <1>5, <2>5
        <5> QED BY <1>4, <5>1, <5>2 DEF t
      <4> QED BY <2>2, <4>1, <4>2
    <3>3. ASSUME NEW j \in DOMAIN f, f[j] = Chat!Text(x, p) PROVE j = i
      <4>1. j # Len(e) + 1
        BY <2>2, <2>4, <3>1, <3>3
      <4>2. j \in 1 .. Len(e)
        BY <1>5, <4>1
      <4> QED BY <1>3, <1>5, <3>1, <3>3, <4>2
    <3> QED BY <2>2, <3>1, <3>2, <3>3
  <2>6. CASE i = Len(e) + 1
    <3>1. x = m /\ p = n
      BY <2>1, <2>4, <2>6
    <3>2. ASSUME NEW j \in DOMAIN f, f[j] = Chat!Text(x, p) PROVE j = i
      <4>1. j \notin 1 .. Len(e)
        BY <2>2, <2>3, <3>1, <3>2
      <4> QED BY <1>5, <2>6, <4>1
    <3>3. Len(pending'[x]) = p
      BY <2>2, <3>1
    <3> QED BY <3>2, <3>3
  <2> QED BY <1>5, <2>5, <2>6
<1> QED BY <1>7, <1>8, <1>9 DEF f, t

\* A piece is kept for the history and published.
LEMMA ChunkStep == ASSUME ChatInv, NEW m \in Messages, Chat!Chunk(m) PROVE ChatInv'
<1> USE DEF ChatInv
<1> DEFINE n == Len(pending[m]) + 1
<1>1. /\ at[m] = "stream" /\ Chat!Publish(<<Chat!Text(m, n)>>)
      /\ pending' = [pending EXCEPT ![m] = Append(pending[m], <<m, n>>)]
      /\ UNCHANGED <<at, entry, stored, broken, there, bereft, conn, shown, got>>
      /\ Len(pending[m]) < MaxPieces
  BY DEF Chat!Chunk, Chat!clawVars
<1>2. /\ pending \in [Messages -> Seq(Chat!Piece)] /\ pending[m] \in Seq(Chat!Piece)
      /\ \A x \in Messages : Len(pending[x]) \in Nat
  BY DEF Chat!TypeOK
<1>3. n \in 1 .. MaxPieces /\ <<m, n>> \in Chat!Piece
  BY <1>1, <1>2, ChatConstants DEF Chat!Piece
<1>4. /\ pending' \in [Messages -> Seq(Chat!Piece)] /\ Len(pending'[m]) = n
      /\ \A x \in Messages \ {m} : pending'[x] = pending[x]
  BY <1>1, <1>2, <1>3
<1> HIDE DEF n
<1>5. <<Chat!Text(m, n)>> \in Seq(Chat!Event)
  BY <1>3, EventFacts
<1>6. /\ queue' \in [Clients -> Seq(Chat!Event)]
      /\ \A c \in Clients :
           Chat!Events(c)' = IF c \in Chat!Subscribers THEN Chat!Events(c) \o <<Chat!Text(m, n)>>
                                                      ELSE Chat!Events(c)
      /\ \A c \in Clients : conn[c] = "off" => queue'[c] = queue[c]
  BY <1>1, <1>5, PublishAppends
<1>7. Chat!TypeOK'
  BY <1>1, <1>4, <1>6 DEF Chat!TypeOK
<1>8. ASSUME NEW c \in Clients
      PROVE  /\ DonesOf(Chat!Events(c), at, stored, pending)'
             /\ c \in Chat!Subscribers => PiecesOf(Chat!Events(c), pending)'
  <2>1. Chat!Events(c) \in Seq(Chat!Event)
    BY EventsAreEvents
  <2>2. /\ DonesOf(Chat!Events(c), at, stored, pending)
        /\ c \in Chat!Subscribers => PiecesOf(Chat!Events(c), pending)
    OBVIOUS
  <2>3. ASSUME NEW e \in Seq(Chat!Event)
        PROVE  /\ DonesOf(e, at, stored, pending) =>
                    /\ DonesOf(e, at, stored, pending')
                    /\ DonesOf(e \o <<Chat!Text(m, n)>>, at, stored, pending')
               /\ PiecesOf(e, pending) => PiecesOf(e \o <<Chat!Text(m, n)>>, pending')
    <3>1. n = Len(pending[m]) + 1 /\ at[m] # "over"
      BY <1>1 DEF n
    <3> QED BY <1>2, <1>3, <1>4, <3>1, ChunkEvents
  <2>4. UNCHANGED <<at, stored, bereft>>
    BY <1>1
  <2>5. DonesOf(Chat!Events(c)', at, stored, pending')
    BY <1>6, <2>1, <2>2, <2>3
  <2>6. DonesOf(Chat!Events(c), at, stored, pending)'
    BY <2>4, <2>5 DEF DonesOf, Stored
  <2>7. c \in Chat!Subscribers => PiecesOf(Chat!Events(c), pending)'
    BY <1>6, <2>1, <2>2, <2>3
  <2> QED BY <2>6, <2>7
<1>9. Chat!Subscribers' = Chat!Subscribers /\ Chat!Subscribers \subseteq Clients
  BY <1>1 DEF Chat!Subscribers
<1>10. \A x \in Messages :
         /\ at'[x] = "end" => x \in broken' \/ x \in bereft' \/ stored'[x] = pending'[x]
         /\ Chat!UnderWay(x)' => there' \/ x \in bereft'
  BY <1>1, <1>4 DEF Chat!UnderWay
<1> QED BY <1>1, <1>6, <1>7, <1>8, <1>9, <1>10

\* What the end of an answer adds to the events: its own end, after an error if
\* the answer is not stored.
LEMMA FinishEvents ==
    ASSUME NEW m \in Messages, NEW e \in Seq(Chat!Event), at'[m] = "over",
           \A x \in Messages \ {m} : at'[x] = at[x],
           DonesOf(e, at, stored, pending),
           NEW x \in Seq(Chat!Event),
           \/ x = <<Chat!Error(m), Chat!Done(m)>>
           \/ x = <<Chat!Done(m)>> /\ (stored[m] = pending[m] \/ m \in bereft)
    PROVE  /\ DonesOf(e, at', stored, pending)
           /\ DonesOf(e \o x, at', stored, pending)
           /\ PiecesOf(e, pending) => PiecesOf(e \o x, pending)
<1> DEFINE f == e \o x
<1>1. /\ f \in Seq(Chat!Event) /\ Len(f) = Len(e) + Len(x)
      /\ \A i \in 1 .. Len(e) + Len(x) : f[i] = IF i <= Len(e) THEN e[i] ELSE x[i - Len(e)]
  BY ConcatProperties
<1>2. /\ DOMAIN f = 1 .. Len(f) /\ DOMAIN e = 1 .. Len(e) /\ Len(e) \in Nat /\ Len(x) \in {1, 2}
      /\ \A i \in 1 .. Len(x) : x[i] \in {Chat!Error(m), Chat!Done(m)}
  BY <1>1
<1> HIDE DEF f
<1>3. ASSUME NEW n \in Messages, NEW i \in DOMAIN e, e[i] = Chat!Done(n)
      PROVE  /\ at'[n] = "over"
             /\ Stored(n, e, i, stored, pending)
  BY <1>3 DEF DonesOf
<1>4. DonesOf(e, at', stored, pending)
  BY <1>3 DEF DonesOf
<1>5. DonesOf(f, at', stored, pending)
  <2> SUFFICES ASSUME NEW n \in Messages, NEW i \in DOMAIN f, f[i] = Chat!Done(n)
               PROVE  at'[n] = "over" /\ Stored(n, f, i, stored, pending)
    BY DEF DonesOf
  <2>1. CASE i \in 1 .. Len(e)
    <3>1. e[i] = Chat!Done(n) /\ i \in DOMAIN e
      BY <1>1, <1>2, <2>1
    <3>2. at'[n] = "over" /\ Stored(n, e, i, stored, pending)
      BY <1>3, <3>1
    <3>3. \A j \in 1 .. i : f[j] = e[j]
      BY <1>1, <1>2, <2>1
    <3> QED BY <3>2, <3>3 DEF Stored
  <2>2. CASE i \notin 1 .. Len(e)
    <3>1. i - Len(e) \in 1 .. Len(x) /\ f[i] = x[i - Len(e)]
      BY <1>1, <1>2, <2>2
    <3>2. n = m
      <4>1. Chat!Done(n) \in {Chat!Error(m), Chat!Done(m)}
        BY <1>2, <3>1
      <4> QED BY <4>1, EventFacts
    <3>3. CASE x = <<Chat!Done(m)>> /\ (stored[m] = pending[m] \/ m \in bereft)
      BY <3>2, <3>3 DEF Stored
    <3>4. CASE x = <<Chat!Error(m), Chat!Done(m)>>
      <4>1. x[1] = Chat!Error(m) /\ Len(x) = 2
        BY <3>4
      <4>2. i - Len(e) # 1
        BY <3>1, <3>2, <4>1, EventFacts
      <4>3. Len(e) + 1 \in 1 .. i /\ f[Len(e) + 1] = x[1]
        BY <1>1, <1>2, <3>1, <4>1, <4>2
      <4> QED BY <3>2, <4>1, <4>3 DEF Stored
    <3> QED BY <3>3, <3>4
  <2> QED BY <2>1, <2>2
<1>6. ASSUME PiecesOf(e, pending) PROVE PiecesOf(f, pending)
  <2>1. \A n \in Messages, p \in 1 .. MaxPieces : \A j \in DOMAIN f :
           f[j] = Chat!Text(n, p) => j \in DOMAIN e /\ e[j] = Chat!Text(n, p)
    <3> SUFFICES ASSUME NEW n \in Messages, NEW p \in 1 .. MaxPieces, NEW j \in DOMAIN f,
                        f[j] = Chat!Text(n, p)
                 PROVE  j \in DOMAIN e /\ e[j] = Chat!Text(n, p)
      OBVIOUS
    <3>1. CASE j \in 1 .. Len(e) BY <1>1, <1>2, <3>1
    <3>2. CASE j \notin 1 .. Len(e)
      <4>1. j - Len(e) \in 1 .. Len(x) /\ f[j] = x[j - Len(e)]
        BY <1>1, <1>2, <3>2
      <4>2. Chat!Text(n, p) \in {Chat!Error(m), Chat!Done(m)}
        BY <1>2, <4>1
      <4> QED BY <4>2, EventFacts
    <3> QED BY <3>1, <3>2
  <2>2. \A j \in DOMAIN e : j \in DOMAIN f /\ f[j] = e[j]
    BY <1>1, <1>2
  <2> SUFFICES ASSUME NEW n \in Messages, NEW i \in DOMAIN f, NEW p \in 1 .. MaxPieces,
                      f[i] = Chat!Text(n, p)
               PROVE  /\ p <= Len(pending[n])
                      /\ \A q \in p + 1 .. Len(pending[n]) :
                           \E j \in i + 1 .. Len(f) : f[j] = Chat!Text(n, q)
                      /\ \A j \in DOMAIN f : f[j] = Chat!Text(n, p) => j = i
    BY DEF PiecesOf
  <2>3. i \in DOMAIN e /\ e[i] = Chat!Text(n, p)
    BY <2>1
  <2>4. /\ p <= Len(pending[n])
        /\ \A q \in p + 1 .. Len(pending[n]) :
             \E j \in i + 1 .. Len(e) : e[j] = Chat!Text(n, q)
        /\ \A j \in DOMAIN e : e[j] = Chat!Text(n, p) => j = i
    BY <1>6, <2>3 DEF PiecesOf
  <2>5. \A j \in i + 1 .. Len(e) : j \in i + 1 .. Len(f) /\ f[j] = e[j]
    BY <1>1, <1>2, <2>3
  <2>6. \A j \in DOMAIN f : f[j] = Chat!Text(n, p) => j = i
    BY <2>1, <2>4
  <2> QED BY <2>4, <2>5, <2>6
<1> QED BY <1>4, <1>5, <1>6 DEF f

\* An answer ends, with an error if it could not be stored.
LEMMA FinishStep == ASSUME ChatInv, NEW m \in Messages, Chat!Finish(m) PROVE ChatInv'
<1> USE DEF ChatInv
<1> DEFINE x == IF m \in broken THEN <<Chat!Error(m), Chat!Done(m)>> ELSE <<Chat!Done(m)>>
<1>1. /\ at[m] = "end" /\ Chat!Publish(x) /\ entry' = None
      /\ UNCHANGED <<pending, stored, broken, there, bereft, conn, shown, got>>
      /\ at' = [at EXCEPT ![m] = "over"]
  BY DEF Chat!Finish, Chat!Goto, Chat!clawVars
<1>2. at'[m] = "over" /\ \A y \in Messages \ {m} : at'[y] = at[y]
  BY <1>1 DEF Chat!TypeOK
<1>3. /\ x \in Seq(Chat!Event)
      /\ \/ x = <<Chat!Error(m), Chat!Done(m)>>
         \/ x = <<Chat!Done(m)>> /\ (stored[m] = pending[m] \/ m \in bereft)
  BY <1>1, EventFacts
<1> HIDE DEF x
<1>4. /\ queue' \in [Clients -> Seq(Chat!Event)]
      /\ \A c \in Clients :
           Chat!Events(c)' = IF c \in Chat!Subscribers THEN Chat!Events(c) \o x
                                                      ELSE Chat!Events(c)
      /\ \A c \in Clients : conn[c] = "off" => queue'[c] = queue[c]
  BY <1>1, <1>3, PublishAppends
<1>5. Chat!TypeOK'
  BY <1>1, <1>4 DEF Chat!TypeOK
<1>6. ASSUME NEW c \in Clients
      PROVE  /\ DonesOf(Chat!Events(c), at, stored, pending)'
             /\ c \in Chat!Subscribers => PiecesOf(Chat!Events(c), pending)'
  <2>1. Chat!Events(c) \in Seq(Chat!Event)
    BY EventsAreEvents
  <2>2. /\ DonesOf(Chat!Events(c), at, stored, pending)
        /\ c \in Chat!Subscribers => PiecesOf(Chat!Events(c), pending)
    OBVIOUS
  <2>3. \A e \in Seq(Chat!Event) : DonesOf(e, at, stored, pending) =>
               /\ DonesOf(e, at', stored, pending)
               /\ DonesOf(e \o x, at', stored, pending)
               /\ PiecesOf(e, pending) => PiecesOf(e \o x, pending)
    BY <1>2, <1>3, FinishEvents
  <2>4. UNCHANGED <<stored, pending, bereft>>
    BY <1>1
  <2>5. DonesOf(Chat!Events(c)', at', stored, pending)
    BY <1>4, <2>1, <2>2, <2>3
  <2>6. DonesOf(Chat!Events(c), at, stored, pending)'
    BY <2>4, <2>5 DEF DonesOf, Stored
  <2>7. c \in Chat!Subscribers => PiecesOf(Chat!Events(c), pending)'
    BY <1>4, <2>1, <2>2, <2>3, <2>4
  <2> QED BY <2>6, <2>7
<1>7. Chat!Subscribers' = Chat!Subscribers /\ Chat!Subscribers \subseteq Clients
  BY <1>1 DEF Chat!Subscribers
<1>8. \A y \in Messages :
         /\ at'[y] = "end" => y \in broken' \/ y \in bereft' \/ stored'[y] = pending'[y]
         /\ Chat!UnderWay(y)' => there' \/ y \in bereft'
  BY <1>1, <1>2 DEF Chat!UnderWay
<1> QED BY <1>1, <1>4, <1>5, <1>6, <1>7, <1>8

\* A client that comes has no events, and what it shows is made of pieces.
LEMMA ComeStep ==
    ASSUME ChatInv, NEW c \in Clients, Chat!Subscribe(c) \/ Chat!CatchUp(c)
    PROVE  ChatInv'
<1> USE DEF ChatInv
<1>1. UNCHANGED <<at, pending, entry, stored, broken, there, bereft, queue, got>>
  BY DEF Chat!Subscribe, Chat!CatchUp, Chat!chatVars, Chat!clawVars
<1>2. shown' \in [Clients -> Seq(Chat!Piece)]
  BY DEF Chat!Subscribe, Chat!CatchUp, Chat!TypeOK
<1>3. /\ conn' \in [Clients -> {"off", "subscribed", "open", "closed"}]
      /\ \A d \in Clients \ {c} : conn'[d] = conn[d]
      /\ conn[c] = "off" \/ c \in Chat!Subscribers
      /\ conn'[c] # "off"
  BY DEF Chat!Subscribe, Chat!CatchUp, Chat!SetConn, Chat!TypeOK, Chat!Subscribers
<1>4. Chat!TypeOK'
  BY <1>1, <1>2, <1>3 DEF Chat!TypeOK
<1>5. \A d \in Clients : Chat!Events(d)' = Chat!Events(d)
  BY <1>1 DEF Chat!Events
<1>6. conn[c] = "off" => Chat!Events(c) = <<>>
  BY DEF Chat!Events
<1>7. conn[c] = "off" => PiecesOf(Chat!Events(c), pending)
  BY <1>6 DEF PiecesOf
<1>8. \A d \in Chat!Subscribers' : d \in Chat!Subscribers \/ (d = c /\ conn[c] = "off")
  BY <1>3 DEF Chat!Subscribers
<1>9. \A d \in Chat!Subscribers' : d \in Clients /\ PiecesOf(Chat!Events(d), pending)
  BY <1>7, <1>8 DEF Chat!Subscribers
<1>10. \A d \in Chat!Subscribers' : PiecesOf(Chat!Events(d), pending)'
  BY <1>1, <1>5, <1>9
<1>11. \A d \in Clients : DonesOf(Chat!Events(d), at, stored, pending)'
  BY <1>1, <1>5 DEF DonesOf, Stored
<1> QED BY <1>1, <1>3, <1>4, <1>10, <1>11 DEF Chat!UnderWay

\* Taking the head of one sequence to the end of another keeps what both hold.
LEMMA MovedOver ==
    ASSUME NEW S, NEW s \in Seq(S), NEW t \in Seq(S), t # <<>>
    PROVE  Append(s, Head(t)) \o Tail(t) = s \o t
<1>1. Head(t) \in S /\ Tail(t) \in Seq(S) /\ Len(Tail(t)) = Len(t) - 1
      /\ \A i \in 1 .. Len(Tail(t)) : Tail(t)[i] = t[i + 1]
  BY HeadTailProperties
<1>2. /\ Append(s, Head(t)) \in Seq(S) /\ Len(Append(s, Head(t))) = Len(s) + 1
      /\ \A i \in 1 .. Len(s) : Append(s, Head(t))[i] = s[i]
      /\ Append(s, Head(t))[Len(s) + 1] = Head(t)
  BY <1>1, AppendProperties
<1> DEFINE a == Append(s, Head(t))
           b == Tail(t)
<1> HIDE DEF a, b
<1>3. /\ a \o b \in Seq(S) /\ Len(a \o b) = Len(a) + Len(b)
      /\ \A i \in 1 .. Len(a) + Len(b) : (a \o b)[i] = IF i <= Len(a) THEN a[i] ELSE b[i - Len(a)]
  BY <1>1, <1>2, ConcatProperties DEF a, b
<1>4. /\ s \o t \in Seq(S) /\ Len(s \o t) = Len(s) + Len(t)
      /\ \A i \in 1 .. Len(s) + Len(t) : (s \o t)[i] = IF i <= Len(s) THEN s[i] ELSE t[i - Len(s)]
  BY ConcatProperties
<1>5. /\ Len(a) = Len(s) + 1 /\ Len(b) = Len(t) - 1 /\ Len(s) \in Nat /\ Len(t) \in Nat
      /\ \A i \in 1 .. Len(s) : a[i] = s[i]
      /\ a[Len(s) + 1] = t[1] /\ \A i \in 1 .. Len(b) : b[i] = t[i + 1]
  <2>1. Head(t) = t[1]
    OBVIOUS
  <2> QED BY <1>1, <1>2, <2>1 DEF a, b
<1>6. Len(a \o b) = Len(s \o t)
  BY <1>3, <1>4, <1>5
<1>7. ASSUME NEW i \in 1 .. Len(a \o b) PROVE (a \o b)[i] = (s \o t)[i]
  <2>1. (a \o b)[i] = IF i <= Len(s) THEN s[i] ELSE t[i - Len(s)]
    <3>1. i \in Nat /\ i <= Len(s) + Len(t) /\ i >= 1
      BY <1>3, <1>5
    <3>2. CASE i <= Len(s)
      BY <1>3, <1>5, <3>1, <3>2
    <3>3. CASE i = Len(s) + 1
      BY <1>3, <1>5, <3>1, <3>3
    <3>4. CASE i > Len(s) + 1
      <4>1. i - Len(a) \in 1 .. Len(b) /\ (i - Len(a)) + 1 = i - Len(s)
        BY <1>5, <3>1, <3>4
      <4>2. i \in 1 .. Len(a) + Len(b) /\ ~ (i <= Len(a))
        BY <1>5, <3>1, <3>4
      <4>3. (a \o b)[i] = b[i - Len(a)]
        BY <1>3, <4>2
      <4>4. b[i - Len(a)] = t[(i - Len(a)) + 1]
        BY <1>5, <4>1
      <4>5. (a \o b)[i] = t[i - Len(s)] /\ ~ (i <= Len(s))
        BY <1>5, <3>1, <3>4, <4>1, <4>3, <4>4
      <4> QED BY <4>5
    <3> QED BY <1>5, <3>1, <3>2, <3>3, <3>4
  <2> QED BY <1>4, <1>6, <2>1
<1>8. a \o b = s \o t
  BY <1>3, <1>4, <1>6, <1>7, SeqEqual
<1> QED BY <1>8 DEF a, b

\* What is delivered stays among the events.
LEMMA DeliverStep == ASSUME ChatInv, NEW c \in Clients, Chat!Deliver(c) PROVE ChatInv'
<1> USE DEF ChatInv
<1>1. /\ UNCHANGED <<at, pending, entry, stored, broken, there, bereft, conn>>
      /\ conn[c] = "open" /\ queue[c] # <<>>
      /\ queue' = [queue EXCEPT ![c] = Tail(queue[c])]
      /\ got' = [got EXCEPT ![c] = Append(got[c], Head(queue[c]))]
      /\ shown' = [shown EXCEPT ![c] = Chat!Show(shown[c], Head(queue[c]))]
  BY DEF Chat!Deliver, Chat!chatVars, Chat!clawVars
<1>2. got[c] \in Seq(Chat!Event) /\ queue[c] \in Seq(Chat!Event) /\ shown[c] \in Seq(Chat!Piece)
  BY DEF Chat!TypeOK
<1>3. Head(queue[c]) \in Chat!Event /\ Tail(queue[c]) \in Seq(Chat!Event)
  BY <1>1, <1>2, HeadTailProperties
<1>4. Chat!Show(shown[c], Head(queue[c])) \in Seq(Chat!Piece)
  <2>1. CASE Head(queue[c]).type = "text"
    <3>1. Chat!Show(shown[c], Head(queue[c])) =
             Append(shown[c], <<Head(queue[c]).of, Head(queue[c]).piece>>)
      BY <2>1 DEF Chat!Show
    <3>2. <<Head(queue[c]).of, Head(queue[c]).piece>> \in Chat!Piece
      BY <1>3, <2>1, EventKinds DEF Chat!Piece
    <3>3. Append(shown[c], <<Head(queue[c]).of, Head(queue[c]).piece>>) \in Seq(Chat!Piece)
      BY <1>2, <3>2, AppendProperties
    <3> QED BY <3>1, <3>3
  <2>2. CASE Head(queue[c]).type # "text"
    BY <1>2, <2>2 DEF Chat!Show
  <2> QED BY <2>1, <2>2
<1>5. /\ queue' \in [Clients -> Seq(Chat!Event)] /\ got' \in [Clients -> Seq(Chat!Event)]
      /\ shown' \in [Clients -> Seq(Chat!Piece)]
      /\ queue'[c] = Tail(queue[c]) /\ got'[c] = Append(got[c], Head(queue[c]))
      /\ \A d \in Clients \ {c} : queue'[d] = queue[d] /\ got'[d] = got[d]
  BY <1>1, <1>2, <1>3, <1>4 DEF Chat!TypeOK
<1>6. Append(got[c], Head(queue[c])) \o Tail(queue[c]) = got[c] \o queue[c]
  BY <1>1, <1>2, <1>3, MovedOver
<1>7. \A d \in Clients : Chat!Events(d)' = Chat!Events(d)
  BY <1>5, <1>6 DEF Chat!Events
<1>8. Chat!TypeOK'
  BY <1>1, <1>5 DEF Chat!TypeOK
<1>9. Chat!Subscribers' = Chat!Subscribers /\ Chat!Subscribers \subseteq Clients
  BY <1>1 DEF Chat!Subscribers
<1>10. \A d \in Clients : conn'[d] = "off" => got'[d] = <<>> /\ queue'[d] = <<>>
  BY <1>1, <1>5
<1>11. \A d \in Clients : DonesOf(Chat!Events(d), at, stored, pending)'
  BY <1>1, <1>7 DEF DonesOf, Stored
<1>12. \A d \in Chat!Subscribers : PiecesOf(Chat!Events(d), pending)'
  BY <1>1, <1>7, <1>9
<1> QED BY <1>1, <1>8, <1>9, <1>10, <1>11, <1>12 DEF Chat!UnderWay

\* The first of the events are in order if all are.
LEMMA PrefixKeeps ==
    ASSUME NEW e \in Seq(Chat!Event), NEW x \in Seq(Chat!Event),
           DonesOf(e \o x, at, stored, pending)
    PROVE  DonesOf(e, at, stored, pending)
<1>1. /\ e \o x \in Seq(Chat!Event) /\ Len(e \o x) = Len(e) + Len(x)
      /\ \A i \in 1 .. Len(e) + Len(x) : (e \o x)[i] = IF i <= Len(e) THEN e[i] ELSE x[i - Len(e)]
  BY ConcatProperties
<1>2. /\ DOMAIN e = 1 .. Len(e) /\ Len(e) \in Nat /\ Len(x) \in Nat
      /\ DOMAIN (e \o x) = 1 .. Len(e) + Len(x)
  BY <1>1
<1>3. \A i \in DOMAIN e : i \in DOMAIN (e \o x) /\ (e \o x)[i] = e[i]
  BY <1>1, <1>2
<1>4. \A i \in DOMAIN e : \A j \in 1 .. i : j \in DOMAIN e
  BY <1>2
<1> QED BY <1>3, <1>4 DEF DonesOf, Stored

\* A client that goes keeps what it got.
LEMMA CloseStep == ASSUME ChatInv, NEW c \in Clients, Chat!Close(c) PROVE ChatInv'
<1> USE DEF ChatInv
<1>1. /\ UNCHANGED <<at, pending, entry, stored, broken, there, bereft, shown, got>>
      /\ queue' = [queue EXCEPT ![c] = <<>>]
      /\ conn' = [conn EXCEPT ![c] = "closed"] /\ conn[c] # "off"
  BY DEF Chat!Close, Chat!chatVars, Chat!clawVars, Chat!SetConn
<1>2. /\ queue' \in [Clients -> Seq(Chat!Event)]
      /\ \A d \in Clients : queue'[d] = IF d = c THEN <<>> ELSE queue[d]
      /\ \A d \in Clients : conn'[d] = IF d = c THEN "closed" ELSE conn[d]
      /\ conn' \in [Clients -> {"off", "subscribed", "open", "closed"}]
  BY <1>1 DEF Chat!TypeOK
<1>3. Chat!TypeOK'
  BY <1>1, <1>2 DEF Chat!TypeOK
<1>4. \A d \in Clients : Chat!Events(d)' = IF d = c THEN got[c] ELSE Chat!Events(d)
  <2>1. \A d \in Clients : got[d] \in Seq(Chat!Event)
    BY EventsAreEvents
  <2>2. \A d \in Clients : Chat!Events(d)' = got[d] \o queue'[d]
    BY <1>1 DEF Chat!Events
  <2>3. got[c] \o <<>> = got[c]
    BY <2>1, ConcatEmptySeq
  <2> QED BY <1>2, <2>2, <2>3 DEF Chat!Events
<1>5. Chat!Subscribers' = Chat!Subscribers \ {c} /\ Chat!Subscribers \subseteq Clients
  BY <1>2 DEF Chat!Subscribers
<1>6. DonesOf(got[c], at, stored, pending)
  <2>1. got[c] \in Seq(Chat!Event) /\ queue[c] \in Seq(Chat!Event)
    BY EventsAreEvents
  <2>2. DonesOf(got[c] \o queue[c], at, stored, pending)
    BY DEF Chat!Events
  <2> QED BY <2>1, <2>2, PrefixKeeps
<1>7. \A d \in Clients : DonesOf(Chat!Events(d), at, stored, pending)'
  BY <1>1, <1>4, <1>6 DEF DonesOf, Stored
<1>8. \A d \in Chat!Subscribers' : PiecesOf(Chat!Events(d), pending)'
  BY <1>1, <1>4, <1>5
<1> QED BY <1>1, <1>2, <1>3, <1>7, <1>8 DEF Chat!UnderWay

\* What was told of an answer stays so when its claw is deleted, and when it is made.
LEMMA ClawStep == ASSUME ChatInv, Chat!DeleteClaw \/ Chat!MakeClaw PROVE ChatInv'
<1> USE DEF ChatInv
<1>1. /\ UNCHANGED <<at, pending, entry, stored, broken, conn, queue, shown, got>>
      /\ there' \in BOOLEAN
      /\ bereft' = bereft \/ bereft' = bereft \cup {m \in Messages : Chat!UnderWay(m)}
      /\ there' \/ bereft' = bereft \cup {m \in Messages : Chat!UnderWay(m)}
  BY DEF Chat!DeleteClaw, Chat!MakeClaw, Chat!clientVars
<1>2. Chat!TypeOK'
  BY <1>1 DEF Chat!TypeOK
<1>3. \A c \in Clients : Chat!Events(c)' = Chat!Events(c)
  BY <1>1 DEF Chat!Events
<1>4. Chat!Subscribers' = Chat!Subscribers /\ Chat!Subscribers \subseteq Clients
  BY <1>1 DEF Chat!Subscribers
<1>5. \A c \in Clients : DonesOf(Chat!Events(c), at, stored, pending)'
  BY <1>1, <1>3 DEF DonesOf, Stored
<1>6. \A c \in Chat!Subscribers : PiecesOf(Chat!Events(c), pending)'
  BY <1>1, <1>3, <1>4 DEF PiecesOf
<1> QED BY <1>1, <1>2, <1>4, <1>5, <1>6 DEF Chat!UnderWay

\* Every step of the chat keeps the invariant.
LEMMA ChatStep == ChatInv /\ [Chat!Next]_chatVars => ChatInv'
<1> SUFFICES ASSUME ChatInv, [Chat!Next]_chatVars PROVE ChatInv'
  OBVIOUS
<1>1. ASSUME NEW m \in Messages, Chat!Chat(m) PROVE ChatInv'
  BY <1>1, SilentChat, ChunkStep, FinishStep DEF Chat!Chat, Chat!Work
<1>2. ASSUME NEW c \in Clients, Chat!Conn(c) PROVE ChatInv'
  BY <1>2, ComeStep, DeliverStep, CloseStep DEF Chat!Conn
<1>3. CASE UNCHANGED chatVars
  <2> USE <1>3 DEF chatVars, Chat!UnderWay, Stored
  <2>1. Chat!TypeOK'
    BY DEF ChatInv, Chat!TypeOK
  <2>2. \A c \in Clients : Chat!Events(c)' = Chat!Events(c)
    BY DEF Chat!Events
  <2>3. Chat!Subscribers' = Chat!Subscribers /\ Chat!Subscribers \subseteq Clients
    BY DEF Chat!Subscribers
  <2>4. \A c \in Clients :
          DonesOf(Chat!Events(c), at, stored, pending) =>
              DonesOf(Chat!Events(c), at, stored, pending)'
    BY <2>2 DEF DonesOf
  <2> QED BY <2>1, <2>2, <2>3, <2>4 DEF ChatInv
<1> QED BY <1>1, <1>2, <1>3, ClawStep DEF Chat!Next

\* What it says of the events.
LEMMA ChatMeans == ChatInv => Chat!DoneIsStored /\ Chat!NoGaps
  BY DEF ChatInv, Chat!DoneIsStored, Chat!NoGaps, DonesOf, Stored, PiecesOf, Chat!Subscribers

\* The chat is as the invariant says, alone and beside the other parts.
LEMMA ChatHolds == AllSpec \/ Chat!Spec => []ChatInv
<1>1. AllInit => ChatInv
  BY ChatInit DEF AllInit
<1>2. ChatInv /\ [AllNext]_allVars => ChatInv'
  BY ChatStep DEF AllNext, allVars
<1>3. ChatInv /\ [Chat!Next]_(Chat!vars) => ChatInv'
  BY ChatStep DEF Chat!vars, Chat!chatVars, Chat!clawVars, Chat!clientVars, chatVars
<1> QED BY <1>1, <1>2, <1>3, ChatInit, PTL DEF AllSpec, Chat!Spec

\* A client told that an answer is done was told of an error before, or the answer was
\* stored, unless the claw was deleted while the message was under way: for any number of
\* messages answered at once, of clients that come and go, and of deletions of the claw
\* (_process_chat holds the claw's own "done" back).
THEOREM EndsAreStored == AllSpec \/ Chat!Spec => []DoneIsStored
<1>1. ChatInv => DoneIsStored
  BY ChatMeans DEF DoneIsStored
<1> QED BY <1>1, ChatHolds, PTL

\* A client that has received a piece of an answer receives every later one, once
\* and in order, whatever other answers and connections do (ClawEventBus).
THEOREM PiecesReachClients == AllSpec \/ Chat!Spec => []NoGaps
<1>1. ChatInv => NoGaps
  BY ChatMeans DEF NoGaps
<1> QED BY <1>1, ChatHolds, PTL

-----------------------------------------------------------------------------
(* The merged history (ClawHistory) *)

\* The merge counts as the library does.
LEMMA SameCount == ASSUME NEW S PROVE Merge!Cardinality(S) = Cardinality(S)
  BY DEF Merge!Cardinality, Cardinality

\* A non-empty set of numbers has a least one.
LEMMA Least ==
  ASSUME NEW T, T \subseteq Nat, T # {}
  PROVE  \E x \in T : \A y \in T : x <= y
<1> DEFINE R == StrictSubsetOrdering(Nat)
           S == FiniteSubsetsOf(Nat)
           I == {1 .. x : x \in T}
<1>1. IsWellFoundedOn(R, S)
  BY FS_StrictSubsetOrderingWellFounded
<1>2. I \subseteq S /\ I # {}
  <2> SUFFICES ASSUME NEW x \in T PROVE 1 .. x \in S
    OBVIOUS
  <2> QED BY FS_Interval DEF FiniteSubsetsOf
<1>3. PICK X \in I : \A Y \in I : <<Y, X>> \notin R
  <2> HIDE DEF R, S, I
  <2> QED BY <1>1, <1>2, WFMin
<1>4. PICK x \in T : X = 1 .. x
  OBVIOUS
<1>5. ASSUME NEW y \in T, y < x PROVE FALSE
  <2>1. 1 .. y \subseteq 1 .. x /\ x \in 1 .. x /\ x \notin 1 .. y
    BY <1>5
  <2>2. <<1 .. y, 1 .. x>> \in R
    BY <2>1 DEF StrictSubsetOrdering
  <2> QED BY <2>2, <1>3, <1>4
<1> QED BY <1>5

\* The places of the elements are those of a permutation.
LEMMA SortIsPermutation ==
    ASSUME NEW n \in Nat, NEW s, DOMAIN s = 1 .. n, \A i \in 1 .. n : s[i].ts \in Nat
    PROVE  \E f \in Bijection(1 .. n, 1 .. n) :
             \A p \in 1 .. n : Merge!SortByTime(s)[p] = s[f[p]]
<1> DEFINE D == 1 .. n
           Before(i) == {j \in D : s[j].ts < s[i].ts \/ (s[j].ts = s[i].ts /\ j <= i)}
           P == [i \in D |-> Cardinality(Before(i))]
<1>1. IsFiniteSet(D) /\ Cardinality(D) = n
  BY FS_Interval
<1>2. ASSUME NEW i \in D PROVE /\ Merge!Place(s, i) = Cardinality(Before(i))
                               /\ i \in Before(i) /\ IsFiniteSet(Before(i))
                               /\ Cardinality(Before(i)) \in D
  <2>1. Merge!Place(s, i) = Cardinality(Before(i))
    BY SameCount DEF Merge!Place
  <2>2. i \in Before(i) /\ Before(i) \in SUBSET D
    OBVIOUS
  <2>3. IsFiniteSet(Before(i)) /\ Cardinality(Before(i)) <= n
    BY <1>1, <2>2, FS_Subset
  <2>4. Cardinality(Before(i)) \in Nat /\ Cardinality(Before(i)) # 0
    BY <2>2, <2>3, FS_EmptySet, FS_CardinalityType
  <2> QED BY <2>1, <2>2, <2>3, <2>4
<1>3. ASSUME NEW i \in D, NEW j \in D, i # j, s[i].ts < s[j].ts \/ (s[i].ts = s[j].ts /\ i < j)
      PROVE Cardinality(Before(i)) # Cardinality(Before(j))
  <2>1. Before(i) \in SUBSET Before(j) /\ j \notin Before(i)
    BY <1>3
  <2>2. j \in Before(j) /\ IsFiniteSet(Before(j))
    BY <1>2
  <2> HIDE DEF Before
  <2> QED BY <2>1, <2>2, FS_Subset
<1>4. ASSUME NEW i \in D, NEW j \in D, i # j
      PROVE  Cardinality(Before(i)) # Cardinality(Before(j))
  <2>1. \/ s[i].ts < s[j].ts \/ (s[i].ts = s[j].ts /\ i < j)
        \/ s[j].ts < s[i].ts \/ (s[j].ts = s[i].ts /\ j < i)
    BY <1>4
  <2> HIDE DEF Before
  <2> QED BY <2>1, <1>3, <1>4
<1>5. P \in [D -> D] /\ \A i, j \in D : P[i] = P[j] => i = j
  <2> HIDE DEF Before, D
  <2> QED BY <1>2, <1>4
<1>6. \A p \in D : \E i \in D : P[i] = p
  <2> HIDE DEF P, D
  <2>1. P \in Injection(D, D)
    BY <1>5, Fun_IsInj
  <2>2. P \in Surjection(D, D)
    BY <2>1, <1>1, FS_Injection
  <2> QED BY <2>2, Fun_SurjectionProperties
<1> DEFINE f == [p \in D |-> CHOOSE i \in D : Merge!Place(s, i) = p]
<1>7. \A p \in D : f[p] \in D /\ P[f[p]] = p
  <2> SUFFICES ASSUME NEW p \in D PROVE f[p] \in D /\ P[f[p]] = p
    OBVIOUS
  <2>1. \E i \in D : Merge!Place(s, i) = p
    BY <1>2, <1>6
  <2> HIDE DEF D
  <2>2. f[p] \in D /\ Merge!Place(s, f[p]) = p
    BY <2>1
  <2> HIDE DEF f
  <2> QED BY <2>2, <1>2
<1>8. f \in [D -> D] /\ \A p, q \in D : f[p] = f[q] => p = q
  <2>1. f \in [D -> D]
    BY <1>7
  <2> HIDE DEF f, P, D
  <2> QED BY <2>1, <1>7
<1>9. f \in Bijection(D, D)
  <2> HIDE DEF f, P
  <2>1. \A i \in D : \E p \in D : f[p] = i
    BY <1>5, <1>7
  <2> HIDE DEF D
  <2> QED BY <2>1, <1>8, Fun_IsBij
<1>10. \A p \in D : Merge!SortByTime(s)[p] = s[f[p]]
  BY DEF Merge!SortByTime
<1> QED BY <1>9, <1>10

\* Where the elements of a kind are.
Those(s, T) == {i \in DOMAIN s : s[i] \in T}

\* What is sorted has as many elements of a kind as before.
LEMMA SortKeepsCounts ==
    ASSUME NEW n \in Nat, NEW s, DOMAIN s = 1 .. n, \A i \in 1 .. n : s[i].ts \in Nat, NEW T
    PROVE  /\ DOMAIN Merge!SortByTime(s) = 1 .. n
           /\ Cardinality(Those(Merge!SortByTime(s), T)) = Cardinality(Those(s, T))
<1> DEFINE D == 1 .. n
           h == Merge!SortByTime(s)
           A == {p \in D : h[p] \in T}
           B == {i \in D : s[i] \in T}
<1>1. DOMAIN h = D
  BY DEF Merge!SortByTime
<1>2. PICK f \in Bijection(D, D) : \A p \in D : h[p] = s[f[p]]
  <2>1. \E f \in Bijection(1 .. n, 1 .. n) :
          \A p \in 1 .. n : Merge!SortByTime(s)[p] = s[f[p]]
    BY SortIsPermutation
  <2> QED BY <2>1
<1> HIDE DEF D, h
<1>3. /\ f \in [D -> D] /\ \A p, q \in D : f[p] = f[q] => p = q
      /\ \A i \in D : \E p \in D : f[p] = i
  BY <1>2, Fun_BijectionProperties
<1> DEFINE g == [p \in A |-> f[p]]
<1>4. g \in [A -> B] /\ \A p, q \in A : g[p] = g[q] => p = q
  BY <1>2, <1>3
<1>5. \A i \in B : \E p \in A : g[p] = i
  BY <1>2, <1>3
<1>6. ExistsBijection(A, B)
  <2> HIDE DEF A, B, g
  <2>1. g \in Bijection(A, B)
    BY <1>4, <1>5, Fun_IsBij
  <2> QED BY <2>1 DEF ExistsBijection
<1>7. IsFiniteSet(A)
  <2>1. IsFiniteSet(D) /\ A \in SUBSET D
    BY FS_Interval DEF D
  <2> QED BY <2>1, FS_Subset
<1>8. Those(h, T) = A /\ Those(s, T) = B
  BY <1>1 DEF Those, D
<1> HIDE DEF A, B
<1> QED BY <1>1, <1>6, <1>7, <1>8, FS_Bijection DEF D, h

-----------------------------------------------------------------------------
NativeMessage == Merge!Native(Merge!ClawTime)

\* The sources are as they were at first, each in the order of its clock.
Sources ==
    /\ db \in Seq(Merge!Message) /\ native \in Seq(NativeMessage)
    /\ \A i, j \in DOMAIN db : i < j => db[i].ts <= db[j].ts
    /\ \A i, j \in DOMAIN native :
         i < j => Merge!Normalize(native[i].ts) <= Merge!Normalize(native[j].ts)

\* What was merged begins with the database's messages.
Begins == Len(db) <= Len(merged) /\ \A i \in 1 .. Len(db) : merged[i] = db[i]

\* Each text that was taken has a message of its own in what was merged.
Taken == {k \in 1 .. Len(native) : k < next /\ native[k].content # ""}
Homes(h, taken, s, gone) ==
    /\ \A k \in taken : /\ s[h[k]].role = native[k].role
                        /\ s[h[k]].content = native[k].content
                        /\ h[k] <= Len(db) => h[k] \in gone
    /\ \A k, l \in taken : h[k] = h[l] => k = l
TakenAreHome == \E h \in [Taken -> 1 .. Len(merged)] : Homes(h, Taken, merged, used)

\* If each text of the claw can have a partner, each that was not taken yet still can,
\* and no text was added.
Left     == {k \in 1 .. Len(native) : k >= next /\ native[k].content # ""}
Pairable == \E f \in [Merge!Texts(native) -> DOMAIN db] : Merge!Partners(f)
PartnersLeft ==
    Pairable =>
        /\ \E g \in [Left -> (1 .. Len(db)) \ used] : Merge!Partners(g)
        /\ \A i \in Len(db) + 1 .. Len(merged) : merged[i].role = "attachments"

\* A file that was seen is shown where the database has it, or else once.
FilesOnce ==
    /\ seen = Merge!FilesOf(db) \cup UNION {native[k].files : k \in 1 .. next - 1}
    /\ \A f \in Files :
         /\ f \notin seen => \A i \in 1 .. Len(merged) : f \notin merged[i].files
         /\ f \in Merge!FilesOf(db) =>
              \A i \in Len(db) + 1 .. Len(merged) : f \notin merged[i].files
         /\ f \in seen \ Merge!FilesOf(db) =>
              \E i \in 1 .. Len(merged) :
                \A j \in 1 .. Len(merged) : f \in merged[j].files <=> j = i

\* The answer is what was merged, in order, once all was taken.
Answered ==
    \/ history = <<>>
    \/ next = Len(native) + 1
       /\ history = IF native = <<>> THEN db ELSE Merge!SortByTime(merged)

MergeInv ==
    /\ Merge!TypeOK /\ Sources /\ Begins /\ TakenAreHome /\ PartnersLeft /\ FilesOnce /\ Answered

\* What messages are made of.
LEMMA MergeConstants ==
    /\ "" \notin Contents /\ "attachments" \notin Roles
    /\ Times \subseteq Nat /\ Units \subseteq {"s", "ms"} /\ MaxLen \in Nat
  BY PartsAssumption DEF Merge!HistoryAssumption

\* A time of the claw in seconds.
LEMMA SecondsAreNumbers == \A t \in Merge!ClawTime : Merge!Normalize(t) \in Nat
<1> SUFFICES ASSUME NEW t \in Merge!ClawTime PROVE Merge!Normalize(t) \in Nat
  OBVIOUS
<1>1. t[2] \in Nat
  BY MergeConstants DEF Merge!ClawTime
<1> DEFINE n == t[2]
<1>2. (1000 * n) \div 1000 \in Nat
  <2> HIDE DEF n
  <2> QED BY <1>1 DEF n
<1> QED BY <1>1, <1>2 DEF Merge!Normalize

\* The messages of the sources, and those that are added, are messages.
LEMMA MessageFacts ==
    /\ \A x \in Merge!Message : x.ts \in Nat /\ x.files \subseteq Files
    /\ \A m \in NativeMessage :
         /\ m.role \in Roles /\ m.content \in Contents \cup {""} /\ m.files \subseteq Files
         /\ Merge!Normalize(m.ts) \in Nat
         /\ m.content # "" => Merge!Ours(m) \in Merge!Message
         /\ \A F \in SUBSET m.files : F # {} =>
              [role |-> "attachments", content |-> m.role, ts |-> Merge!Normalize(m.ts),
               files |-> F] \in Merge!Message
<1>1. \A x \in Merge!Message : x.ts \in Nat /\ x.files \subseteq Files
  BY DEF Merge!Message, Merge!Text, Merge!Attachments
<1>2. ASSUME NEW m \in NativeMessage
      PROVE /\ m.role \in Roles /\ m.content \in Contents \cup {""} /\ m.files \subseteq Files
            /\ Merge!Normalize(m.ts) \in Nat
  BY SecondsAreNumbers DEF NativeMessage, Merge!Native
<1>3. ASSUME NEW m \in NativeMessage, m.content # "" PROVE Merge!Ours(m) \in Merge!Message
  <2>1. Merge!Ours(m) \in Merge!Text(Nat)
    BY <1>2, <1>3 DEF Merge!Ours, Merge!Text
  <2> QED BY <2>1 DEF Merge!Message
<1>4. ASSUME NEW m \in NativeMessage, NEW F \in SUBSET m.files, F # {}
      PROVE [role |-> "attachments", content |-> m.role, ts |-> Merge!Normalize(m.ts),
             files |-> F] \in Merge!Message
  <2>1. F \in (SUBSET Files) \ {{}}
    BY <1>2, <1>4
  <2>2. [role |-> "attachments", content |-> m.role, ts |-> Merge!Normalize(m.ts),
         files |-> F] \in Merge!Attachments(Nat)
    BY <1>2, <2>1 DEF Merge!Attachments
  <2> QED BY <2>2 DEF Merge!Message
<1> QED BY <1>1, <1>2, <1>3, <1>4

\* A sequence of the sources.
LEMMA SourceIsSeq ==
    ASSUME NEW S, NEW s \in Merge!SeqsUpTo(S)
    PROVE  s \in Seq(S)
<1>1. PICK n \in 0 .. MaxLen : s \in [1 .. n -> S]
  BY DEF Merge!SeqsUpTo
<1>2. n \in Nat
  <2>1. MaxLen \in Nat
    BY MergeConstants
  <2> QED BY <1>1, <2>1
<1> QED BY <1>1, <1>2

\* Before the first message is taken, the history is the database's.
LEMMA MergeInit == Merge!Init => MergeInv
<1> SUFFICES ASSUME Merge!Init PROVE MergeInv
  OBVIOUS
<1>1. /\ next = 1 /\ merged = db /\ used = {} /\ seen = Merge!FilesOf(db) /\ history = <<>>
      /\ db \in Merge!SeqsUpTo(Merge!Text(Times) \cup Merge!Attachments(Times))
      /\ native \in Merge!SeqsUpTo(NativeMessage)
  BY DEF Merge!Init, NativeMessage
<1>2. /\ db \in Seq(Merge!Text(Times) \cup Merge!Attachments(Times))
      /\ native \in Seq(NativeMessage)
  BY <1>1, SourceIsSeq
<1>3. db \in Seq(Merge!Message)
  <2>1. Merge!Text(Times) \cup Merge!Attachments(Times) \subseteq Merge!Message
    BY MergeConstants DEF Merge!Message, Merge!Text, Merge!Attachments
  <2> HIDE DEF Merge!Message
  <2> QED BY <1>2, <2>1
<1>4. Len(db) \in Nat /\ DOMAIN db = 1 .. Len(db) /\ DOMAIN native = 1 .. Len(native)
      /\ Len(native) \in Nat /\ \A i \in 1 .. Len(db) : db[i] \in Merge!Message
  BY <1>2, <1>3
<1>5. Sources
  <2>1. \A i, j \in DOMAIN db : i < j => db[i].ts <= db[j].ts
    BY DEF Merge!Init, Merge!IsOrdered, Merge!Seconds
  <2>2. \A i, j \in DOMAIN native :
          i < j => Merge!Normalize(native[i].ts) <= Merge!Normalize(native[j].ts)
    BY DEF Merge!Init, Merge!IsOrdered
  <2> QED BY <1>2, <1>3, <2>1, <2>2 DEF Sources
<1>6. Merge!TypeOK
  <2>1. Merge!FilesOf(db) \subseteq Files
    BY <1>4, MessageFacts DEF Merge!FilesOf
  <2>2. <<>> \in Seq(Merge!Message)
    OBVIOUS
  <2> HIDE DEF Merge!Message
  <2> QED BY <1>1, <1>3, <1>4, <2>1, <2>2 DEF Merge!TypeOK
<1>7. Begins
  BY <1>1, <1>4 DEF Begins
<1>8. TakenAreHome
  <2>1. Taken = {}
    <3>1. \A k \in 1 .. Len(native) : ~ (k < 1)
      BY <1>4
    <3> QED BY <1>1, <3>1 DEF Taken
  <2>2. [k \in {} |-> 1] \in [Taken -> 1 .. Len(merged)] /\ Homes([k \in {} |-> 1], Taken, merged, used)
    BY <2>1 DEF Homes
  <2> QED BY <2>2 DEF TakenAreHome
<1>9. PartnersLeft
  <2>1. Left = Merge!Texts(native)
    <3>1. \A k \in 1 .. Len(native) : native[k] \in NativeMessage /\ k >= 1
      BY <1>2, <1>4
    <3>2. \A k \in 1 .. Len(native) : native[k].role # "attachments"
      BY <3>1, MessageFacts, MergeConstants
    <3> QED BY <1>1, <1>4, <3>1, <3>2 DEF Left, Merge!Texts
  <2>2. \A i \in Len(db) + 1 .. Len(merged) : FALSE
    BY <1>1, <1>4
  <2> QED BY <1>1, <1>4, <2>1, <2>2 DEF PartnersLeft, Pairable
<1>10. FilesOnce
  <2>1. UNION {native[k].files : k \in 1 .. next - 1} = {}
    BY <1>1
  <2>2. \A i \in Len(db) + 1 .. Len(merged) : FALSE
    BY <1>1, <1>4
  <2>3. \A i \in 1 .. Len(merged) : merged[i].files \subseteq seen
    BY <1>1, <1>4 DEF Merge!FilesOf
  <2> QED BY <1>1, <2>1, <2>2, <2>3 DEF FilesOnce
<1>11. Answered
  BY <1>1 DEF Answered
<1> QED BY <1>5, <1>6, <1>7, <1>8, <1>9, <1>10, <1>11 DEF MergeInv

\* What WithFiles adds: one message with the files that are new, or nothing.
LEMMA WithFilesFacts ==
    ASSUME Merge!TypeOK, NEW m \in NativeMessage
    PROVE  LET w == Merge!WithFiles(m) IN
           /\ w \in Seq(Merge!Message)
           /\ \A i \in 1 .. Len(merged) : w[i] = merged[i]
           /\ m.files \subseteq seen => Len(w) = Len(merged)
           /\ ~ (m.files \subseteq seen) =>
                /\ Len(w) = Len(merged) + 1
                /\ w[Len(merged) + 1].role = "attachments"
                /\ w[Len(merged) + 1].files = m.files \ seen
<1> DEFINE w == Merge!WithFiles(m)
           x == [role |-> "attachments", content |-> m.role,
                 ts |-> Merge!Normalize(m.ts), files |-> m.files \ seen]
<1>1. merged \in Seq(Merge!Message)
  BY DEF Merge!TypeOK
<1>2. CASE m.files \subseteq seen
  BY <1>1, <1>2 DEF Merge!WithFiles
<1>3. CASE ~ (m.files \subseteq seen)
  <2>1. w = Append(merged, x)
    BY <1>3 DEF Merge!WithFiles
  <2>2. x \in Merge!Message
    BY <1>3, MessageFacts
  <2>3. x.role = "attachments" /\ x.files = m.files \ seen
    OBVIOUS
  <2> HIDE DEF x, w
  <2>4. /\ w \in Seq(Merge!Message) /\ Len(w) = Len(merged) + 1
        /\ \A i \in 1 .. Len(merged) : w[i] = merged[i]
        /\ w[Len(merged) + 1] = x
    BY <1>1, <2>1, <2>2, AppendProperties
  <2> QED BY <1>3, <2>3, <2>4 DEF w
<1> QED BY <1>2, <1>3

\* What a native message adds: its new files, and its text when it matches nothing.
LEMMA TakeFacts ==
    ASSUME MergeInv, Merge!Take
    PROVE  LET m == native[next]
               w == Merge!WithFiles(m)
           IN  /\ next \in 1 .. Len(native) /\ next' = next + 1 /\ m \in NativeMessage
               /\ UNCHANGED <<db, native, history>> /\ seen' = seen \cup m.files
               /\ merged' \in Seq(Merge!Message)
               /\ \A i \in 1 .. Len(w) : merged'[i] = w[i]
               /\ \/ /\ m.content = "" \/ Merge!Matches(m) # {}
                     /\ Len(merged') = Len(w)
                  \/ /\ m.content # "" /\ Merge!Matches(m) = {}
                     /\ Len(merged') = Len(w) + 1
                     /\ merged'[Len(w) + 1] = Merge!Ours(m)
               /\ IF m.content # "" /\ Merge!Matches(m) # {}
                  THEN used' = used \cup {Merge!First(Merge!Matches(m))}
                  ELSE used' = used
<1> DEFINE m == native[next]
           w == Merge!WithFiles(m)
<1>1. /\ next \in 1 .. Len(native) /\ next' = next + 1
      /\ UNCHANGED <<db, native, history>> /\ seen' = seen \cup m.files
      /\ \/ m.content = "" /\ merged' = w /\ used' = used
         \/ /\ m.content # "" /\ Merge!Matches(m) # {} /\ merged' = w
            /\ used' = used \cup {Merge!First(Merge!Matches(m))}
         \/ /\ m.content # "" /\ Merge!Matches(m) = {}
            /\ merged' = Append(w, Merge!Ours(m)) /\ used' = used
  <2>1. native \in Seq(NativeMessage) /\ next \in 1 .. Len(native) + 1 /\ next <= Len(native)
    BY DEF MergeInv, Sources, Merge!TypeOK, Merge!Take
  <2>2. next \in 1 .. Len(native)
    BY <2>1
  <2> QED BY <2>2 DEF Merge!Take, Merge!Remember, Merge!Use
<1>2. m \in NativeMessage
  <2>1. native \in Seq(NativeMessage)
    BY DEF MergeInv, Sources
  <2>2. next \in 1 .. Len(native)
    BY <1>1
  <2> HIDE DEF NativeMessage
  <2> QED BY <2>1, <2>2
<1>3. w \in Seq(Merge!Message)
  BY <1>2, WithFilesFacts DEF MergeInv
<1>4. m.content # "" => Merge!Ours(m) \in Merge!Message
  BY <1>2, MessageFacts
<1> DEFINE o == Merge!Ours(m)
<1> HIDE DEF m, w, o
<1>5. ASSUME m.content # "", merged' = Append(w, o)
      PROVE  /\ merged' \in Seq(Merge!Message) /\ Len(merged') = Len(w) + 1
             /\ \A i \in 1 .. Len(w) : merged'[i] = w[i]
             /\ merged'[Len(w) + 1] = o
  <2>1. o \in Merge!Message
    BY <1>4, <1>5 DEF o
  <2>2. w \in Seq(Merge!Message)
    BY <1>3
  <2>3. Append(w, o) \in Seq(Merge!Message)
    BY <2>1, <2>2, AppendProperties
  <2>4. Len(Append(w, o)) = Len(w) + 1
    BY <2>1, <2>2, AppendProperties
  <2>5. \A i \in 1 .. Len(w) : Append(w, o)[i] = w[i]
    BY <2>1, <2>2, AppendProperties
  <2>6. Append(w, o)[Len(w) + 1] = o
    BY <2>1, <2>2, AppendProperties
  <2> QED BY <1>5, <2>3, <2>4, <2>5, <2>6
<1> QED BY <1>1, <1>2, <1>3, <1>5 DEF m, w, o

\* The least match is one.
LEMMA FirstMatches ==
    ASSUME Sources, NEW m, Merge!Matches(m) # {}
    PROVE  /\ Merge!First(Merge!Matches(m)) \in Merge!Matches(m)
           /\ \A i \in Merge!Matches(m) : Merge!First(Merge!Matches(m)) <= i
           /\ Merge!Matches(m) \subseteq (1 .. Len(db)) \ used
<1>1. DOMAIN db = 1 .. Len(db) /\ Len(db) \in Nat
  BY DEF Sources
<1>2. Merge!Matches(m) \subseteq (1 .. Len(db)) \ used
  BY <1>1 DEF Merge!Matches
<1>3. \E i \in Merge!Matches(m) : \A j \in Merge!Matches(m) : i <= j
  BY <1>1, <1>2, Least
<1> QED BY <1>2, <1>3 DEF Merge!First

\* What was merged stays, and only the files and the text of m are added to it.
LEMMA MergedGrows ==
    ASSUME MergeInv, Merge!Take
    PROVE  /\ Len(merged) \in Nat /\ Len(merged') \in Nat /\ Len(merged') >= Len(merged)
           /\ Len(db) \in Nat /\ Len(native) \in Nat
           /\ \A i \in 1 .. Len(merged) : merged'[i] = merged[i]
<1> DEFINE m == native[next]
           w == Merge!WithFiles(m)
<1>1. /\ m \in NativeMessage /\ merged' \in Seq(Merge!Message)
      /\ \A i \in 1 .. Len(w) : merged'[i] = w[i]
      /\ Len(merged') = Len(w) \/ Len(merged') = Len(w) + 1
  BY TakeFacts
<1>2. /\ w \in Seq(Merge!Message) /\ \A i \in 1 .. Len(merged) : w[i] = merged[i]
      /\ Len(w) = Len(merged) \/ Len(w) = Len(merged) + 1
  BY <1>1, WithFilesFacts DEF MergeInv
<1>3. merged \in Seq(Merge!Message) /\ db \in Seq(Merge!Message) /\ native \in Seq(NativeMessage)
  BY DEF MergeInv, Merge!TypeOK, Sources
<1>4. /\ Len(merged) \in Nat /\ Len(merged') \in Nat /\ Len(w) \in Nat
      /\ Len(db) \in Nat /\ Len(native) \in Nat
  BY <1>1, <1>2, <1>3
<1> HIDE DEF w, m
<1> QED BY SMTT(40), <1>1, <1>2, <1>4

\* The sources stay, and what was merged begins with the database's.
LEMMA TakeKeepsSources ==
    ASSUME MergeInv, Merge!Take
    PROVE  Merge!TypeOK' /\ Sources' /\ Begins' /\ Answered'
<1> DEFINE m == native[next]
<1>1. /\ next \in 1 .. Len(native) /\ next' = next + 1 /\ m \in NativeMessage
      /\ UNCHANGED <<db, native, history>> /\ seen' = seen \cup m.files
      /\ merged' \in Seq(Merge!Message)
      /\ \/ used' = used
         \/ Merge!Matches(m) # {} /\ used' = used \cup {Merge!First(Merge!Matches(m))}
  BY TakeFacts
<1>2. Sources /\ Begins /\ Answered /\ Merge!TypeOK
  BY DEF MergeInv
<1>3. Sources'
  BY <1>1, <1>2 DEF Sources
<1>4. Begins'
  <2>1. /\ Len(merged) \in Nat /\ Len(merged') \in Nat /\ Len(db) \in Nat
        /\ Len(merged') >= Len(merged) /\ Len(db) <= Len(merged)
    BY <1>2, MergedGrows DEF Begins
  <2>2. \A i \in 1 .. Len(db) : i \in 1 .. Len(merged) /\ merged[i] = db[i]
    BY <1>2, <2>1 DEF Begins
  <2>3. \A i \in 1 .. Len(db) : merged'[i] = db[i]
    BY <2>2, MergedGrows
  <2>4. db' = db /\ Len(db) <= Len(merged')
    BY <1>1, <2>1
  <2> QED BY <2>3, <2>4 DEF Begins
<1>5. Len(native) \in Nat
  BY MergedGrows
<1>6. Answered'
  BY <1>1, <1>2, <1>5 DEF Answered
<1>7. used' \in SUBSET DOMAIN db
  <2>1. used \in SUBSET DOMAIN db /\ DOMAIN db = 1 .. Len(db)
    BY <1>2 DEF Merge!TypeOK, Sources
  <2> HIDE DEF m
  <2>2. Merge!Matches(m) # {} => Merge!First(Merge!Matches(m)) \in 1 .. Len(db)
    BY <1>2, FirstMatches
  <2> QED BY <1>1, <2>1, <2>2
<1>8. m.files \subseteq Files
  BY <1>1, MessageFacts
<1> HIDE DEF m
<1>9. Merge!TypeOK'
  BY <1>1, <1>2, <1>5, <1>7, <1>8 DEF Merge!TypeOK
<1> QED BY <1>3, <1>4, <1>6, <1>9

\* A text that is taken finds a home: the message it matches, or the one that is added.
LEMMA TakeKeepsHomes == ASSUME MergeInv, Merge!Take PROVE TakenAreHome'
<1> DEFINE m == native[next]
           w == Merge!WithFiles(m)
           ms == Merge!Matches(m)
           u == IF ms # {} THEN Merge!First(ms) ELSE Len(w) + 1
<1>1. /\ next \in 1 .. Len(native) /\ next' = next + 1 /\ m \in NativeMessage
      /\ UNCHANGED <<db, native>>
      /\ merged' \in Seq(Merge!Message) /\ used \subseteq used'
      /\ m.content # "" /\ ms # {} => Merge!First(ms) \in used'
      /\ m.content # "" /\ ms = {} => /\ Len(merged') = Len(w) + 1
                                      /\ merged'[Len(w) + 1] = Merge!Ours(m)
  BY TakeFacts
<1>2. /\ Len(merged) \in Nat /\ Len(merged') \in Nat /\ Len(merged') >= Len(merged)
      /\ Len(db) \in Nat /\ Len(native) \in Nat
      /\ \A i \in 1 .. Len(merged) : merged'[i] = merged[i]
  BY MergedGrows
<1>3. w \in Seq(Merge!Message) /\ Len(w) >= Len(merged) /\ Len(w) \in Nat
  <2>1. w \in Seq(Merge!Message) /\ (Len(w) = Len(merged) \/ Len(w) = Len(merged) + 1)
    BY <1>1, WithFilesFacts DEF MergeInv
  <2> HIDE DEF w
  <2> QED BY <1>2, <2>1
<1>4. /\ Len(db) <= Len(merged) /\ \A i \in 1 .. Len(db) : merged[i] = db[i]
      /\ Sources
  BY DEF MergeInv, Begins
<1>5. PICK h \in [Taken -> 1 .. Len(merged)] : Homes(h, Taken, merged, used)
  BY DEF MergeInv, TakenAreHome
<1>a. /\ next \in Int /\ ~ (next < next)
      /\ \A k \in 1 .. Len(native) : k < next + 1 <=> (k < next \/ k = next)
  <2>1. next \in 1 .. Len(native)
    BY <1>1
  <2>2. next \in Int
    BY <2>1
  <2> QED BY <2>2
<1>b. Taken' = {k \in 1 .. Len(native) : k < next + 1 /\ native[k].content # ""}
  BY <1>1 DEF Taken
<1>c. ASSUME NEW g \in [Taken' -> 1 .. Len(merged')], Homes(g, Taken', merged', used')
      PROVE TakenAreHome'
  <2>1. Homes(g, Taken', merged', used') <=> 
          (\E x \in {g} : Homes(x, Taken, merged, used)')
    BY <1>1 DEF Homes
  <2> QED BY <1>c, <2>1 DEF TakenAreHome
<1>6. CASE m.content = ""
  <2>1. Taken' = Taken
    BY <1>1, <1>a, <1>b, <1>6 DEF Taken
  <2>2. h \in [Taken' -> 1 .. Len(merged')]
    BY <1>2, <1>5, <2>1
  <2>3. \A k \in Taken : h[k] \in 1 .. Len(merged) /\ merged'[h[k]] = merged[h[k]]
    BY <1>2, <1>5
  <2>4. Homes(h, Taken', merged', used')
    BY <1>1, <1>5, <2>1, <2>3 DEF Homes
  <2> QED BY <2>2, <2>4, <1>c
<1>7. CASE m.content # ""
  <2>1. Taken' = Taken \cup {next} /\ next \notin Taken
    <3>1. next \in 1 .. Len(native) /\ native[next].content # ""
      BY <1>1, <1>7
    <3> HIDE DEF m
    <3> QED BY <1>a, <1>b, <3>1 DEF Taken
  <2>2. /\ u \in 1 .. Len(merged')
        /\ merged'[u].role = m.role /\ merged'[u].content = m.content
        /\ u <= Len(db) => u \in used' /\ u \notin used
        /\ u > Len(db) => u > Len(merged)
    <3>1. CASE ms # {}
      <4>1. u \in ms /\ u \in (1 .. Len(db)) \ used
        BY <1>4, <3>1, FirstMatches
      <4>2. db[u].role = m.role /\ db[u].content = m.content
        BY <4>1 DEF Merge!Matches
      <4>3. merged'[u] = db[u] /\ u \in 1 .. Len(merged')
        <5> HIDE DEF u, w, m, ms
        <5> QED BY <1>2, <1>4, <4>1
      <4>4. u \in used'
        BY <1>1, <1>7, <3>1
      <4> QED BY <1>2, <4>1, <4>2, <4>3, <4>4
    <3>2. CASE ms = {}
      <4>1. u = Len(w) + 1 /\ merged'[u] = Merge!Ours(m) /\ Len(merged') = u
        BY <1>1, <1>7, <3>2
      <4>2. Merge!Ours(m).role = m.role /\ Merge!Ours(m).content = m.content
        BY DEF Merge!Ours
      <4> HIDE DEF u, w, m
      <4> QED BY <1>2, <1>3, <1>4, <4>1, <4>2
    <3> QED BY <3>1, <3>2
  <2> HIDE DEF u, w, ms
  <2> DEFINE g == [k \in Taken' |-> IF k = next THEN u ELSE h[k]]
  <2>3. g \in [Taken' -> 1 .. Len(merged')]
    BY <1>2, <1>5, <2>1, <2>2
  <2>4. \A k \in Taken : /\ h[k] \in 1 .. Len(merged) /\ g[k] = h[k]
                         /\ h[k] <= Len(db) => h[k] \in used
                         /\ merged'[h[k]] = merged[h[k]]
                         /\ merged[h[k]].role = native[k].role
                         /\ merged[h[k]].content = native[k].content
    BY <1>2, <1>5, <2>1 DEF Homes
  <2>5. g[next] = u
    BY <2>1
  <2>6. \A k \in Taken : h[k] # u
    <3> SUFFICES ASSUME NEW k \in Taken, h[k] = u PROVE FALSE
      OBVIOUS
    <3>1. u \in 1 .. Len(merged) /\ (u <= Len(db) => u \in used)
      BY <2>4
    <3> QED BY <1>2, <2>2, <3>1
  <2> HIDE DEF g
  <2>7. \A k \in Taken' : /\ merged'[g[k]].role = native[k].role
                          /\ merged'[g[k]].content = native[k].content
                          /\ g[k] <= Len(db) => g[k] \in used'
    <3>1. ASSUME NEW k \in Taken
          PROVE /\ merged'[g[k]].role = native[k].role
                /\ merged'[g[k]].content = native[k].content
                /\ g[k] <= Len(db) => g[k] \in used'
      <4>1. h[k] <= Len(db) => h[k] \in used'
        BY <1>1, <2>4
      <4> QED BY <2>4, <4>1
    <3> QED BY <2>1, <2>2, <2>5, <3>1
  <2>8. \A k, l \in Taken' : g[k] = g[l] => k = l
    <3>1. \A k, l \in Taken : h[k] = h[l] => k = l
      BY <1>5 DEF Homes
    <3> QED BY <2>1, <2>4, <2>5, <2>6, <3>1
  <2>9. Homes(g, Taken', merged', used')
    BY <2>7, <2>8 DEF Homes
  <2> QED BY <2>3, <2>9, <1>c
<1> QED BY <1>6, <1>7

\* A pairing of the texts that are left stays one when the least match of the next
\* is taken: the text that was to have it takes the one that the next was to have.
LEMMA TakeKeepsPartners == ASSUME MergeInv, Merge!Take PROVE PartnersLeft'
<1> DEFINE m == native[next]
           w == Merge!WithFiles(m)
           ms == Merge!Matches(m)
           u == Merge!First(ms)
           NoText == \A i \in Len(db) + 1 .. Len(merged') : merged'[i].role = "attachments"
<1>1. /\ next \in 1 .. Len(native) /\ next' = next + 1 /\ m \in NativeMessage
      /\ UNCHANGED <<db, native>>
      /\ \A i \in 1 .. Len(w) : merged'[i] = w[i]
      /\ m.content = "" \/ ms # {} => Len(merged') = Len(w)
      /\ used' = IF m.content # "" /\ ms # {} THEN used \cup {u} ELSE used
  BY TakeFacts
<1>2. /\ Len(merged) \in Nat /\ Len(merged') \in Nat /\ Len(merged') >= Len(merged)
      /\ Len(db) \in Nat /\ Len(native) \in Nat
      /\ \A i \in 1 .. Len(merged) : merged'[i] = merged[i]
  BY MergedGrows
<1>3. Sources /\ DOMAIN db = 1 .. Len(db) /\ DOMAIN native = 1 .. Len(native)
  BY DEF MergeInv, Sources
<1>4. SUFFICES ASSUME Pairable
               PROVE  /\ \E g \in [Left' -> (1 .. Len(db)) \ used'] : Merge!Partners(g)
                      /\ NoText
  <2>1. Pairable' <=> Pairable
    <3>1. Merge!Texts(native)' = Merge!Texts(native) /\ DOMAIN db' = DOMAIN db
      BY <1>1 DEF Merge!Texts
    <3>2. \A f : Merge!Partners(f)' <=> Merge!Partners(f)
      BY <1>1 DEF Merge!Partners
    <3> QED BY <3>1, <3>2 DEF Pairable
  <2>2. ASSUME NEW g \in [Left' -> (1 .. Len(db)) \ used'], Merge!Partners(g)
        PROVE  (\E x \in {g} : Merge!Partners(x))'
    BY <1>1, <2>2 DEF Merge!Partners
  <2>3. (\E g \in [Left' -> (1 .. Len(db)) \ used'] : Merge!Partners(g))
          => (\E g \in [Left -> (1 .. Len(db)) \ used] : Merge!Partners(g))'
    BY <1>1, <2>2
  <2> QED BY <1>1, <2>1, <2>3 DEF PartnersLeft
<1>5. PICK g \in [Left -> (1 .. Len(db)) \ used] : Merge!Partners(g)
  BY <1>4 DEF MergeInv, PartnersLeft
<1>6. \A i \in Len(db) + 1 .. Len(merged) : merged[i].role = "attachments"
  BY <1>4 DEF MergeInv, PartnersLeft
<1>7. NoText \/ ~ (Len(merged') = Len(w))
  <2> SUFFICES ASSUME Len(merged') = Len(w), NEW i \in Len(db) + 1 .. Len(merged')
               PROVE  merged'[i].role = "attachments"
    OBVIOUS
  <2>1. /\ \A j \in 1 .. Len(merged) : w[j] = merged[j]
        /\ Len(w) = Len(merged) \/ /\ Len(w) = Len(merged) + 1
                                   /\ w[Len(merged) + 1].role = "attachments"
    BY <1>1, WithFilesFacts DEF MergeInv
  <2> HIDE DEF w
  <2>2. CASE i <= Len(merged)
    BY <1>2, <1>6, <2>2
  <2>3. CASE i = Len(merged) + 1
    <3>1. Len(w) = Len(merged) + 1 /\ i \in 1 .. Len(w)
      BY <1>2, <2>1, <2>3
    <3>2. merged'[i] = w[i]
      BY <1>1, <3>1
    <3> QED BY <2>1, <2>3, <3>1, <3>2
  <2> QED BY <1>2, <2>1, <2>2, <2>3
<1>a. /\ next \in Int /\ ~ (next >= next + 1)
      /\ \A k \in 1 .. Len(native) : k >= next <=> (k >= next + 1 \/ k = next)
  <2>1. next \in 1 .. Len(native)
    BY <1>1
  <2>2. next \in Int
    BY <2>1
  <2> QED BY <2>2
<1>b. Left' = {k \in 1 .. Len(native) : k >= next + 1 /\ native[k].content # ""}
  BY <1>1 DEF Left
<1>8. CASE m.content = ""
  <2>1. Left' = Left /\ used' = used
    BY <1>1, <1>8, <1>a, <1>b DEF Left
  <2> QED BY <1>1, <1>5, <1>7, <1>8, <2>1
<1>9. CASE m.content # ""
  <2>1. Left = Left' \cup {next} /\ next \notin Left'
    <3>1. next \in 1 .. Len(native) /\ native[next].content # ""
      BY <1>1, <1>9
    <3> HIDE DEF m
    <3> QED BY <1>a, <1>b, <3>1 DEF Left
  <2>2. g[next] \in ms
    <3>1. g[next] \in DOMAIN db /\ g[next] \notin used
      BY <1>3, <1>5, <2>1
    <3>2. /\ db[g[next]].role = m.role /\ db[g[next]].content = m.content
          /\ Merge!Near(db[g[next]].ts, Merge!Normalize(m.ts))
      BY <1>5, <2>1 DEF Merge!Partners, Merge!Near, Merge!TS_WINDOW
    <3> QED BY <3>1, <3>2 DEF Merge!Matches
  <2>3. u \in ms /\ u <= g[next] /\ u \in (1 .. Len(db)) \ used
    BY <1>3, <2>2, FirstMatches
  <2>4. used' = used \cup {u} /\ NoText
    BY <1>1, <1>7, <1>9, <2>2
  <2> DEFINE f == [k \in Left' |-> IF g[k] = u THEN g[next] ELSE g[k]]
  <2>5. \A k \in Left : g[k] \in (1 .. Len(db)) \ used
    BY <1>5
  <2>6. \A k, l \in Left : g[k] = g[l] => k = l
    BY <1>5 DEF Merge!Partners
  <2>7. f \in [Left' -> (1 .. Len(db)) \ used']
    <3> SUFFICES ASSUME NEW k \in Left' PROVE f[k] \in (1 .. Len(db)) \ used'
      OBVIOUS
    <3>1. k # next /\ k \in Left /\ next \in Left
      BY <2>1
    <3> HIDE DEF u, ms
    <3> QED BY <2>4, <2>5, <2>6, <3>1
  <2>8. ASSUME NEW k \in Left'
        PROVE  /\ f[k] \in DOMAIN db
               /\ db[f[k]].role = native[k].role /\ db[f[k]].content = native[k].content
               /\ Merge!Abs(db[f[k]].ts - Merge!Normalize(native[k].ts)) <= 5
    <3>1. k \in Left /\ next \in Left /\ k \in 1 .. Len(native) /\ k > next
      <4>1. k \in Left /\ next \in Left /\ k \in 1 .. Len(native) /\ k >= next + 1
        BY <1>b, <2>1
      <4> QED BY <1>a, <4>1
    <3>2. /\ db[g[k]].role = native[k].role /\ db[g[k]].content = native[k].content
          /\ Merge!Abs(db[g[k]].ts - Merge!Normalize(native[k].ts)) <= 5
      BY <1>5, <3>1 DEF Merge!Partners
    <3>3. CASE g[k] # u
      BY <1>3, <2>5, <3>1, <3>2, <3>3
    <3>4. CASE g[k] = u
      <4> DEFINE a == db[u].ts
                 b == db[g[next]].ts
                 x == Merge!Normalize(m.ts)
                 y == Merge!Normalize(native[k].ts)
      <4>1. /\ db[u].role = m.role /\ db[u].content = m.content
            /\ Merge!Abs(a - x) <= 5
        BY <2>3 DEF Merge!Matches, Merge!Near, Merge!TS_WINDOW
      <4>2. /\ db[g[next]].role = m.role /\ db[g[next]].content = m.content
            /\ Merge!Abs(b - x) <= 5
        BY <2>2 DEF Merge!Matches, Merge!Near, Merge!TS_WINDOW
      <4>3. Merge!Abs(a - y) <= 5
        BY <3>2, <3>4
      <4>4. x <= y /\ a <= b
        <5>1. x <= y
          <6>1. next \in DOMAIN native /\ k \in DOMAIN native /\ next < k
            BY <1>1, <1>3, <1>a, <3>1
          <6> QED BY <1>3, <6>1 DEF Sources
        <5>2. g[next] \in DOMAIN db /\ u \in DOMAIN db /\ (u = g[next] \/ u < g[next])
          BY <1>2, <1>3, <2>3, <2>5, <3>1
        <5>3. b \in Nat
          <6>1. db[g[next]] \in Merge!Message
            BY <1>3, <5>2 DEF Sources
          <6> QED BY <6>1, MessageFacts
        <5>4. a <= b
          BY <1>3, <5>2, <5>3 DEF Sources
        <5> QED BY <5>1, <5>4
      <4>5. a \in Nat /\ b \in Nat /\ x \in Nat /\ y \in Nat
        <5>1. db[u] \in Merge!Message /\ db[g[next]] \in Merge!Message
          BY <1>3, <2>3, <2>5, <3>1 DEF Sources
        <5>2. m \in NativeMessage /\ native[k] \in NativeMessage
          <6>1. native \in Seq(NativeMessage) /\ k \in 1 .. Len(native)
            BY <1>3, <3>1 DEF Sources
          <6>2. native[k] \in NativeMessage
            BY <6>1
          <6>3. m \in NativeMessage
            BY <1>1
          <6> QED BY <6>2, <6>3
        <5> QED BY <5>1, <5>2, MessageFacts
      <4>6. Merge!Abs(b - y) <= 5
        <5> HIDE DEF a, b, x, y
        <5> QED BY <4>1, <4>2, <4>3, <4>4, <4>5 DEF Merge!Abs
      <4>7. f[k] = g[next]
        BY <3>4
      <4>8. native[k].role = m.role /\ native[k].content = m.content
        BY <3>2, <3>4, <4>1
      <4> QED BY SMTT(40), <1>3, <2>5, <3>1, <4>2, <4>6, <4>7, <4>8
    <3> QED BY <3>3, <3>4
  <2>9. \A k, l \in Left' : f[k] = f[l] => k = l
    <3> SUFFICES ASSUME NEW k \in Left', NEW l \in Left', f[k] = f[l] PROVE k = l
      OBVIOUS
    <3>1. k \in Left /\ l \in Left /\ next \in Left /\ k # next /\ l # next
      BY <2>1
    <3>2. /\ f[k] = IF g[k] = u THEN g[next] ELSE g[k]
          /\ f[l] = IF g[l] = u THEN g[next] ELSE g[l]
      OBVIOUS
    <3> HIDE DEF f, u, ms
    <3> QED BY <2>6, <3>1, <3>2
  <2>10. Merge!Partners(f)
    <3>1. DOMAIN f = Left'
      OBVIOUS
    <3> HIDE DEF f
    <3> QED BY <2>8, <2>9, <3>1 DEF Merge!Partners
  <2> QED BY <2>4, <2>7, <2>10
<1> QED BY <1>8, <1>9

\* A file that is new is shown by the message that is added, and by no other.
LEMMA TakeKeepsFiles == ASSUME MergeInv, Merge!Take PROVE FilesOnce'
<1> DEFINE m == native[next]
           w == Merge!WithFiles(m)
           L == Len(merged)
<1>1. /\ next \in 1 .. Len(native) /\ next' = next + 1 /\ m \in NativeMessage
      /\ UNCHANGED <<db, native>> /\ seen' = seen \cup m.files
      /\ \A i \in 1 .. Len(w) : merged'[i] = w[i]
      /\ \/ Len(merged') = Len(w)
         \/ Len(merged') = Len(w) + 1 /\ merged'[Len(w) + 1] = Merge!Ours(m)
  BY TakeFacts
<1>2. /\ L \in Nat /\ Len(merged') \in Nat /\ Len(merged') >= L
      /\ Len(db) \in Nat /\ Len(native) \in Nat
      /\ \A i \in 1 .. L : merged'[i] = merged[i]
  BY MergedGrows
<1>3. FilesOnce /\ Begins /\ seen \subseteq Files /\ Len(db) <= L
  BY DEF MergeInv, Merge!TypeOK, Begins
<1>4. /\ m.files \subseteq seen => Len(w) = L
      /\ ~ (m.files \subseteq seen) => /\ Len(w) = L + 1
                                       /\ w[L + 1].files = m.files \ seen
  BY <1>1, WithFilesFacts DEF MergeInv
<1>5. Merge!Ours(m).files = {}
  BY DEF Merge!Ours
<1>6. Merge!FilesOf(db)' = Merge!FilesOf(db)
  BY <1>1 DEF Merge!FilesOf
\* The files of what is added.
<1>7. \A i \in L + 1 .. Len(merged') :
        merged'[i].files = IF i = L + 1 THEN m.files \ seen ELSE {}
  <2> SUFFICES ASSUME NEW i \in L + 1 .. Len(merged')
               PROVE  merged'[i].files = IF i = L + 1 THEN m.files \ seen ELSE {}
    OBVIOUS
  <2> DEFINE o == Merge!Ours(m)
  <2>1. CASE m.files \subseteq seen
    <3>1. Len(w) = L /\ m.files \ seen = {}
      BY <1>4, <2>1
    <3>2. Len(merged') = L \/ (Len(merged') = L + 1 /\ merged'[L + 1].files = {})
      BY <1>1, <1>5, <3>1
    <3> HIDE DEF w, m, o, L
    <3>3. i = L + 1 /\ merged'[L + 1].files = {}
      BY <1>2, <3>2
    <3> QED BY <3>1, <3>3
  <2>2. CASE ~ (m.files \subseteq seen)
    <3>1. Len(w) = L + 1 /\ w[L + 1].files = m.files \ seen
      BY <1>4, <2>2
    <3>2. \/ Len(merged') = L + 1
          \/ Len(merged') = L + 2 /\ merged'[L + 2].files = {}
      <4>1. (L + 1) + 1 = L + 2
        BY <1>2
      <4> QED BY <1>1, <1>5, <3>1, <4>1
    <3>3. merged'[L + 1] = w[L + 1]
      <4>1. L + 1 \in 1 .. Len(w)
        BY <1>2, <3>1
      <4> QED BY <1>1, <4>1
    <3> HIDE DEF w, m, o, L
    <3>4. i = L + 1 \/ (i = L + 2 /\ i # L + 1 /\ merged'[L + 2].files = {})
      BY <1>2, <3>2
    <3> QED BY <3>1, <3>3, <3>4
  <2> QED BY <2>1, <2>2
<1>8. ~ (m.files \subseteq seen) => Len(merged') >= L + 1
  <2> HIDE DEF w, m
  <2> QED BY <1>1, <1>2, <1>4
<1>9. seen' = Merge!FilesOf(db) \cup UNION {native[k].files : k \in 1 .. next' - 1}
  <2>1. 1 .. next' - 1 = (1 .. next - 1) \cup {next}
    <3>1. next \in 1 .. Len(native)
      BY <1>1
    <3>2. next \in Nat /\ next >= 1 /\ next' = next + 1
      BY <1>1, <3>1
    <3> QED BY <3>2
  <2>2. UNION {native[k].files : k \in 1 .. next' - 1}
          = (UNION {native[k].files : k \in 1 .. next - 1}) \cup m.files
    <3> DEFINE A == 1 .. next - 1
               F(S) == UNION {native[k].files : k \in S}
    <3> HIDE DEF A
    <3>1. F(A \cup {next}) = F(A) \cup m.files
      OBVIOUS
    <3> HIDE DEF F
    <3>2. F(1 .. next' - 1) = F(A) \cup m.files
      BY <2>1, <3>1 DEF A
    <3> QED BY <3>2 DEF F, A
  <2> QED BY <1>1, <1>3, <2>2 DEF FilesOnce
<1> HIDE DEF w, m
<1>10. ASSUME NEW f \in Files
       PROVE /\ f \notin seen' => \A i \in 1 .. Len(merged') : f \notin merged'[i].files
             /\ f \in Merge!FilesOf(db) =>
                  \A i \in Len(db) + 1 .. Len(merged') : f \notin merged'[i].files
             /\ f \in seen' \ Merge!FilesOf(db) =>
                  \E i \in 1 .. Len(merged') :
                    \A j \in 1 .. Len(merged') : f \in merged'[j].files <=> j = i
  <2>1. \A i \in 1 .. Len(merged') :
          \/ i \in 1 .. L /\ merged'[i] = merged[i]
          \/ i \notin 1 .. L /\ (f \in merged'[i].files <=> i = L + 1 /\ f \in m.files \ seen)
    <3> SUFFICES ASSUME NEW i \in 1 .. Len(merged')
                 PROVE \/ i \in 1 .. L /\ merged'[i] = merged[i]
                       \/ /\ i \notin 1 .. L
                          /\ (f \in merged'[i].files <=> i = L + 1 /\ f \in m.files \ seen)
      OBVIOUS
    <3>1. i \in 1 .. L \/ (i \in L + 1 .. Len(merged') /\ i \notin 1 .. L)
      <4> HIDE DEF L
      <4> QED BY <1>2
    <3> QED BY <1>2, <1>7, <3>1
  <2>2. f \notin seen' => \A i \in 1 .. Len(merged') : f \notin merged'[i].files
    BY <1>1, <1>3, <2>1 DEF FilesOnce
  <2>3. f \in Merge!FilesOf(db) =>
          \A i \in Len(db) + 1 .. Len(merged') : f \notin merged'[i].files
    <3> SUFFICES ASSUME f \in Merge!FilesOf(db), NEW i \in Len(db) + 1 .. Len(merged')
                 PROVE  f \notin merged'[i].files
      OBVIOUS
    <3>1. f \in seen /\ i \in 1 .. Len(merged')
      BY <1>2, <1>3 DEF FilesOnce
    <3>2. i \in 1 .. L => i \in Len(db) + 1 .. L
      BY <1>2
    <3> QED BY <1>3, <2>1, <3>1, <3>2 DEF FilesOnce
  <2>4. ASSUME f \in seen, f \notin Merge!FilesOf(db)
        PROVE \E i \in 1 .. Len(merged') :
                 \A j \in 1 .. Len(merged') : f \in merged'[j].files <=> j = i
    <3>1. PICK i \in 1 .. L : \A j \in 1 .. L : f \in merged[j].files <=> j = i
      BY <1>3, <2>4 DEF FilesOnce
    <3>2. i \in 1 .. Len(merged')
      BY <1>2
    <3>3. \A j \in 1 .. Len(merged') : f \in merged'[j].files <=> j = i
      BY <2>1, <2>4, <3>1
    <3> QED BY <3>2, <3>3
  <2>5. ASSUME f \notin seen, f \in seen'
        PROVE \E i \in 1 .. Len(merged') :
                 \A j \in 1 .. Len(merged') : f \in merged'[j].files <=> j = i
    <3>1. f \in m.files /\ f \in m.files \ seen
      BY <1>1, <2>5 DEF m
    <3>2. L + 1 \in 1 .. Len(merged') /\ L + 1 \notin 1 .. L
      BY <1>2, <1>8, <2>5, <3>1
    <3>3. \A j \in 1 .. L : f \notin merged[j].files
      BY <1>3, <2>5 DEF FilesOnce
    <3>4. \A j \in 1 .. Len(merged') : f \in merged'[j].files <=> j = L + 1
      BY <2>1, <3>1, <3>2, <3>3
    <3> QED BY <3>2, <3>4
  <2> QED BY <2>2, <2>3, <2>4, <2>5
<1>11. seen' = Merge!FilesOf(db)' \cup UNION {native'[k].files : k \in 1 .. next' - 1}
  BY <1>1, <1>6, <1>9
<1> QED BY <1>1, <1>6, <1>10, <1>11 DEF FilesOnce

\* The times of what was merged are numbers, so it can be put in order.
LEMMA MergedIsTimed ==
    ASSUME Merge!TypeOK
    PROVE  /\ Len(merged) \in Nat /\ DOMAIN merged = 1 .. Len(merged)
           /\ \A i \in 1 .. Len(merged) : merged[i] \in Merge!Message /\ merged[i].ts \in Nat
<1>1. merged \in Seq(Merge!Message)
  BY DEF Merge!TypeOK
<1>2. \A i \in 1 .. Len(merged) : merged[i] \in Merge!Message
  BY <1>1
<1>3. \A x \in Merge!Message : x.ts \in Nat
  BY MessageFacts
<1>4. Len(merged) \in Nat /\ DOMAIN merged = 1 .. Len(merged)
  BY <1>1
<1> QED BY <1>2, <1>3, <1>4

\* The answer is given once, when all was taken.
LEMMA ReturnStep == ASSUME MergeInv, Merge!Return PROVE MergeInv'
<1>1. /\ next = Len(native) + 1
      /\ history' = IF native = <<>> THEN db ELSE Merge!SortByTime(merged)
      /\ UNCHANGED <<db, native, next, merged, used, seen>>
  BY DEF Merge!Return
<1>2. history' \in Seq(Merge!Message)
  <2>1. db \in Seq(Merge!Message)
    BY DEF MergeInv, Sources
  <2> DEFINE n == Len(merged)
             h == Merge!SortByTime(merged)
  <2>2. /\ n \in Nat /\ DOMAIN merged = 1 .. n
        /\ \A i \in 1 .. n : merged[i] \in Merge!Message /\ merged[i].ts \in Nat
    BY MergedIsTimed DEF MergeInv
  <2>3. PICK f \in Bijection(1 .. n, 1 .. n) : \A p \in 1 .. n : h[p] = merged[f[p]]
    BY <2>2, SortIsPermutation, SMTT(30)
  <2>4. f \in [1 .. n -> 1 .. n]
    BY <2>3, Fun_BijectionProperties
  <2>5. h = [p \in 1 .. n |-> h[p]]
    BY <2>2 DEF Merge!SortByTime
  <2> HIDE DEF h, n
  <2>6. \A p \in 1 .. n : h[p] \in Merge!Message
    BY <2>2, <2>3, <2>4
  <2>7. h \in [1 .. n -> Merge!Message]
    BY <2>5, <2>6
  <2>8. h \in Seq(Merge!Message)
    BY <2>2, <2>7
  <2> QED BY <1>1, <2>1, <2>8 DEF h
<1>3. Merge!TypeOK'
  BY <1>1, <1>2 DEF MergeInv, Merge!TypeOK
<1>4. Sources' /\ Begins' /\ Answered'
  BY <1>1 DEF MergeInv, Sources, Begins, Answered
<1>5. TakenAreHome'
  <2>1. \A h : Homes(h, Taken, merged, used)' <=> Homes(h, Taken, merged, used)
    BY <1>1 DEF Homes, Taken
  <2>2. Taken' = Taken
    BY <1>1 DEF Taken
  <2> QED BY <1>1, <2>1, <2>2 DEF MergeInv, TakenAreHome
<1>6. PartnersLeft'
  <2>1. \A f : Merge!Partners(f)' <=> Merge!Partners(f)
    BY <1>1 DEF Merge!Partners
  <2>2. Left' = Left /\ Merge!Texts(native)' = Merge!Texts(native)
    BY <1>1 DEF Left, Merge!Texts
  <2>3. Pairable' <=> Pairable
    BY <1>1, <2>1, <2>2 DEF Pairable
  <2> QED BY <1>1, <2>1, <2>2, <2>3 DEF MergeInv, PartnersLeft
<1>7. FilesOnce'
  <2>1. Merge!FilesOf(db)' = Merge!FilesOf(db)
    BY <1>1 DEF Merge!FilesOf
  <2>2. (UNION {native[k].files : k \in 1 .. next - 1})'
          = UNION {native[k].files : k \in 1 .. next - 1}
    BY <1>1
  <2> QED BY <1>1, <2>1, <2>2 DEF MergeInv, FilesOnce
<1> QED BY <1>3, <1>4, <1>5, <1>6, <1>7 DEF MergeInv

\* Every step of the merge keeps the invariant.
LEMMA MergeStep == MergeInv /\ [Merge!Next]_mergeVars => MergeInv'
<1> SUFFICES ASSUME MergeInv, [Merge!Next]_mergeVars PROVE MergeInv'
  OBVIOUS
<1>1. CASE Merge!Take
  BY <1>1, TakeKeepsSources, TakeKeepsHomes, TakeKeepsPartners, TakeKeepsFiles DEF MergeInv
<1>2. CASE Merge!Return
  BY <1>2, ReturnStep
<1>3. CASE UNCHANGED mergeVars
  <2> USE <1>3 DEF mergeVars
  <2>1. \A f : Merge!Partners(f)' <=> Merge!Partners(f)
    BY DEF Merge!Partners
  <2>2. Left' = Left /\ Merge!Texts(native)' = Merge!Texts(native) /\ Taken' = Taken
    BY DEF Left, Merge!Texts, Taken
  <2>3. Pairable' <=> Pairable
    BY <2>1, <2>2 DEF Pairable
  <2>4. PartnersLeft'
    BY <2>1, <2>2, <2>3 DEF MergeInv, PartnersLeft
  <2>5. \A h : Homes(h, Taken, merged, used)' <=> Homes(h, Taken, merged, used)
    BY <2>2 DEF Homes
  <2>6. TakenAreHome'
    BY <2>2, <2>5 DEF MergeInv, TakenAreHome
  <2>7. FilesOnce'
    BY DEF MergeInv, FilesOnce, Merge!FilesOf
  <2>8. Merge!SortByTime(merged)' = Merge!SortByTime(merged)
    BY DEF Merge!SortByTime, Merge!Place
  <2>9. Merge!TypeOK' /\ Sources' /\ Begins' /\ Answered'
    BY <2>8 DEF MergeInv, Merge!TypeOK, Sources, Begins, Answered
  <2> QED BY <2>4, <2>6, <2>7, <2>9 DEF MergeInv
<1> QED BY <1>1, <1>2, <1>3 DEF Merge!Next

\* A sequence that is put in order has as many messages of a kind.
LEMMA OrderedCounts ==
    ASSUME Merge!TypeOK, NEW T
    PROVE  LET n == Len(merged)
               h == Merge!SortByTime(merged)
           IN  /\ DOMAIN h = 1 .. n
               /\ Merge!Cardinality(Those(h, T)) = Cardinality(Those(merged, T))
<1>1. /\ Len(merged) \in Nat /\ DOMAIN merged = 1 .. Len(merged)
      /\ \A i \in 1 .. Len(merged) : merged[i].ts \in Nat
  BY MergedIsTimed
<1> QED BY <1>1, SortKeepsCounts, SameCount

\* What is counted is finite.
LEMMA PlacesAreFinite ==
    ASSUME NEW n \in Nat, NEW S \in SUBSET (1 .. n)
    PROVE  IsFiniteSet(S) /\ Cardinality(S) \in Nat
<1>1. IsFiniteSet(S)
  <2>1. IsFiniteSet(1 .. n)
    BY FS_Interval
  <2> QED BY <2>1, FS_Subset
<1> QED BY <1>1, FS_CardinalityType

\* A text is in what was merged as often as in either source.
LEMMA NothingIsLost == ASSUME MergeInv PROVE Merge!NothingLost
<1> SUFFICES ASSUME history # <<>>, NEW r \in Roles, NEW c \in Contents
             PROVE  /\ Merge!Count(history, r, c) >= Merge!Count(db, r, c)
                    /\ Merge!Count(history, r, c) >= Merge!Count(native, r, c)
  BY DEF Merge!NothingLost, Merge!Returned
<1> DEFINE n == Len(merged)
           D == {i \in 1 .. Len(db) : db[i].role = r /\ db[i].content = c}
           N == {k \in 1 .. Len(native) : native[k].role = r /\ native[k].content = c}
           M == {i \in 1 .. n : merged[i].role = r /\ merged[i].content = c}
<1>1. /\ Merge!TypeOK /\ Sources /\ Begins /\ TakenAreHome /\ next = Len(native) + 1
      /\ history = IF native = <<>> THEN db ELSE Merge!SortByTime(merged)
  BY DEF MergeInv, Answered
<1>2. /\ n \in Nat /\ Len(db) \in Nat /\ Len(native) \in Nat /\ Len(db) <= n
      /\ DOMAIN db = 1 .. Len(db) /\ DOMAIN native = 1 .. Len(native)
  BY <1>1, MergedIsTimed DEF Sources, Begins
<1>3. /\ Merge!Count(db, r, c) = Cardinality(D) /\ Merge!Count(native, r, c) = Cardinality(N)
  BY <1>2, SameCount DEF Merge!Count
<1>4. /\ Cardinality(D) \in Nat /\ Cardinality(N) \in Nat
      /\ Cardinality(M) \in Nat /\ IsFiniteSet(M)
  BY <1>2, PlacesAreFinite
<1>5. CASE native = <<>>
  <2>1. N = {} /\ history = db
    BY <1>1, <1>2, <1>5
  <2> HIDE DEF D, N
  <2>2. Cardinality(N) = 0
    BY <2>1, FS_EmptySet
  <2> QED BY <1>3, <1>4, <2>1, <2>2
<1>6. CASE native # <<>>
  <2> DEFINE T == {x \in Merge!Message : x.role = r /\ x.content = c}
             h == Merge!SortByTime(merged)
  <2>1. \A i \in 1 .. n : merged[i] \in Merge!Message
    BY <1>1, MergedIsTimed
  <2>2. /\ DOMAIN h = 1 .. n /\ history \in Seq(Merge!Message) /\ history = h
        /\ Merge!Cardinality(Those(h, T)) = Cardinality(Those(merged, T))
    BY <1>1, <1>6, OrderedCounts DEF Merge!TypeOK
  <2>3. Those(merged, T) = M
    BY <1>1, <2>1, MergedIsTimed DEF Those
  <2> HIDE DEF h
  <2>4. \A i \in DOMAIN h : h[i] \in Merge!Message
    BY <2>2
  <2>5. Those(h, T) = {i \in DOMAIN h : h[i].role = r /\ h[i].content = c}
    BY <2>4 DEF Those
  <2>6. Merge!Count(history, r, c) = Cardinality(M)
    <3> HIDE DEF T, M
    <3> QED BY <2>2, <2>3, <2>5 DEF Merge!Count
  <2>7. Cardinality(D) <= Cardinality(M)
    <3>1. D \in SUBSET M
      BY <1>1, <1>2 DEF Begins
    <3> HIDE DEF D, M
    <3> QED BY <1>4, <3>1, FS_Subset
  <2>8. Cardinality(N) <= Cardinality(M)
    <3>1. PICK g \in [Taken -> 1 .. n] : Homes(g, Taken, merged, used)
      BY <1>1 DEF TakenAreHome
    <3>2. N \subseteq Taken
      <4>1. \A k \in 1 .. Len(native) : k < next
        BY <1>1, <1>2
      <4>2. c # ""
        BY MergeConstants
      <4> QED BY <4>1, <4>2 DEF Taken
    <3> DEFINE f == [k \in N |-> g[k]]
    <3>3. f \in [N -> M] /\ \A k, l \in N : f[k] = f[l] => k = l
      BY <3>1, <3>2 DEF Homes
    <3> HIDE DEF f, N, M
    <3>4. f \in Injection(N, M)
      BY <3>3, Fun_IsInj
    <3> QED BY <1>4, <3>4, FS_Injection
  <2> HIDE DEF D, N, M
  <2> QED BY <1>3, <1>4, <2>6, <2>7, <2>8
<1> QED BY <1>5, <1>6

\* The answer holds as many messages of a kind as what was merged.
LEMMA HistoryCounts ==
    ASSUME MergeInv, history # <<>>, native # <<>>, NEW T
    PROVE  /\ history \in Seq(Merge!Message) /\ DOMAIN merged = 1 .. Len(merged)
           /\ Merge!Cardinality(Those(history, T)) = Cardinality(Those(merged, T))
<1>1. Merge!TypeOK /\ history = Merge!SortByTime(merged) /\ history \in Seq(Merge!Message)
  BY DEF MergeInv, Answered, Merge!TypeOK
<1> QED BY <1>1, OrderedCounts, MergedIsTimed

\* No text is added when each can have a partner.
LEMMA NoTextTwice ==
    ASSUME MergeInv, history # <<>>, Pairable
    PROVE  Merge!Cardinality(Merge!Texts(history)) = Merge!Cardinality(Merge!Texts(db))
<1> DEFINE T == {x \in Merge!Message : x.content # "" /\ x.role # "attachments"}
<1>1. /\ Sources /\ Begins /\ Merge!TypeOK
      /\ \A i \in Len(db) + 1 .. Len(merged) : merged[i].role = "attachments"
  BY DEF MergeInv, PartnersLeft
<1>2. /\ DOMAIN db = 1 .. Len(db) /\ Len(db) \in Nat
      /\ \A i \in 1 .. Len(db) : db[i] \in Merge!Message
  BY <1>1 DEF Sources
<1>3. CASE native = <<>>
  <2>1. history = db
    BY <1>3 DEF MergeInv, Answered
  <2> QED BY <2>1
<1>4. CASE native # <<>>
  <2>1. /\ history \in Seq(Merge!Message) /\ DOMAIN merged = 1 .. Len(merged)
        /\ Merge!Cardinality(Those(history, T)) = Cardinality(Those(merged, T))
    BY <1>4, HistoryCounts
  <2>2. Merge!Texts(history) = Those(history, T)
    <3>1. history \in Seq(Merge!Message)
      BY <2>1
    <3>2. \A i \in DOMAIN history : history[i] \in Merge!Message
      BY <3>1
    <3> QED BY <3>2 DEF Merge!Texts, Those
  <2>3. Merge!Texts(db) = Those(merged, T)
    <3>1. \A i \in 1 .. Len(merged) : i \in 1 .. Len(db) \/ i \in Len(db) + 1 .. Len(merged)
      BY <1>2
    <3>2. \A i \in 1 .. Len(db) : i \in 1 .. Len(merged) /\ merged[i] = db[i]
      BY <1>1, <1>2, MergedIsTimed DEF Begins
    <3> QED BY <1>1, <1>2, <2>1, <3>1, <3>2 DEF Merge!Texts, Those
  <2> HIDE DEF T
  <2> QED BY <2>1, <2>2, <2>3, SameCount
<1> QED BY <1>3, <1>4

\* A file of the claw is shown where the database has it, or else once.
LEMMA NoFileTwice ==
    ASSUME MergeInv, history # <<>>, NEW f \in Merge!FilesOf(native)
    PROVE  Merge!Shown(history, f) = IF Merge!Shown(db, f) = 0 THEN 1 ELSE Merge!Shown(db, f)
<1> DEFINE T == {x \in Merge!Message : f \in x.files}
           D == {i \in DOMAIN db : f \in db[i].files}
<1>1. /\ Sources /\ Begins /\ FilesOnce /\ Merge!TypeOK /\ next = Len(native) + 1
  BY DEF MergeInv, Answered
<1>2. /\ DOMAIN db = 1 .. Len(db) /\ Len(db) \in Nat
      /\ \A i \in 1 .. Len(db) : db[i] \in Merge!Message
      /\ native \in Seq(NativeMessage)
  BY <1>1 DEF Sources
<1>3. PICK k \in 1 .. Len(native) : f \in native[k].files
  BY <1>2 DEF Merge!FilesOf
<1>4. native # <<>> /\ f \in Files /\ f \in seen
  <2>1. 1 .. Len(native) = 1 .. next - 1 /\ native # <<>>
    <3>1. Len(native) \in Nat /\ next - 1 = Len(native)
      BY <1>1, <1>2
    <3> QED BY <1>3, <3>1
  <2>2. f \in seen /\ seen \subseteq Files
    BY <1>1, <1>3, <2>1 DEF FilesOnce, Merge!TypeOK
  <2> QED BY <2>1, <2>2
<1>5. /\ history \in Seq(Merge!Message) /\ DOMAIN merged = 1 .. Len(merged)
      /\ Merge!Cardinality(Those(history, T)) = Cardinality(Those(merged, T))
  BY <1>4, HistoryCounts
<1>6. {i \in DOMAIN history : f \in history[i].files} = Those(history, T)
  <2>1. \A i \in DOMAIN history : history[i] \in Merge!Message
    BY <1>5
  <2> QED BY <2>1 DEF Those
<1>7. Those(merged, T) = {i \in 1 .. Len(merged) : f \in merged[i].files}
  BY <1>1, <1>5, MergedIsTimed DEF Those
<1>8. /\ Merge!Shown(history, f) = Cardinality(Those(merged, T))
      /\ Merge!Shown(db, f) = Cardinality(D)
  <2> HIDE DEF T
  <2> QED BY <1>5, <1>6, SameCount DEF Merge!Shown
<1>9. IsFiniteSet(D)
  BY <1>2, PlacesAreFinite
<1>10. CASE f \in Merge!FilesOf(db)
  <2>1. Those(merged, T) = D
    <3>1. \A i \in 1 .. Len(merged) : i \in 1 .. Len(db) \/ i \in Len(db) + 1 .. Len(merged)
      BY <1>2
    <3>2. \A i \in 1 .. Len(db) : i \in 1 .. Len(merged) /\ merged[i] = db[i]
      BY <1>1, <1>2, MergedIsTimed DEF Begins
    <3>3. \A i \in Len(db) + 1 .. Len(merged) : f \notin merged[i].files
      BY <1>1, <1>4, <1>10 DEF FilesOnce
    <3> QED BY <1>2, <1>7, <3>1, <3>2, <3>3
  <2>2. D # {}
    BY <1>10 DEF Merge!FilesOf
  <2> HIDE DEF D, T
  <2>3. Cardinality(D) # 0
    BY <1>9, <2>2, FS_EmptySet
  <2> QED BY <1>8, <2>1, <2>3
<1>11. CASE f \notin Merge!FilesOf(db)
  <2>1. D = {}
    BY <1>11 DEF Merge!FilesOf
  <2>2. \E i : Those(merged, T) = {i}
    <3>1. PICK i \in 1 .. Len(merged) :
                 \A j \in 1 .. Len(merged) : f \in merged[j].files <=> j = i
      BY <1>1, <1>4, <1>11 DEF FilesOnce
    <3>2. Those(merged, T) = {i}
      BY <1>7, <3>1
    <3> QED BY <3>2
  <2> HIDE DEF D, T
  <2>3. Cardinality(D) = 0 /\ Cardinality(Those(merged, T)) = 1
    BY <2>1, <2>2, FS_EmptySet, FS_Singleton
  <2> QED BY <1>8, <2>3
<1> QED BY <1>10, <1>11

\* What the invariant says of the answer.
LEMMA MergeMeans == MergeInv => Merge!NothingLost /\ Merge!NoCopies /\ Merge!TypeOK
<1> SUFFICES ASSUME MergeInv PROVE Merge!NothingLost /\ Merge!NoCopies /\ Merge!TypeOK
  OBVIOUS
<1>1. Merge!NoCopies
  BY NoTextTwice, NoFileTwice DEF Merge!NoCopies, Merge!Returned, Pairable
<1>2. Merge!TypeOK
  BY DEF MergeInv
<1> QED BY <1>1, <1>2, NothingIsLost

\* The merge is as the invariant says, alone and beside the other parts.
LEMMA MergeHolds == AllSpec \/ Merge!Spec => []MergeInv
<1>1. AllInit => MergeInv
  BY MergeInit DEF AllInit
<1>2. MergeInv /\ [AllNext]_allVars => MergeInv'
  BY MergeStep DEF AllNext, allVars
<1>3. MergeInv /\ [Merge!Next]_(Merge!vars) => MergeInv'
  BY MergeStep DEF Merge!vars, mergeVars
<1> QED BY <1>1, <1>2, <1>3, MergeInit, PTL DEF AllSpec, Merge!Spec

\* However the clocks of the two sources differ, the merged history holds a text as
\* often as either source, and what both hold once (ClawDomainService.get_history).
THEOREM HistoryIsExact == AllSpec \/ Merge!Spec => []MergeIsExact
<1>1. MergeInv => MergeIsExact
  BY MergeMeans DEF MergeIsExact
<1> QED BY <1>1, MergeHolds, PTL

-----------------------------------------------------------------------------
(* The types of all *)

\* The four parts of a claw keep their types, for any number of requests, messages,
\* clients, streams and starts, also through a crash of the backend.
THEOREM PartsTypeCorrect == AllSpec => []AllTypeOK
<1>1. AllInit => IInv
  BY InvInit DEF AllInit
<1>2. IInv /\ [AllNext]_allVars => IInv'
  <2> SUFFICES ASSUME IInv, [AllNext]_allVars PROVE IInv'
    OBVIOUS
  <2>1. [Next]_vars
    BY DEF AllNext, allVars
  <2> QED BY <2>1, InvStep
<1>3. AllSpec => []IInv
  BY <1>1, <1>2, PTL DEF AllSpec
<1>4. IInv /\ ChatInv /\ MergeInv /\ GateInv => AllTypeOK
  BY WellFormed, GateMeans, MergeMeans DEF ChatInv, AllTypeOK
<1> QED BY <1>3, <1>4, ChatHolds, MergeHolds, GateHolds, PTL
=============================================================================
