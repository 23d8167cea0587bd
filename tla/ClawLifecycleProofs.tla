------------------------- MODULE ClawLifecycleProofs -------------------------
(***************************************************************************)
(* A container belongs to the claw of the user or to one that was deleted,  *)
(* and a claw that is offered for chat has answered its health check, for    *)
(* any number of requests of each kind and a backend that may crash.         *)
(*                                                                         *)
(* Both are about the claws that requests carry along between their          *)
(* commands, so the invariant speaks of one request at a time (Fine): what   *)
(* it may still store or boot is the claw of the document or of one that     *)
(* was deleted since, and if that claw says that it runs and where, its        *)
(* container has answered.  A step changes what one request holds (Turn),      *)
(* and what is fine for the others stays so, since ids that are known or        *)
(* have answered are not forgotten.                                          *)
(***************************************************************************)
EXTENDS ClawLifecycle, FiniteSetTheorems, TLAPS

Pc    == {"start", "insert", "find", "save", "boot", "ready", "health", "appendFind",
          "appendSave", "stream", "deleteFind", "delete", "done"}
Stage == {"request", "provision", "failed"}

\* The ids of the document's claw and of those deleted.
Known == ({doc.id} \cup removed) \ {0}

\* A claw that says it runs, and where, is among those that have answered.
Fit(c, answered) == c.status = "running" /\ c.url => c.id \in answered

\* Where a request carries a claw to its next command.
Carrying == {"insert", "find", "save", "boot", "ready", "health"}

\* What a request p may hold between two commands, its claw c, the document f it
\* found, the messages t it has to append, if these ids are known and answered.
Fine(p, at, c, f, t, s, known, answered) ==
    /\ at \in Pc /\ s \in Stage /\ t \in Seq(Message)
    /\ c \in Claw \cup {NoClaw} /\ Fit(c, answered)
    /\ f \in Claw \cup {NoClaw} /\ Fit(f, answered)
    /\ at \in {"start", "insert"} => s = "request"
    /\ at \in Carrying \/ s = "provision" => c \in Claw /\ (at # "insert" => c.id \in known)
    /\ at \in {"appendSave", "delete"} => f \in Claw /\ f.id \in known
    /\ at \in {"appendFind", "appendSave"} => t # <<>>
    /\ at \in {"boot", "ready"} => p \in Creates
    /\ at = "ready" => s = "provision"
    /\ at = "health" => p \in Gets
    /\ /\ p \in Creates
       /\ at \in {"insert", "boot", "ready"} \/ (at \in {"find", "save"} /\ s = "request")
       => c.status = "creating"

AllFine ==
    \A p \in Requests : Fine(p, pc[p], claw[p], found[p], todo[p], stage[p], Known, readied)

\* The document's claw and the containers.
Shared ==
    /\ doc \in Claw \cup {NoClaw} /\ Fit(doc, readied)
    /\ live \subseteq Known
    /\ readied \subseteq Id /\ removed \subseteq Id

\* Each request gives out one id at most, with its first command.
Begun   == {p \in Creates \cup Keys : pc[p] # "start"}
Counted == ids \in Nat /\ ids <= Cardinality(Begun)

Locals ==
    /\ pc \in [Requests -> Pc] /\ stage \in [Requests -> Stage]
    /\ claw \in [Requests -> Claw \cup {NoClaw}]
         /\ found \in [Requests -> Claw \cup {NoClaw}]
    /\ todo \in [Requests -> Seq(Message)]

IInv == Locals /\ AllFine /\ Shared /\ Counted

-----------------------------------------------------------------------------
(* The records of claws *)

\* A new claw, and one whose status, address or messages change, is a claw.
LEMMA NewIsClaw ==
    ASSUME NEW id \in Id, NEW status \in Status
    PROVE  /\ NewClaw(id, status) \in Claw
           /\ NewClaw(id, status).id = id /\ NewClaw(id, status).status = status
           /\ NewClaw(id, status).url = FALSE
  BY DEF NewClaw, Claw

\* A status alone.
LEMMA StatusChanges ==
    ASSUME NEW c \in Claw, NEW s \in Status
    PROVE  /\ [c EXCEPT !.status = s] \in Claw
           /\ [c EXCEPT !.status = s].id = c.id /\ [c EXCEPT !.status = s].status = s
           /\ [c EXCEPT !.status = s].url = c.url
  BY DEF Claw

\* A message alone.
LEMMA MessageComes ==
    ASSUME NEW c \in Claw, NEW m \in Message
    PROVE  /\ [c EXCEPT !.messages = @ \cup {m}] \in Claw
           /\ [c EXCEPT !.messages = @ \cup {m}].id = c.id
           /\ [c EXCEPT !.messages = @ \cup {m}].status = c.status
           /\ [c EXCEPT !.messages = @ \cup {m}].url = c.url
  BY DEF Claw

\* An address with a status.
LEMMA AddressComes ==
    ASSUME NEW c \in Claw, NEW s \in Status, NEW u \in BOOLEAN
    PROVE  LET d == [c EXCEPT !.url = u, !.status = s]
           IN  d \in Claw /\ d.id = c.id /\ d.status = s /\ d.url = u
  BY DEF Claw

\* An id of a claw is a number other than 0.
LEMMA ClawFields ==
    ASSUME NEW c \in Claw
    PROVE  c.id \in Id /\ c.status \in Status /\ c.url \in BOOLEAN /\ c.id # 0 /\ c # NoClaw
  BY DEF Claw, NoClaw, Id, Status

\* There is no claw exactly when the status says so.
LEMMA NoneOrClaw ==
    ASSUME NEW c \in Claw \cup {NoClaw}
    PROVE  /\ c.status # "none" <=> c \in Claw
           /\ c # NoClaw <=> c \in Claw
           /\ c.id # 0 <=> c \in Claw
<1>1. NoClaw.id = 0 /\ NoClaw.status = "none"
  BY DEF NoClaw
<1>2. c \in Claw => c.status # "none"
  BY DEF Claw, Status
<1>3. QED
  BY <1>1, <1>2, ClawFields

\* Without a claw nothing is offered.
LEMMA NoClawFits == ASSUME NEW answered PROVE Fit(NoClaw, answered)
  BY DEF Fit, NoClaw

-----------------------------------------------------------------------------
(* What one step does to the requests *)

\* Request p goes on at this command, with these locals.
Turn(p, at, c, f, t, s) ==
    /\ pc' = [pc EXCEPT ![p] = at] /\ stage' = [stage EXCEPT ![p] = s]
    /\ claw' = [claw EXCEPT ![p] = c] /\ found' = [found EXCEPT ![p] = f]
    /\ todo' = [todo EXCEPT ![p] = t]

\* A variable that is left alone is one whose value for p stays.
LEMMA Unmoved ==
    ASSUME Locals, NEW p \in Requests
    PROVE  /\ stage = [stage EXCEPT ![p] = stage[p]] /\ claw = [claw EXCEPT ![p] = claw[p]]
           /\ found = [found EXCEPT ![p] = found[p]] /\ todo = [todo EXCEPT ![p] = todo[p]]
  BY DEF Locals

\* What is fine stays so when more ids are known and more have answered.
LEMMA FineGrows ==
    ASSUME NEW p, NEW at, NEW c, NEW f, NEW t, NEW s, NEW known, NEW answered,
           Fine(p, at, c, f, t, s, known, answered),
           NEW known2, NEW answered2, known \subseteq known2, answered \subseteq answered2
    PROVE  Fine(p, at, c, f, t, s, known2, answered2)
  BY DEF Fine, Fit

\* A turn that is fine for p leaves all requests fine.
LEMMA TurnKeeps ==
    ASSUME Locals, AllFine, NEW p \in Requests, NEW at, NEW c, NEW f, NEW t, NEW s,
           Turn(p, at, c, f, t, s), Known \subseteq Known', readied \subseteq readied',
           Fine(p, at, c, f, t, s, Known', readied')
    PROVE  Locals' /\ AllFine'
<1>1. /\ at \in Pc /\ s \in Stage /\ t \in Seq(Message)
      /\ c \in Claw \cup {NoClaw} /\ f \in Claw \cup {NoClaw}
  BY DEF Fine
<1>2. Locals'
  BY <1>1 DEF Locals, Turn
<1>3. ASSUME NEW q \in Requests
      PROVE  Fine(q, pc'[q], claw'[q], found'[q], todo'[q], stage'[q], Known', readied')
  <2>1. CASE q = p
    <3>1. pc'[q] = at /\ claw'[q] = c /\ found'[q] = f /\ todo'[q] = t /\ stage'[q] = s
      BY <2>1 DEF Locals, Turn
    <3>2. QED
      BY <2>1, <3>1
  <2>2. CASE q # p
    <3>1. /\ pc'[q] = pc[q] /\ claw'[q] = claw[q] /\ found'[q] = found[q]
          /\ todo'[q] = todo[q] /\ stage'[q] = stage[q]
      BY <2>2 DEF Locals, Turn
    <3>2. Fine(q, pc[q], claw[q], found[q], todo[q], stage[q], Known, readied)
      BY DEF AllFine
    <3>3. QED
      BY <3>1, <3>2, FineGrows
  <2>3. QED
    BY <2>1, <2>2
<1>4. QED
  BY <1>2, <1>3 DEF AllFine

\* What p holds now is fine.
LEMMA FineNow ==
    ASSUME AllFine, NEW p \in Requests
    PROVE  Fine(p, pc[p], claw[p], found[p], todo[p], stage[p], Known, readied)
  BY DEF AllFine

\* To go to a command that needs nothing is fine.
LEMMA FineElsewhere ==
    ASSUME NEW p, NEW at, NEW c, NEW f, NEW t, NEW s, NEW known, NEW answered,
           Fine(p, at, c, f, t, s, known, answered),
           NEW to \in {"done", "deleteFind", "stream"}
    PROVE  Fine(p, to, c, f, t, s, known, answered)
  BY DEF Fine, Pc, Carrying

\* An exception leaves p with what it had, or with a claw in error to store.
LEMMA RaiseTurns ==
    ASSUME Locals, NEW p \in Requests, NEW known, NEW answered,
           Raise(p), UNCHANGED <<found, todo>>,
           Fine(p, pc[p], claw[p], found[p], todo[p], stage[p], known, answered)
    PROVE  \E at, c, s : /\ Turn(p, at, c, found[p], todo[p], s)
                         /\ Fine(p, at, c, found[p], todo[p], s, known, answered)
<1>1. CASE stage[p] = "provision"
  <2> DEFINE c == [claw[p] EXCEPT !.status = "error"]
  <2>1. claw[p] \in Claw /\ claw[p].id \in known
    BY <1>1 DEF Fine
  <2>2. c \in Claw /\ c.id = claw[p].id /\ c.status = "error"
    BY <2>1, StatusChanges DEF Status
  <2>3. Turn(p, "find", c, found[p], todo[p], "failed")
    BY <1>1, Unmoved DEF Raise, Goto, Turn
  <2>4. Fine(p, "find", c, found[p], todo[p], "failed", known, answered)
    BY <2>1, <2>2 DEF Fine, Fit, Pc, Stage, Carrying
  <2>5. QED
    BY <2>3, <2>4
<1>2. CASE stage[p] # "provision"
  <2>1. Turn(p, "done", claw[p], found[p], todo[p], stage[p])
    BY <1>2, Unmoved DEF Raise, Goto, Turn
  <2>2. Fine(p, "done", claw[p], found[p], todo[p], stage[p], known, answered)
    BY FineElsewhere
  <2>3. QED
    BY <2>1, <2>2
<1>3. QED
  BY <1>1, <1>2

-----------------------------------------------------------------------------
(* The ids that are given out *)

\* Creates and Keys are finite, and so are those that have begun.
LEMMA Finite ==
    /\ IsFiniteSet(Creates \cup Keys) /\ Cardinality(Creates \cup Keys) \in Nat
    /\ \A S \in SUBSET (Creates \cup Keys) :
         /\ IsFiniteSet(S) /\ Cardinality(S) \in Nat
         /\ Cardinality(S) <= Cardinality(Creates \cup Keys)
<1>1. Creates \cup Keys \subseteq Requests
  BY DEF Requests
<1>2. QED
  BY <1>1, FS_Subset, FS_CardinalityType, ClawAssumption

\* A request that begins has an id left for it.
LEMMA OneMore ==
    ASSUME NEW p \in Creates \cup Keys, Locals, Counted, pc[p] = "start",
           NEW at \in Pc \ {"start"}, Goto(p, at), ids' = ids + 1
    PROVE  Counted' /\ ids + 1 \in Id
<1>1. Begun' = Begun \cup {p} /\ p \notin Begun
  BY DEF Begun, Locals, Requests, Goto
<1>2. Begun \in SUBSET (Creates \cup Keys) /\ Begun' \in SUBSET (Creates \cup Keys)
  BY <1>1 DEF Begun
<1>3. Cardinality(Begun') = Cardinality(Begun) + 1
  BY <1>1, <1>2, Finite, FS_AddElement
<1>4. Cardinality(Begun') <= Cardinality(Creates \cup Keys) /\ Cardinality(Begun) \in Nat
  BY <1>2, Finite
<1>5. QED
  BY <1>3, <1>4, Finite DEF Counted, Id

\* A step that gives out no id and lets nobody begin anew keeps the count.
LEMMA NoMore ==
    ASSUME Counted, ids' = ids, \A p \in Requests : pc'[p] = "start" => pc[p] = "start"
    PROVE  Counted'
<1>1. Begun \subseteq Begun' /\ Begun \in SUBSET (Creates \cup Keys)
      /\ Begun' \in SUBSET (Creates \cup Keys)
  BY DEF Begun, Requests
<1>2. Cardinality(Begun) <= Cardinality(Begun')
  BY <1>1, Finite, FS_Subset
<1>3. QED
  BY <1>1, <1>2, Finite DEF Counted

\* Whatever a request does, it does not start again.
LEMMA NobodyRestarts ==
    ASSUME Locals, NEW p \in Requests, NEW at \in Pc \ {"start"}, Goto(p, at)
    PROVE  \A q \in Requests : pc'[q] = "start" => pc[q] = "start"
  BY DEF Locals, Goto

-----------------------------------------------------------------------------
(* The first command of a request *)

Good == Locals /\ AllFine /\ Shared

\* What a turn needs of the rest of a step.
Grows == Known \subseteq Known' /\ readied \subseteq readied' /\ Shared'

\* The same of the whole of Good.
LEMMA TurnIsGood ==
    ASSUME Good, Grows, NEW p \in Requests, NEW at, NEW c, NEW f, NEW t, NEW s,
           Turn(p, at, c, f, t, s), Fine(p, at, c, f, t, s, Known', readied')
    PROVE  Good'
  BY TurnKeeps DEF Good, Grows

\* A step of one request alone shares nothing.
LEMMA NothingShared ==
    ASSUME Good, UNCHANGED <<doc, live, readied, removed>>
    PROVE  Grows /\ Known' = Known /\ readied' = readied
  BY DEF Good, Grows, Known, Shared

\* A request to create loads the claw and inserts a new one, or goes on with it
\* (_load_or_create).
LEMMA LoadCreateKeeps ==
    ASSUME Good, Counted, NEW p \in Requests, LoadCreate(p)
    PROVE  Good' /\ Counted'
<1> USE DEF Good
<1>1. /\ UNCHANGED <<doc, live, readied, removed>> /\ UNCHANGED <<found, todo, stage>>
      /\ p \in Creates /\ pc[p] = "start"
  BY DEF LoadCreate
<1>2. Grows /\ Known' = Known /\ readied' = readied
  BY <1>1, NothingShared
<1>3. Fine(p, "start", claw[p], found[p], todo[p], stage[p], Known, readied)
  BY <1>1, FineNow
<1>4. CASE Fresh(p, "creating", "insert")
  <2> DEFINE c == NewClaw(ids + 1, "creating")
  <2>1. Turn(p, "insert", c, found[p], todo[p], stage[p])
    BY <1>1, <1>4, Unmoved DEF Fresh, SetClaw, Goto, Turn
  <2>2. ids + 1 \in Id /\ Counted'
    BY <1>1, <1>4, OneMore DEF Fresh, Pc
  <2>3. c \in Claw /\ c.status = "creating"
    BY <2>2, NewIsClaw DEF Status
  <2>4. Fine(p, "insert", c, found[p], todo[p], stage[p], Known, readied)
    BY <1>3, <2>3 DEF Fine, Fit, Pc, Carrying
  <2>5. QED
    BY <1>2, <2>1, <2>2, <2>4, TurnIsGood
<1>5. CASE Goto(p, "done") /\ UNCHANGED <<ids, claw>>
  <2>1. Turn(p, "done", claw[p], found[p], todo[p], stage[p])
    BY <1>1, <1>5, Unmoved DEF Goto, Turn
  <2>2. Fine(p, "done", claw[p], found[p], todo[p], stage[p], Known, readied)
    BY <1>3, FineElsewhere
  <2>3. Counted'
    BY <1>5, NobodyRestarts, NoMore DEF Pc
  <2>4. QED
    BY <1>2, <2>1, <2>2, <2>3, TurnIsGood
<1>6. CASE /\ doc.status \notin {"none", "running"}
           /\ SetClaw(p, NewClaw(doc.id, "creating"))
           /\ Goto(p, "find")
           /\ UNCHANGED ids
  <2> DEFINE c == NewClaw(doc.id, "creating")
  <2>1. Turn(p, "find", c, found[p], todo[p], stage[p])
    BY <1>1, <1>6, Unmoved DEF SetClaw, Goto, Turn
  <2>2. doc.id \in Id /\ doc.id \in Known
    BY <1>6, NoneOrClaw, ClawFields DEF Shared, Known
  <2>3. c \in Claw /\ c.status = "creating" /\ c.id \in Known
    BY <2>2, NewIsClaw DEF Status
  <2>4. Fine(p, "find", c, found[p], todo[p], stage[p], Known, readied)
    BY <1>3, <2>3 DEF Fine, Fit, Pc, Carrying
  <2>5. Counted'
    BY <1>6, NobodyRestarts, NoMore DEF Pc
  <2>6. QED
    BY <1>2, <2>1, <2>4, <2>5, TurnIsGood
<1>7. QED
  BY <1>4, <1>5, <1>6 DEF LoadCreate

\* A request by the claw's key finds it by the key.
LEMMA LoadKeyKeeps ==
    ASSUME Good, Counted, NEW p \in Requests, LoadKey(p)
    PROVE  Good' /\ Counted'
<1> USE DEF Good
<1>1. /\ UNCHANGED <<doc, live, readied, removed>> /\ UNCHANGED <<found, todo, stage>>
      /\ p \in Keys /\ pc[p] = "start" /\ p \notin Creates
  BY ClawAssumption DEF LoadKey
<1>2. Grows /\ Known' = Known /\ readied' = readied
  BY <1>1, NothingShared
<1>3. Fine(p, "start", claw[p], found[p], todo[p], stage[p], Known, readied)
  BY <1>1, FineNow
<1>4. CASE Fresh(p, "stopped", "insert")
  <2> DEFINE c == NewClaw(ids + 1, "stopped")
  <2>1. Turn(p, "insert", c, found[p], todo[p], stage[p])
    BY <1>1, <1>4, Unmoved DEF Fresh, SetClaw, Goto, Turn
  <2>2. ids + 1 \in Id /\ Counted'
    BY <1>1, <1>4, OneMore DEF Fresh, Pc
  <2>3. c \in Claw /\ c.status = "stopped"
    BY <2>2, NewIsClaw DEF Status
  <2>4. Fine(p, "insert", c, found[p], todo[p], stage[p], Known, readied)
    BY <1>1, <1>3, <2>3 DEF Fine, Fit, Pc, Carrying
  <2>5. QED
    BY <1>2, <2>1, <2>2, <2>4, TurnIsGood
<1>5. CASE Goto(p, "done") /\ UNCHANGED <<ids, claw>>
  <2>1. Turn(p, "done", claw[p], found[p], todo[p], stage[p])
    BY <1>1, <1>5, Unmoved DEF Goto, Turn
  <2>2. Fine(p, "done", claw[p], found[p], todo[p], stage[p], Known, readied)
    BY <1>3, FineElsewhere
  <2>3. Counted'
    BY <1>5, NobodyRestarts, NoMore DEF Pc
  <2>4. QED
    BY <1>2, <2>1, <2>2, <2>3, TurnIsGood
<1>6. QED
  BY <1>4, <1>5 DEF LoadKey

\* get_claw: the request takes the document as it is.
LEMMA LoadGetKeeps ==
    ASSUME Good, Counted, NEW p \in Requests, LoadGet(p)
    PROVE  Good' /\ Counted'
<1> USE DEF Good
<1>1. /\ UNCHANGED <<doc, live, readied, removed>> /\ UNCHANGED <<found, todo, stage, ids>>
      /\ p \in Gets /\ pc[p] = "start" /\ p \notin Creates
  BY ClawAssumption DEF LoadGet
<1>2. Grows /\ Known' = Known /\ readied' = readied
  BY <1>1, NothingShared
<1>3. Fine(p, "start", claw[p], found[p], todo[p], stage[p], Known, readied)
  BY <1>1, FineNow
<1>4. PICK at \in {"done", "deleteFind", "health"} : 
        Goto(p, at) /\ (at = "health" => doc.status = "running")
  BY DEF LoadGet
<1>5. Turn(p, at, doc, found[p], todo[p], stage[p])
  BY <1>1, <1>4, Unmoved DEF LoadGet, SetClaw, Goto, Turn
<1>6. doc.status = "running" => doc \in Claw /\ doc.id \in Known
  BY NoneOrClaw, ClawFields DEF Shared, Known
<1>7. Fine(p, at, doc, found[p], todo[p], stage[p], Known, readied)
  BY <1>1, <1>3, <1>4, <1>6 DEF Fine, Pc, Carrying, Shared
<1>8. Counted'
  BY <1>1, <1>4, NobodyRestarts, NoMore DEF Pc
<1>9. QED
  BY <1>2, <1>5, <1>7, <1>8, TurnIsGood

\* A deletion loads the claw.
LEMMA LoadDeleteKeeps ==
    ASSUME Good, Counted, NEW p \in Requests, LoadDelete(p)
    PROVE  Good' /\ Counted'
<1> USE DEF Good
<1>1. /\ UNCHANGED <<doc, live, readied, removed>> /\ UNCHANGED <<ids, locals>>
      /\ pc[p] = "start"
  BY DEF LoadDelete
<1>2. Grows /\ Known' = Known /\ readied' = readied
  BY <1>1, NothingShared
<1>3. Fine(p, "start", claw[p], found[p], todo[p], stage[p], Known, readied)
  BY <1>1, FineNow
<1>4. PICK at \in {"done", "deleteFind"} : Goto(p, at)
  BY DEF LoadDelete
<1>5. Turn(p, at, claw[p], found[p], todo[p], stage[p])
  BY <1>1, <1>4, Unmoved DEF locals, Goto, Turn
<1>6. Fine(p, at, claw[p], found[p], todo[p], stage[p], Known, readied)
  BY <1>3, FineElsewhere
<1>7. Counted'
  BY <1>1, <1>4, NobodyRestarts, NoMore DEF Pc
<1>8. QED
  BY <1>2, <1>5, <1>6, <1>7, TurnIsGood

\* A message of the chat loads the claw.
LEMMA LoadChatKeeps ==
    ASSUME Good, Counted, NEW p \in Requests, LoadChat(p)
    PROVE  Good' /\ Counted'
<1> USE DEF Good
<1>1. /\ UNCHANGED <<doc, live, readied, removed>> /\ UNCHANGED <<ids, claw, found, stage>>
      /\ pc[p] = "start"
  BY DEF LoadChat
<1>2. Grows /\ Known' = Known /\ readied' = readied
  BY <1>1, NothingShared
<1>3. Fine(p, "start", claw[p], found[p], todo[p], stage[p], Known, readied)
  BY <1>1, FineNow
<1>4. CASE todo' = [todo EXCEPT ![p] = <<<<p, "user">>>>] /\ Goto(p, "appendFind")
  <2> DEFINE t == <<<<p, "user">>>>
  <2>1. Turn(p, "appendFind", claw[p], found[p], t, stage[p])
    BY <1>1, <1>4, Unmoved DEF Goto, Turn
  <2>2. t \in Seq(Message) /\ t # <<>>
    BY DEF Message
  <2>3. Fine(p, "appendFind", claw[p], found[p], t, stage[p], Known, readied)
    BY <1>3, <2>2 DEF Fine, Pc, Carrying
  <2>4. Counted'
    BY <1>1, <1>4, NobodyRestarts, NoMore DEF Pc
  <2>5. QED
    BY <1>2, <2>1, <2>3, <2>4, TurnIsGood
<1>5. CASE UNCHANGED todo /\ Goto(p, "done")
  <2>1. Turn(p, "done", claw[p], found[p], todo[p], stage[p])
    BY <1>1, <1>5, Unmoved DEF Goto, Turn
  <2>2. Fine(p, "done", claw[p], found[p], todo[p], stage[p], Known, readied)
    BY <1>3, FineElsewhere
  <2>3. Counted'
    BY <1>1, <1>5, NobodyRestarts, NoMore DEF Pc
  <2>4. QED
    BY <1>2, <2>1, <2>2, <2>3, TurnIsGood
<1>6. QED
  BY <1>4, <1>5 DEF LoadChat

-----------------------------------------------------------------------------
(* ClawRepository *)

\* The document is replaced by a claw that is known and fit.
LEMMA DocReplaced ==
    ASSUME Good, NEW c \in Claw, doc.id \in {0, c.id}, doc' = c, Fit(c, readied),
           UNCHANGED <<live, readied, removed>>
    PROVE  Grows /\ readied' = readied /\ c.id \in Known'
<1>1. Known \subseteq Known' /\ c.id \in Known'
  BY ClawFields DEF Known
<1>2. QED
  BY <1>1 DEF Grows, Good, Shared, Fit

\* A turn by an exception.
LEMMA RaiseIsGood ==
    ASSUME Good, Counted, Grows, Known' = Known, readied' = readied, NEW p \in Requests,
           Raise(p), UNCHANGED <<ids, found, todo>>,
           Fine(p, pc[p], claw[p], found[p], todo[p], stage[p], Known, readied)
    PROVE  Good' /\ Counted'
<1>1. PICK at, c, s : /\ Turn(p, at, c, found[p], todo[p], s)
                      /\ Fine(p, at, c, found[p], todo[p], s, Known, readied)
  BY RaiseTurns DEF Good
<1>2. Good'
  BY <1>1, TurnIsGood
<1>3. Counted'
  BY NobodyRestarts, NoMore DEF Raise, Good, Pc
<1>4. QED
  BY <1>2, <1>3

\* The insertion fails when another's came first, and only then.
LEMMA InsertKeeps ==
    ASSUME Good, Counted, NEW p \in Requests, Insert(p)
    PROVE  Good' /\ Counted'
<1> USE DEF Good
<1>1. UNCHANGED <<live, readied, removed>> /\ UNCHANGED <<ids, locals>> /\ pc[p] = "insert"
  BY DEF Insert
<1>2. Fine(p, "insert", claw[p], found[p], todo[p], stage[p], Known, readied)
  BY <1>1, FineNow
<1>3. CASE doc = NoClaw /\ doc' = claw[p]
        /\ Goto(p, IF p \in Creates THEN "boot" ELSE "done")
  <2> DEFINE at == IF p \in Creates THEN "boot" ELSE "done"
  <2>1. Turn(p, at, claw[p], found[p], todo[p], stage[p])
    BY <1>1, <1>3, Unmoved DEF locals, Goto, Turn
  <2>2. Grows /\ readied' = readied /\ claw[p].id \in Known'
    BY <1>1, <1>2, <1>3, DocReplaced DEF Fine, Carrying, NoClaw
  <2>3. Fine(p, "insert", claw[p], found[p], todo[p], stage[p], Known', readied')
    BY <1>2, <2>2, FineGrows DEF Grows
  <2>4. Fine(p, at, claw[p], found[p], todo[p], stage[p], Known', readied')
    BY <2>2, <2>3 DEF Fine, Pc, Carrying
  <2>5. Counted'
    BY <1>1, <1>3, NobodyRestarts, NoMore DEF Pc
  <2>6. QED
    BY <2>1, <2>2, <2>4, <2>5, TurnIsGood
<1>4. CASE Goto(p, "done") /\ UNCHANGED doc
  <2>1. Turn(p, "done", claw[p], found[p], todo[p], stage[p])
    BY <1>1, <1>4, Unmoved DEF locals, Goto, Turn
  <2>2. Grows /\ Known' = Known /\ readied' = readied
    BY <1>1, <1>4, NothingShared
  <2>3. Fine(p, "done", claw[p], found[p], todo[p], stage[p], Known, readied)
    BY <1>2, FineElsewhere
  <2>4. Counted'
    BY <1>1, <1>4, NobodyRestarts, NoMore DEF Pc
  <2>5. QED
    BY <2>1, <2>2, <2>3, <2>4, TurnIsGood
<1>5. QED
  BY <1>3, <1>4 DEF Insert

\* update: the claw is saved next only if the document is found by its id.
LEMMA FindKeeps ==
    ASSUME Good, Counted, NEW p \in Requests, Find(p)
    PROVE  Good' /\ Counted'
<1> USE DEF Good
<1>1. UNCHANGED <<doc, live, readied, removed>> /\ UNCHANGED <<ids, found, todo>>
        /\ pc[p] = "find"
  BY DEF Find
<1>2. Grows /\ Known' = Known /\ readied' = readied
  BY <1>1, NothingShared
<1>3. Fine(p, "find", claw[p], found[p], todo[p], stage[p], Known, readied)
  BY <1>1, FineNow
<1>4. CASE Goto(p, "save") /\ UNCHANGED <<claw, stage>>
  <2>1. Turn(p, "save", claw[p], found[p], todo[p], stage[p])
    BY <1>1, <1>4, Unmoved DEF Goto, Turn
  <2>2. Fine(p, "save", claw[p], found[p], todo[p], stage[p], Known, readied)
    BY <1>3 DEF Fine, Pc, Carrying
  <2>3. Counted'
    BY <1>1, <1>4, NobodyRestarts, NoMore DEF Pc
  <2>4. QED
    BY <1>2, <2>1, <2>2, <2>3, TurnIsGood
<1>5. CASE Raise(p)
  BY <1>1, <1>2, <1>3, <1>5, RaiseIsGood
<1>6. QED
  BY <1>4, <1>5 DEF Find

\* ... and takes the place of the document, unless there is another one by now.
LEMMA SaveKeeps ==
    ASSUME Good, Counted, NEW p \in Requests, Save(p)
    PROVE  Good' /\ Counted'
<1> USE DEF Good
<1>1. UNCHANGED <<live, readied, removed>> /\ UNCHANGED <<ids, found>> /\ pc[p] = "save"
  BY DEF Save
<1>2. Fine(p, "save", claw[p], found[p], todo[p], stage[p], Known, readied)
  BY <1>1, FineNow
<1>3. CASE /\ Upserts(claw[p])
           /\ doc' = claw[p]
           /\ Goto(p, AfterSave(p))
           /\ todo' = IF stage[p] = "provision"
                      THEN [todo EXCEPT ![p] = <<<<p, "ready">>>>] ELSE todo
           /\ UNCHANGED <<claw, stage>>
  <2> DEFINE t == IF stage[p] = "provision" THEN <<<<p, "ready">>>> ELSE todo[p]
  <2>1. Turn(p, AfterSave(p), claw[p], found[p], t, stage[p])
    BY <1>1, <1>3, Unmoved DEF Goto, Turn
  <2>2. claw[p] \in Claw /\ Fit(claw[p], readied)
    BY <1>2 DEF Fine, Carrying
  <2>3. Grows /\ readied' = readied /\ claw[p].id \in Known'
    BY <1>1, <1>3, <2>2, DocReplaced DEF Upserts
  <2>4. Fine(p, "save", claw[p], found[p], todo[p], stage[p], Known', readied')
    BY <1>2, <2>3, FineGrows DEF Grows
  <2>5. t \in Seq(Message) /\ (stage[p] = "provision" => t # <<>>)
    BY <2>4 DEF Fine, Message
  <2>6. /\ AfterSave(p) \in {"appendFind", "boot", "done"}
        /\ AfterSave(p) = "appendFind" => stage[p] = "provision"
        /\ AfterSave(p) = "boot" => stage[p] = "request" /\ p \in Creates
    BY DEF AfterSave
  <2>7. Fine(p, AfterSave(p), claw[p], found[p], t, stage[p], Known', readied')
    BY <2>3, <2>4, <2>5, <2>6 DEF Fine, Pc, Carrying
  <2>8. Counted'
    BY <1>1, <1>3, <2>6, NobodyRestarts, NoMore DEF Pc
  <2>9. QED
    BY <2>1, <2>3, <2>7, <2>8, TurnIsGood
<1>4. CASE Raise(p) /\ UNCHANGED <<doc, todo>>
  <2>1. Grows /\ Known' = Known /\ readied' = readied
    BY <1>1, <1>4, NothingShared
  <2>2. QED
    BY <1>1, <1>2, <1>4, <2>1, RaiseIsGood
<1>5. QED
  BY <1>3, <1>4 DEF Save

\* What is left to append after one message.
LEMMA AppendGoesOn ==
    ASSUME NEW p \in Requests, todo[p] \in Seq(Message), todo[p] # <<>>
    PROVE  /\ Head(todo[p]) \in Message /\ Tail(todo[p]) \in Seq(Message)
           /\ AfterAppend(p) \in {"stream", "appendFind", "done"}
           /\ AfterAppend(p) = "appendFind" => Tail(todo[p]) # <<>>
  BY DEF AfterAppend

\* An append reads the document whole.
LEMMA AppendFindKeeps ==
    ASSUME Good, Counted, NEW p \in Requests, AppendFind(p)
    PROVE  Good' /\ Counted'
<1> USE DEF Good
<1>1. /\ UNCHANGED <<doc, live, readied, removed>> /\ UNCHANGED <<ids, claw, stage>>
      /\ pc[p] = "appendFind"
  BY DEF AppendFind
<1>2. Grows /\ Known' = Known /\ readied' = readied
  BY <1>1, NothingShared
<1>3. Fine(p, "appendFind", claw[p], found[p], todo[p], stage[p], Known, readied)
  BY <1>1, FineNow
<1>4. /\ Head(todo[p]) \in Message /\ Tail(todo[p]) \in Seq(Message)
      /\ AfterAppend(p) \in {"stream", "appendFind", "done"}
      /\ AfterAppend(p) = "appendFind" => Tail(todo[p]) # <<>>
  BY <1>3, AppendGoesOn DEF Fine
<1>5. CASE doc = NoClaw
  <2>1. Turn(p, AfterAppend(p), claw[p], found[p], Tail(todo[p]), stage[p])
    BY <1>1, <1>5, Unmoved DEF AppendFind, Appended, Goto, Turn, Locals
  <2>2. Fine(p, AfterAppend(p), claw[p], found[p], Tail(todo[p]), stage[p], Known, readied)
    BY <1>3, <1>4 DEF Fine, Pc, Carrying
  <2>3. Counted'
    BY <1>1, <1>4, <1>5, NobodyRestarts, NoMore DEF AppendFind, Appended, Pc
  <2>4. QED
    BY <1>2, <2>1, <2>2, <2>3, TurnIsGood
<1>6. CASE doc # NoClaw
  <2> DEFINE f == [doc EXCEPT !.messages = @ \cup {Head(todo[p])}]
  <2>1. Turn(p, "appendSave", claw[p], f, todo[p], stage[p])
    BY <1>1, <1>6, Unmoved DEF AppendFind, Goto, Turn
  <2>2. doc \in Claw /\ doc.id \in Known
    BY <1>6, NoneOrClaw, ClawFields DEF Shared, Known
  <2>3. f \in Claw /\ f.id = doc.id /\ f.status = doc.status /\ f.url = doc.url
    BY <1>4, <2>2, MessageComes
  <2>4. Fine(p, "appendSave", claw[p], f, todo[p], stage[p], Known, readied)
    BY <1>3, <2>2, <2>3 DEF Fine, Fit, Pc, Carrying, Shared
  <2>5. Counted'
    BY <1>1, <1>6, NobodyRestarts, NoMore DEF AppendFind, Pc
  <2>6. QED
    BY <1>2, <2>1, <2>4, <2>5, TurnIsGood
<1>7. QED
  BY <1>5, <1>6

\* It writes back what it read with its message.
LEMMA AppendSaveKeeps ==
    ASSUME Good, Counted, NEW p \in Requests, AppendSave(p)
    PROVE  Good' /\ Counted'
<1> USE DEF Good
<1>1. UNCHANGED <<live, readied, removed>> /\ UNCHANGED <<ids, found>>
        /\ pc[p] = "appendSave"
  BY DEF AppendSave
<1>2. Fine(p, "appendSave", claw[p], found[p], todo[p], stage[p], Known, readied)
  BY <1>1, FineNow
<1>3. CASE /\ Upserts(found[p])
           /\ doc' = found[p]
           /\ Appended(p, AfterAppend(p))
           /\ UNCHANGED <<claw, stage>>
  <2>1. Turn(p, AfterAppend(p), claw[p], found[p], Tail(todo[p]), stage[p])
    BY <1>1, <1>3, Unmoved DEF Appended, Goto, Turn, Locals
  <2>2. found[p] \in Claw /\ Fit(found[p], readied)
    BY <1>2 DEF Fine
  <2>3. Grows /\ readied' = readied
    BY <1>1, <1>3, <2>2, DocReplaced DEF Upserts
  <2>4. Fine(p, "appendSave", claw[p], found[p], todo[p], stage[p], Known', readied')
    BY <1>2, <2>3, FineGrows DEF Grows
  <2>5. /\ Tail(todo[p]) \in Seq(Message)
        /\ AfterAppend(p) \in {"stream", "appendFind", "done"}
        /\ AfterAppend(p) = "appendFind" => Tail(todo[p]) # <<>>
    BY <1>2, AppendGoesOn DEF Fine
  <2>6. Fine(p, AfterAppend(p), claw[p], found[p], Tail(todo[p]), stage[p], Known',
          readied')
    BY <2>4, <2>5 DEF Fine, Pc, Carrying
  <2>7. Counted'
    BY <1>1, <1>3, <2>5, NobodyRestarts, NoMore DEF Appended, Pc
  <2>8. QED
    BY <2>1, <2>3, <2>6, <2>7, TurnIsGood
<1>4. CASE Raise(p) /\ UNCHANGED <<doc, todo>>
  <2>1. Grows /\ Known' = Known /\ readied' = readied
    BY <1>1, <1>4, NothingShared
  <2>2. QED
    BY <1>1, <1>2, <1>4, <2>1, RaiseIsGood
<1>5. QED
  BY <1>3, <1>4 DEF AppendSave

\* A deletion reads the document again before it deletes it.
LEMMA DeleteFindKeeps ==
    ASSUME Good, Counted, NEW p \in Requests, DeleteFind(p)
    PROVE  Good' /\ Counted'
<1> USE DEF Good
<1>1. /\ UNCHANGED <<doc, live, readied, removed>> /\ UNCHANGED <<ids, claw, todo, stage>>
      /\ pc[p] = "deleteFind"
  BY DEF DeleteFind
<1>2. Grows /\ Known' = Known /\ readied' = readied
  BY <1>1, NothingShared
<1>3. Fine(p, "deleteFind", claw[p], found[p], todo[p], stage[p], Known, readied)
  BY <1>1, FineNow
<1>4. PICK at \in {"done", "delete"} : Goto(p, at) /\ (at = "delete" => doc # NoClaw)
  BY DEF DeleteFind
<1>5. Turn(p, at, claw[p], doc, todo[p], stage[p])
  BY <1>1, <1>4, Unmoved DEF DeleteFind, Goto, Turn
<1>6. doc # NoClaw => doc \in Claw /\ doc.id \in Known
  BY NoneOrClaw, ClawFields DEF Shared, Known
<1>7. Fine(p, at, claw[p], doc, todo[p], stage[p], Known, readied)
  BY <1>3, <1>4, <1>6 DEF Fine, Pc, Carrying, Shared
<1>8. Counted'
  BY <1>1, <1>4, NobodyRestarts, NoMore DEF Pc
<1>9. QED
  BY <1>2, <1>5, <1>7, <1>8, TurnIsGood

\* A claw whose document goes is one of the removed.
LEMMA DeleteKeeps ==
    ASSUME Good, Counted, NEW p \in Requests, Delete(p)
    PROVE  Good' /\ Counted'
<1> USE DEF Good
<1>1. UNCHANGED <<live, readied>> /\ UNCHANGED <<ids, locals>> /\ pc[p] = "delete"
  BY DEF Delete
<1>2. Fine(p, "delete", claw[p], found[p], todo[p], stage[p], Known, readied)
  BY <1>1, FineNow
<1>3. Turn(p, "done", claw[p], found[p], todo[p], stage[p])
  BY <1>1, Unmoved DEF Delete, locals, Goto, Turn
<1>4. found[p].id \in Id /\ removed' = removed \cup {found[p].id}
  BY <1>2, ClawFields DEF Fine, Delete
<1>5. Known \subseteq Known'
  BY <1>4 DEF Delete, Known
<1>6. Grows
  BY <1>1, <1>4, <1>5, NoClawFits DEF Delete, Grows, Shared
<1>7. Fine(p, "delete", claw[p], found[p], todo[p], stage[p], Known', readied')
  BY <1>2, <1>6, FineGrows DEF Grows
<1>8. Fine(p, "done", claw[p], found[p], todo[p], stage[p], Known', readied')
  BY <1>7, FineElsewhere
<1>9. Counted'
  BY <1>1, NobodyRestarts, NoMore DEF Delete, Pc
<1>10. QED
  BY <1>3, <1>6, <1>8, <1>9, TurnIsGood

-----------------------------------------------------------------------------
(* provision_claw_instance, the health check and the chat *)

\* A container is started, or the creation fails.
LEMMA BootKeeps ==
    ASSUME Good, Counted, NEW p \in Requests, Boot(p)
    PROVE  Good' /\ Counted'
<1> USE DEF Good
<1>1. UNCHANGED <<doc, readied, removed>> /\ UNCHANGED <<ids, found, todo>>
        /\ pc[p] = "boot"
  BY DEF Boot
<1>2. Known' = Known /\ readied' = readied
  BY <1>1 DEF Known
<1>3. Fine(p, "boot", claw[p], found[p], todo[p], stage[p], Known, readied)
  BY <1>1, FineNow
<1>4. claw[p] \in Claw /\ claw[p].id \in Known /\ claw[p].status = "creating"
        /\ p \in Creates
  BY <1>3 DEF Fine, Carrying
<1>5. Grows
  BY <1>1, <1>2, <1>4 DEF Boot, Grows, Shared
<1>6. ASSUME NEW address \in BOOLEAN,
             stage' = [stage EXCEPT ![p] = "provision"],
             claw' = [claw EXCEPT ![p].url = address,
                                  ![p].status = IF address THEN @ ELSE "running"],
             Goto(p, IF address THEN "ready" ELSE "find")
      PROVE  Good' /\ Counted'
  <2> DEFINE c  == [claw[p] EXCEPT !.url = address,
                                   !.status = IF address THEN @ ELSE "running"]
             at == IF address THEN "ready" ELSE "find"
  <2>1. Turn(p, at, c, found[p], todo[p], "provision")
    BY <1>1, <1>6, Unmoved DEF Goto, Turn, Locals
  <2>2. /\ c \in Claw /\ c.id = claw[p].id /\ c.url = address
        /\ c.status = IF address THEN "creating" ELSE "running"
    BY <1>4, AddressComes DEF Claw, Status
  <2>3. Fine(p, at, c, found[p], todo[p], "provision", Known, readied)
    BY <1>3, <1>4, <2>2 DEF Fine, Fit, Pc, Stage, Carrying
  <2>4. Counted'
    BY <1>1, <1>6, NobodyRestarts, NoMore DEF Pc
  <2>5. QED
    BY <1>2, <1>5, <2>1, <2>3, <2>4, TurnIsGood
<1>7. CASE /\ stage' = [stage EXCEPT ![p] = "failed"]
           /\ claw' = [claw EXCEPT ![p].status = "error"]
           /\ Goto(p, "find")
  <2> DEFINE c == [claw[p] EXCEPT !.status = "error"]
  <2>1. Turn(p, "find", c, found[p], todo[p], "failed")
    BY <1>1, <1>7, Unmoved DEF Goto, Turn
  <2>2. c \in Claw /\ c.id = claw[p].id /\ c.status = "error"
    BY <1>4, StatusChanges DEF Status
  <2>3. Fine(p, "find", c, found[p], todo[p], "failed", Known, readied)
    BY <1>3, <1>4, <2>2 DEF Fine, Fit, Pc, Stage, Carrying
  <2>4. Counted'
    BY <1>1, <1>7, NobodyRestarts, NoMore DEF Pc
  <2>5. QED
    BY <1>2, <1>5, <2>1, <2>3, <2>4, TurnIsGood
<1>8. QED
  BY <1>6, <1>7 DEF Boot

\* wait_for_ready: from here on the claw has answered.
LEMMA ReadyKeeps ==
    ASSUME Good, Counted, NEW p \in Requests, Ready(p)
    PROVE  Good' /\ Counted'
<1> USE DEF Good
<1>1. /\ UNCHANGED <<doc, live, removed>> /\ UNCHANGED <<ids, found, todo>>
      /\ pc[p] = "ready"
  BY DEF Ready
<1>2. Fine(p, "ready", claw[p], found[p], todo[p], stage[p], Known, readied)
  BY <1>1, FineNow
<1>3. CASE /\ readied' = readied \cup {claw[p].id}
           /\ claw' = [claw EXCEPT ![p].status = "running"]
           /\ Goto(p, "find")
           /\ UNCHANGED stage
  <2> DEFINE c == [claw[p] EXCEPT !.status = "running"]
  <2>1. Turn(p, "find", c, found[p], todo[p], stage[p])
    BY <1>1, <1>3, Unmoved DEF Goto, Turn
  <2>2. claw[p] \in Claw /\ claw[p].id \in Id
    BY <1>2, ClawFields DEF Fine, Carrying
  <2>3. c \in Claw /\ c.id = claw[p].id
    BY <2>2, StatusChanges DEF Status
  <2>4. Grows
    BY <1>1, <1>3, <2>2 DEF Grows, Known, Shared, Fit
  <2>5. Fine(p, "ready", claw[p], found[p], todo[p], stage[p], Known', readied')
    BY <1>2, <2>4, FineGrows DEF Grows
  <2>6. Fine(p, "find", c, found[p], todo[p], stage[p], Known', readied')
    BY <1>3, <2>3, <2>5 DEF Fine, Fit, Pc, Carrying
  <2>7. Counted'
    BY <1>1, <1>3, NobodyRestarts, NoMore DEF Pc
  <2>8. QED
    BY <2>1, <2>4, <2>6, <2>7, TurnIsGood
<1>4. CASE Raise(p) /\ UNCHANGED readied
  <2>1. Grows /\ Known' = Known /\ readied' = readied
    BY <1>1, <1>4, NothingShared
  <2>2. QED
    BY <1>1, <1>2, <1>4, <2>1, RaiseIsGood
<1>5. QED
  BY <1>3, <1>4 DEF Ready

\* The container answers, or the creation times out.
LEMMA HealthKeeps ==
    ASSUME Good, Counted, NEW p \in Requests, Health(p)
    PROVE  Good' /\ Counted'
<1> USE DEF Good
<1>1. /\ UNCHANGED <<doc, live, readied, removed>> /\ UNCHANGED <<ids, found, todo, stage>>
      /\ pc[p] = "health"
  BY DEF Health
<1>2. Grows /\ Known' = Known /\ readied' = readied
  BY <1>1, NothingShared
<1>3. Fine(p, "health", claw[p], found[p], todo[p], stage[p], Known, readied)
  BY <1>1, FineNow
<1>4. CASE Goto(p, "done") /\ UNCHANGED claw
  <2>1. Turn(p, "done", claw[p], found[p], todo[p], stage[p])
    BY <1>1, <1>4, Unmoved DEF Goto, Turn
  <2>2. Fine(p, "done", claw[p], found[p], todo[p], stage[p], Known, readied)
    BY <1>3, FineElsewhere
  <2>3. Counted'
    BY <1>1, <1>4, NobodyRestarts, NoMore DEF Pc
  <2>4. QED
    BY <1>2, <2>1, <2>2, <2>3, TurnIsGood
<1>5. CASE claw' = [claw EXCEPT ![p].status = "stopped"] /\ Goto(p, "find")
  <2> DEFINE c == [claw[p] EXCEPT !.status = "stopped"]
  <2>1. Turn(p, "find", c, found[p], todo[p], stage[p])
    BY <1>1, <1>5, Unmoved DEF Goto, Turn
  <2>2. c \in Claw /\ c.id = claw[p].id /\ c.status = "stopped"
    BY <1>3, StatusChanges DEF Fine, Carrying, Status
  <2>3. p \notin Creates
    BY <1>3, ClawAssumption DEF Fine
  <2>4. Fine(p, "find", c, found[p], todo[p], stage[p], Known, readied)
    BY <1>3, <2>2, <2>3 DEF Fine, Fit, Pc, Carrying
  <2>5. Counted'
    BY <1>1, <1>5, NobodyRestarts, NoMore DEF Pc
  <2>6. QED
    BY <1>2, <2>1, <2>4, <2>5, TurnIsGood
<1>6. QED
  BY <1>4, <1>5 DEF Health

\* The claw's answer is streamed and appended.
LEMMA StreamKeeps ==
    ASSUME Good, Counted, NEW p \in Requests, Stream(p)
    PROVE  Good' /\ Counted'
<1> USE DEF Good
<1>1. /\ UNCHANGED <<doc, live, readied, removed>> /\ UNCHANGED <<ids, claw, found, stage>>
      /\ pc[p] = "stream"
  BY DEF Stream
<1>2. Grows /\ Known' = Known /\ readied' = readied
  BY <1>1, NothingShared
<1>3. Fine(p, "stream", claw[p], found[p], todo[p], stage[p], Known, readied)
  BY <1>1, FineNow
<1>4. PICK answer \in {<<>>, <<"assistant">>, <<"attachments">>, <<"attachments",
        "assistant">>} :
        /\ todo' = [todo EXCEPT ![p] = [i \in DOMAIN answer |-> <<p, answer[i]>>]]
        /\ Goto(p, IF answer = <<>> THEN "done" ELSE "appendFind")
  BY DEF Stream
<1> DEFINE t  == [i \in DOMAIN answer |-> <<p, answer[i]>>]
           at == IF answer = <<>> THEN "done" ELSE "appendFind"
<1>5. answer \in Seq({"assistant", "attachments"})
  <2>1. /\ <<>> \in Seq({"assistant", "attachments"})
        /\ <<"assistant">> \in Seq({"assistant", "attachments"})
        /\ <<"attachments">> \in Seq({"assistant", "attachments"})
        /\ <<"attachments", "assistant">> \in Seq({"assistant", "attachments"})
    OBVIOUS
  <2>2. QED
    BY <2>1
<1>6. t \in Seq(Message) /\ (answer # <<>> => t # <<>>)
  <2>1. DOMAIN answer = 1 .. Len(answer) /\ Len(answer) \in Nat
    BY <1>5
  <2>2. \A i \in 1 .. Len(answer) : <<p, answer[i]>> \in Message
    BY <1>5 DEF Message
  <2>3. QED
    BY <2>1, <2>2, <1>5
<1>7. Turn(p, at, claw[p], found[p], t, stage[p])
  BY <1>1, <1>4, Unmoved DEF Goto, Turn
<1>8. Fine(p, at, claw[p], found[p], t, stage[p], Known, readied)
  BY <1>3, <1>6 DEF Fine, Pc, Carrying
<1>9. Counted'
  BY <1>1, <1>4, NobodyRestarts, NoMore DEF Pc
<1>10. QED
  BY <1>2, <1>7, <1>8, <1>9, TurnIsGood

-----------------------------------------------------------------------------
(* Steps of no request *)

\* A container ends by itself.
LEMMA ContainerEndsKeeps == Good /\ Counted /\ ContainerEnds => Good' /\ Counted'
<1> SUFFICES ASSUME Good, Counted, ContainerEnds PROVE Good' /\ Counted'
  OBVIOUS
<1>1. UNCHANGED <<doc, readied, removed>> /\ UNCHANGED <<ids, pc, locals>>
        /\ live' \subseteq live
  BY DEF ContainerEnds
<1>2. QED
  BY <1>1, NoMore DEF Good, Locals, AllFine, Shared, Known, locals

\* After a crash nobody holds anything but what the document held.
LEMMA CrashKeeps == Good /\ Counted /\ Crash => Good' /\ Counted'
<1> SUFFICES ASSUME Good, Counted, Crash PROVE Good' /\ Counted'
  OBVIOUS
<1> USE DEF Good
<1>1. UNCHANGED <<doc, live, readied, removed>> /\ UNCHANGED <<ids, locals>>
  BY DEF Crash
<1>2. Grows /\ Known' = Known /\ readied' = readied
  BY <1>1, NothingShared
<1>3. /\ pc' \in [Requests -> Pc]
      /\ \A p \in Requests : pc'[p] = IF pc[p] = "start" THEN "start" ELSE "done"
  BY DEF Crash, Pc
<1>4. Locals' /\ Counted'
  BY <1>1, <1>3, NoMore DEF Locals, locals
<1>5. ASSUME NEW p \in Requests
      PROVE  Fine(p, pc'[p], claw'[p], found'[p], todo'[p], stage'[p], Known', readied')
  <2>1. Fine(p, pc[p], claw[p], found[p], todo[p], stage[p], Known, readied)
    BY FineNow
  <2>2. Fine(p, pc'[p], claw[p], found[p], todo[p], stage[p], Known, readied)
    BY <1>3, <2>1, FineElsewhere
  <2>3. QED
    BY <1>1, <1>2, <2>2 DEF locals
<1>6. QED
  BY <1>2, <1>4, <1>5 DEF AllFine, Grows

-----------------------------------------------------------------------------
(* The theorems *)

\* Initially there is no claw.
LEMMA InvInit == Init => IInv
<1> SUFFICES ASSUME Init PROVE IInv
  OBVIOUS
<1>1. Locals
  BY DEF Init, Locals, Pc, Stage
<1>2. AllFine
  BY NoClawFits DEF Init, AllFine, Fine, Pc, Stage, Carrying
<1>3. Shared
  BY NoClawFits DEF Init, Shared
<1>4. Counted
  <2>1. Begun \in SUBSET (Creates \cup Keys)
    BY DEF Begun
  <2>2. QED
    BY <2>1, Finite DEF Init, Counted
<1>5. QED
  BY <1>1, <1>2, <1>3, <1>4 DEF IInv

\* Every step keeps the invariant.
LEMMA InvStep == IInv /\ [Next]_vars => IInv'
<1> SUFFICES ASSUME Good, Counted, [Next]_vars PROVE Good' /\ Counted'
  BY DEF IInv, Good
<1>1. ASSUME NEW p \in Requests, Load(p) PROVE Good' /\ Counted'
  BY <1>1, LoadCreateKeeps, LoadKeyKeeps, LoadGetKeeps, LoadDeleteKeeps, LoadChatKeeps
     DEF Load
<1>2. ASSUME NEW p \in Requests, GoOn(p) PROVE Good' /\ Counted'
  BY <1>2, InsertKeeps, FindKeeps, SaveKeeps, AppendFindKeeps, AppendSaveKeeps,
     DeleteFindKeeps,
     DeleteKeeps, BootKeeps, ReadyKeeps, HealthKeeps, StreamKeeps DEF GoOn
<1>3. CASE UNCHANGED vars
  BY <1>3, NoMore DEF vars, locals, Good, Locals, AllFine, Shared, Known
<1>4. QED
  BY <1>1, <1>2, <1>3, ContainerEndsKeeps, CrashKeeps DEF Next

\* What the invariant says of the types: there is an id for every request that
\* needs one.
LEMMA WellFormed == IInv => TypeOK
<1> SUFFICES ASSUME IInv PROVE TypeOK
  OBVIOUS
<1>1. Known \subseteq Id
  BY ClawFields, NoneOrClaw DEF IInv, Shared, Known
<1>2. Cardinality(Begun) <= Cardinality(Creates \cup Keys) /\ Cardinality(Begun) \in Nat
  <2>1. Begun \in SUBSET (Creates \cup Keys)
    BY DEF Begun
  <2>2. QED
    BY <2>1, Finite
<1>3. ids \in 0 .. Cardinality(Creates \cup Keys)
  BY <1>2, Finite DEF IInv, Counted
<1>4. QED
  BY <1>1, <1>3 DEF IInv, Locals, Shared, Pc, Stage, TypeOK

\* The document, the containers and what every request holds keep their types.
THEOREM TypesHold == Spec => []TypeOK
  BY InvInit, InvStep, WellFormed, PTL DEF Spec

\* However requests race with each other and with a crash, a container that was
\* left to no claw is one of a claw that the user deleted (delete_claw,
\* provision_claw_instance).
THEOREM ContainersBelong == Spec => []NoStrayContainer
<1>1. IInv => NoStrayContainer
  BY DEF IInv, Shared, Known, NoStrayContainer
<1>2. QED
  BY InvInit, InvStep, <1>1, PTL DEF Spec

\* A claw is RUNNING with an address only once its container has answered, whoever
\* saved the document last (wait_for_ready, ClawRepository.update).
THEOREM RunningHasAnswered == Spec => []OnlyReadyRuns
<1>1. IInv => OnlyReadyRuns
  BY DEF IInv, Shared, Fit, OnlyReadyRuns
<1>2. QED
  BY InvInit, InvStep, <1>1, PTL DEF Spec
=============================================================================
