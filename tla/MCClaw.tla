-------------------------------- MODULE MCClaw --------------------------------
(***************************************************************************)
(* The four sides of a claw for TLC: its document and container, which this    *)
(* module extends, the live side of its chat, the merge of its history, and the   *)
(* plugin in the container.  Here the backend may crash, and a second create     *)
(* request and a look race the provisioning; MCProgress has a chat and the      *)
(* setting of a key beside it.                                                 *)
(* As in MCSandbox a behaviour is one of one part while the others rest; the      *)
(* chat's either have one client, and a deleted claw is not made again, or one    *)
(* message, which keeps two of both apart.                                       *)
(***************************************************************************)
EXTENDS ClawLifecycle, Sequences, TLC

CONSTANTS
    Messages, Clients, MaxPieces, StoreFails,       \* the chat
    Roles, Contents, Files, Times, Units, MaxLen,   \* the history
    Fetches, MaxStarts, MaxConns, MaxOutput,        \* the plugin
    None

VARIABLES
    part,
    at, pending, entry, stored, broken, there, bereft, conn, queue, shown, got,
    db, native, next, merged, used, seen, history,
    cur, starts, link, ready, conns, init, handlers, requests, bound, stream, run, fetch

Chat == INSTANCE ClawChat WITH pc <- at

Merge == INSTANCE ClawHistory

\* Each message may be a stream of the plugin.
Gate == INSTANCE GatewayBridge WITH Streams <- Messages, MaxPieces <- MaxOutput

ASSUME PartsAssumption ==
    Gate!GatewayAssumption /\ Chat!ChatAssumption /\ Merge!HistoryAssumption

Symmetry == Permutations(Creates) \cup Permutations(Messages) \cup Permutations(Clients)

chatVars  == <<at, pending, entry, stored, broken, there, bereft, conn, queue, shown, got>>
mergeVars == <<db, native, next, merged, used, seen, history>>
gateVars  == <<cur, starts, link, ready, conns, init, handlers, requests, bound, stream, run,
               fetch>>
allVars   == <<part, vars, chatVars, mergeVars, gateVars>>

AllInit ==
    /\ part \in {"life", "one client", "one message", "merge", "gate"}
    /\ part # "merge" => db = <<>> /\ native = <<>>
    /\ Init /\ Chat!Init /\ Merge!Init /\ Gate!Init

OneClient  == \E c \in Clients : \A d \in Clients \ {c} : conn[d] = "off"
OneMessage == \E m \in Messages : \A n \in Messages \ {m} : at[n] = "idle"

AllNext ==
    /\ UNCHANGED part
    /\ \/ part = "life" /\ Next /\ UNCHANGED <<chatVars, mergeVars, gateVars>>
       \/ /\ part = "one client" /\ Chat!Next /\ OneClient' /\ (there' => there)
          /\ UNCHANGED <<vars, mergeVars, gateVars>>
       \/ /\ part = "one message" /\ Chat!Next /\ OneMessage'
          /\ UNCHANGED <<vars, mergeVars, gateVars>>
       \/ part = "merge" /\ Merge!Next /\ UNCHANGED <<vars, chatVars, gateVars>>
       \/ part = "gate" /\ Gate!Next /\ UNCHANGED <<vars, chatVars, mergeVars>>

AllSpec == AllInit /\ [][AllNext]_allVars

-----------------------------------------------------------------------------
(* Properties, each of the module that defines and explains it; NoStrayContainer *)
(* and OnlyReadyRuns are ClawLifecycle's own.                                   *)

\* Type correctness of the four.
AllTypeOK == TypeOK /\ Chat!TypeOK /\ Merge!TypeOK /\ Gate!TypeOK

\* A client told that an answer is done was told of an error before, or it was stored,
\* unless the claw was deleted meanwhile.
DoneIsStored == Chat!DoneIsStored

\* A client that has a piece of an answer gets every later one, once and in order.
NoGaps == Chat!NoGaps

\* A text is in the merged history as often as in either source, and what both
\* hold is in it once.
MergeIsExact == Merge!NothingLost /\ Merge!NoCopies

\* An open stream of the plugin waits on nothing but the connection its prompt was
\* sent over, and one that is told "done" got the whole text.
StreamsKept == Gate!StreamsKept
=============================================================================
