------------------------------ MODULE PopQueue ------------------------------
(***************************************************************************)
(* What pop() of a message queue promises (domain/external/               *)
(* message_queue.py): messages leave in the order they came and each goes  *)
(* to one caller at most.  A caller that is interrupted may lose the       *)
(* message it was about to get.  Messages are numbered as they are put.    *)
(***************************************************************************)
EXTENDS Naturals

CONSTANTS Poppers, MaxPuts

VARIABLES
    sent,   \* messages put so far
    queue,  \* those still in the queue
    held    \* caller -> the messages it got

vars == <<sent, queue, held>>

IsFirst(m, S) == m \in S /\ \A n \in S : m <= n

Init == sent = 0 /\ queue = {} /\ held = [p \in Poppers |-> {}]

Put == /\ sent < MaxPuts /\ sent' = sent + 1 /\ queue' = queue \cup {sent'}
       /\ UNCHANGED held

Pop(p) == \E m \in queue : /\ IsFirst(m, queue) /\ queue' = queue \ {m}
                           /\ held' = [held EXCEPT ![p] = @ \cup {m}]
                           /\ UNCHANGED sent

\* A caller that is interrupted: before it holds the message, or after.
Discard == \E m \in queue : /\ IsFirst(m, queue) /\ queue' = queue \ {m}
                            /\ UNCHANGED <<sent, held>>
Forget(p) == \E m \in held[p] : /\ held' = [held EXCEPT ![p] = @ \ {m}]
                                /\ UNCHANGED <<sent, queue>>

Next == Put \/ Discard \/ \E p \in Poppers : Pop(p) \/ Forget(p)

Spec == Init /\ [][Next]_vars

\* Type correctness.
TypeOK == sent \in Nat /\ held \in [Poppers -> SUBSET (1..sent)]

\* No message is with two callers, or with one and in the queue.
OneOwner ==
    /\ queue \subseteq 1..sent
    /\ \A p \in Poppers : held[p] \subseteq 1..sent \ queue
    /\ \A p, q \in Poppers : p # q => held[p] \cap held[q] = {}
=============================================================================
