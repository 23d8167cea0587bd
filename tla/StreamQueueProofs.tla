-------------------------- MODULE StreamQueueProofs --------------------------
(***************************************************************************)
(* pop() keeps its promise for any number of callers, messages and tries   *)
(* as long as no caller holds the lock for longer than it lasts.           *)
(*                                                                         *)
(* The invariant says that a caller inside the lock is the one the lock    *)
(* names, so there is one at most, and that the message it is about to     *)
(* delete is the first of the stream.                                      *)
(***************************************************************************)
EXTENDS StreamQueue, TLAPS

\* A caller between the acquisition and the release is the holder.
HolderInside == \A p \in Poppers : pc[p] \in Locked => lock = p
\* What it read is still the first message.
FirstInHand == \A p \in Poppers : pc[p] = "del" => IsFirst(id[p], stream)

\* A caller that has not looked yet has nothing in hand.
NothingRead == \A p \in Poppers : pc[p] \in {"lock", "range"} => id[p] = 0

Inside == HolderInside /\ FirstInHand /\ NothingRead
IInv == TypeOK /\ Inside

USE DEF Ends, Locked, IsFirst, Go

\* Type correctness, whatever the lock does.
LEMMA TypeStep == TypeOK /\ [Next]_vars => TypeOK'
<1> SUFFICES ASSUME TypeOK, [Next]_vars PROVE TypeOK'
  OBVIOUS
<1> USE StreamQueueAssumption DEF TypeOK
<1>1. CASE Put
  BY <1>1 DEF Put
<1>2. CASE Expire
  BY <1>2 DEF Expire
<1>3. ASSUME NEW p \in Poppers, Call(p) PROVE TypeOK'
  BY <1>3 DEF Call
<1>4. ASSUME NEW p \in Poppers, Acquire(p) PROVE TypeOK'
  BY <1>4 DEF Acquire
<1>5. ASSUME NEW p \in Poppers, Retry(p) PROVE TypeOK'
  BY <1>5 DEF Retry
<1>6. ASSUME NEW p \in Poppers, GiveUp(p) PROVE TypeOK'
  BY <1>6 DEF GiveUp
<1>7. ASSUME NEW p \in Poppers, Look(p) PROVE TypeOK'
  BY <1>7 DEF Look
<1>8. ASSUME NEW p \in Poppers, LookAtNone(p) PROVE TypeOK'
  BY <1>8 DEF LookAtNone
<1>9. ASSUME NEW p \in Poppers, Delete(p) PROVE TypeOK'
  BY <1>9 DEF Delete
<1>10. ASSUME NEW p \in Poppers, Release(p) PROVE TypeOK'
  BY <1>10 DEF Release, Unlocked
<1>11. ASSUME NEW p \in Poppers, CancelLock(p) PROVE TypeOK'
  BY <1>11 DEF CancelLock
<1>12. ASSUME NEW p \in Poppers, CancelInside(p) PROVE TypeOK'
  BY <1>12 DEF CancelInside
<1>13. ASSUME NEW p \in Poppers, CancelRelease(p) PROVE TypeOK'
  BY <1>13 DEF CancelRelease, Unlocked
<1>14. ASSUME NEW p \in Poppers, Unlock(p) PROVE TypeOK'
  BY <1>14 DEF Unlock, Unlocked
<1>15. CASE UNCHANGED vars
  BY <1>15 DEF vars
<1>16. QED
  BY <1>1, <1>2, <1>3, <1>4, <1>5, <1>6, <1>7, <1>8, <1>9, <1>10, <1>11, <1>12, <1>13,
     <1>14,
     <1>15 DEF Next, Step

\* The types hold initially.
LEMMA TypeInit == Init => TypeOK
  BY StreamQueueAssumption DEF Init, TypeOK

\* The stream, the lock and every caller keep their types.
THEOREM TypeCorrect == Spec => []TypeOK
  BY TypeInit, TypeStep, PTL DEF Spec

\* One caller inside, with the first message in hand.
LEMMA InvStep == ~Late /\ IInv /\ [Next]_vars => IInv'
<1> SUFFICES ASSUME ~Late, IInv, [Next]_vars PROVE Inside'
  BY TypeStep DEF IInv
<1> USE StreamQueueAssumption DEF IInv, TypeOK, Inside, HolderInside, FirstInHand,
  NothingRead
<1>1. CASE Put
  BY <1>1 DEF Put
<1>2. CASE Expire
  BY <1>2 DEF Expire
<1>3. ASSUME NEW p \in Poppers, Call(p) PROVE Inside'
  BY <1>3 DEF Call
<1>4. ASSUME NEW p \in Poppers, Acquire(p) PROVE Inside'
  BY <1>4 DEF Acquire
<1>5. ASSUME NEW p \in Poppers, Retry(p) PROVE Inside'
  BY <1>5 DEF Retry
<1>6. ASSUME NEW p \in Poppers, GiveUp(p) PROVE Inside'
  BY <1>6 DEF GiveUp
<1>7. ASSUME NEW p \in Poppers, Look(p) PROVE Inside'
  BY <1>7 DEF Look
<1>8. ASSUME NEW p \in Poppers, LookAtNone(p) PROVE Inside'
  BY <1>8 DEF LookAtNone
<1>9. ASSUME NEW p \in Poppers, Delete(p) PROVE Inside'
  BY <1>9 DEF Delete
<1>10. ASSUME NEW p \in Poppers, Release(p) PROVE Inside'
  BY <1>10 DEF Release, Unlocked
<1>11. ASSUME NEW p \in Poppers, CancelLock(p) PROVE Inside'
  BY <1>11 DEF CancelLock
<1>12. ASSUME NEW p \in Poppers, CancelInside(p) PROVE Inside'
  BY <1>12 DEF CancelInside
<1>13. ASSUME NEW p \in Poppers, CancelRelease(p) PROVE Inside'
  BY <1>13 DEF CancelRelease, Unlocked
<1>14. ASSUME NEW p \in Poppers, Unlock(p) PROVE Inside'
  BY <1>14 DEF Unlock, Unlocked
<1>15. CASE UNCHANGED vars
  BY <1>15 DEF vars
<1>16. QED
  BY <1>1, <1>2, <1>3, <1>4, <1>5, <1>6, <1>7, <1>8, <1>9, <1>10, <1>11, <1>12, <1>13,
     <1>14,
     <1>15 DEF Next, Step

\* The invariant holds initially.
LEMMA InvInit == Init => IInv
  BY TypeInit, StreamQueueAssumption
     DEF Init, IInv, Inside, HolderInside, FirstInHand, NothingRead

\* Without a late holder it holds throughout.
LEMMA Invariance == ~Late /\ Spec => []IInv
<1>1. ~Late => (IInv /\ [Next]_vars => IInv')
  BY InvStep
<1>2. CASE Late
  BY <1>2
<1>3. CASE ~Late
  <2>1. IInv /\ [Next]_vars => IInv'
    BY <1>1, <1>3
  <2> QED BY <2>1, InvInit, PTL DEF Spec
<1> QED BY <1>2, <1>3

\* What the steps of the stream are to the queue: a deletion is the pop, whether
\* it is answered or not, and an interrupted release forgets what was popped.
LEMMA QueueInit == Init => Queue!Init
  BY DEF Init, Queue!Init, Held

\* Every step is a step of the queue, or none.
LEMMA QueueStep ==
  ASSUME IInv, [Next]_vars PROVE [Queue!Next]_(Queue!vars)
<1> USE StreamQueueAssumption DEF IInv, TypeOK, Inside, HolderInside, FirstInHand,
  NothingRead,
        Queue!vars, Held
<1>1. CASE Put
  <2>1. Queue!Put
    BY <1>1 DEF Put, Queue!Put
  <2> QED BY <2>1 DEF Queue!Next
<1>2. CASE Expire
  BY <1>2 DEF Expire
<1>3. ASSUME NEW p \in Poppers, Call(p) PROVE UNCHANGED Queue!vars
  BY <1>3 DEF Call
<1>4. ASSUME NEW p \in Poppers, Acquire(p) PROVE UNCHANGED Queue!vars
  BY <1>4 DEF Acquire
<1>5. ASSUME NEW p \in Poppers, Retry(p) PROVE UNCHANGED Queue!vars
  BY <1>5 DEF Retry
<1>6. ASSUME NEW p \in Poppers, GiveUp(p) PROVE UNCHANGED Queue!vars
  BY <1>6 DEF GiveUp
<1>7. ASSUME NEW p \in Poppers, Look(p) PROVE UNCHANGED Queue!vars
  BY <1>7 DEF Look
<1>8. ASSUME NEW p \in Poppers, LookAtNone(p) PROVE UNCHANGED Queue!vars
  <2>1. id[p] = 0 /\ id'[p] = 0 /\ UNCHANGED <<sent, stream, returned, id>>
    BY <1>8 DEF LookAtNone
  <2>2. {id[p]} \ {0} = {}
    BY <2>1
  <2>3. \A q \in Poppers : Held'[q] = Held[q]
    BY <1>8, <2>1, <2>2 DEF LookAtNone
  <2> QED BY <2>1, <2>3
<1>9. ASSUME NEW p \in Poppers, Delete(p) PROVE Queue!Pop(p)
  <2>1. /\ id[p] \in stream /\ Queue!IsFirst(id[p], stream)
        /\ stream' = stream \ {id[p]} /\ UNCHANGED sent
    BY <1>9 DEF Delete, Queue!IsFirst
  <2>2. id[p] # 0
    BY <2>1
  <2>3. Held' = [Held EXCEPT ![p] = @ \cup {id[p]}]
    BY <1>9, <2>2 DEF Delete
  <2> QED BY <2>1, <2>3 DEF Queue!Pop
<1>10. ASSUME NEW p \in Poppers, Release(p) PROVE UNCHANGED Queue!vars
  BY <1>10 DEF Release
<1>11. ASSUME NEW p \in Poppers, CancelLock(p) PROVE UNCHANGED Queue!vars
  BY <1>11 DEF CancelLock
<1>12. ASSUME NEW p \in Poppers, CancelInside(p) PROVE Queue!Discard \/ UNCHANGED Queue!vars
  <2>1. UNCHANGED <<sent, Held>>
    BY <1>12 DEF CancelInside
  <2>2. CASE UNCHANGED stream
    BY <2>1, <2>2
  <2>3. CASE pc[p] = "del" /\ stream' = stream \ {id[p]}
    <3>1. id[p] \in stream /\ Queue!IsFirst(id[p], stream)
      BY <2>3 DEF Queue!IsFirst
    <3> QED BY <2>1, <2>3, <3>1 DEF Queue!Discard
  <2> QED BY <1>12, <2>2, <2>3 DEF CancelInside
<1>13. ASSUME NEW p \in Poppers, CancelRelease(p)
         PROVE Queue!Forget(p) \/ UNCHANGED Queue!vars
  <2>1. pc[p] = "release" /\ UNCHANGED <<sent, stream, id, returned>>
    BY <1>13 DEF CancelRelease
  <2>2. CASE id[p] = 0 \/ id[p] \in returned[p]
    <3>1. Held' = Held
      BY SMTT(40), <1>13, <2>2 DEF CancelRelease
    <3> QED BY <2>1, <3>1
  <2>3. CASE id[p] # 0 /\ id[p] \notin returned[p]
    <3>1. Held[p] = returned[p] \cup {id[p]} /\ Held'[p] = returned[p]
      BY <1>13, <2>3 DEF CancelRelease
    <3>2. id[p] \in Held[p] /\ Held'[p] = Held[p] \ {id[p]}
      BY <2>3, <3>1
    <3>3. \A q \in Poppers \ {p} : Held'[q] = Held[q]
      BY <1>13 DEF CancelRelease
    <3>4. Held' = [Held EXCEPT ![p] = @ \ {id[p]}]
      BY <3>2, <3>3
    <3> QED BY <2>1, <3>2, <3>4 DEF Queue!Forget
  <2> QED BY <2>2, <2>3
<1>14. ASSUME NEW p \in Poppers, Unlock(p) PROVE UNCHANGED Queue!vars
  BY <1>14 DEF Unlock
<1>15. CASE UNCHANGED vars
  BY <1>15 DEF vars
<1> QED
  BY <1>1, <1>2, <1>3, <1>4, <1>5, <1>6, <1>7, <1>8, <1>9, <1>10, <1>11, <1>12, <1>13,
     <1>14,
     <1>15 DEF Next, Step, Queue!Next

\* The stream with its lock implements the queue pop() promises.
THEOREM StreamImplementsQueue == ~Late /\ Spec => QueueSpec
<1>1. IInv /\ [Next]_vars => [Queue!Next]_(Queue!vars)
  BY QueueStep
<1> QED BY <1>1, QueueInit, Invariance, PTL DEF Spec, QueueSpec, Queue!Spec

\* The queue gives a message to one caller: its own invariant is inductive.
LEMMA QueueOneOwner ==
  Queue!TypeOK /\ Queue!OneOwner /\ [Queue!Next]_(Queue!vars) => (Queue!TypeOK
    /\ Queue!OneOwner)'
<1> SUFFICES ASSUME Queue!TypeOK, Queue!OneOwner, [Queue!Next]_(Queue!vars)
             PROVE  (Queue!TypeOK /\ Queue!OneOwner)'
  OBVIOUS
<1> USE DEF Queue!TypeOK, Queue!OneOwner, Queue!IsFirst
<1> HIDE DEF Held
<1>1. CASE Queue!Put
  BY <1>1, StreamQueueAssumption DEF Queue!Put
<1>2. CASE Queue!Discard
  BY <1>2 DEF Queue!Discard
<1>3. ASSUME NEW p \in Poppers, Queue!Pop(p) PROVE (Queue!TypeOK /\ Queue!OneOwner)'
  BY <1>3 DEF Queue!Pop
<1>4. ASSUME NEW p \in Poppers, Queue!Forget(p) PROVE (Queue!TypeOK /\ Queue!OneOwner)'
  BY <1>4 DEF Queue!Forget
<1>5. CASE UNCHANGED Queue!vars
  BY <1>5 DEF Queue!vars
<1> QED BY <1>1, <1>2, <1>3, <1>4, <1>5 DEF Queue!Next

\* No two callers are returned the same message while no lock runs out under its
\* holder.
THEOREM OneReturn == ~Late /\ Spec => []ReturnedOnce
<1>1. Queue!Init => Queue!TypeOK /\ Queue!OneOwner
  BY DEF Queue!Init, Queue!TypeOK, Queue!OneOwner
<1>2. Queue!Spec => [](Queue!TypeOK /\ Queue!OneOwner)
  BY <1>1, QueueOneOwner, PTL DEF Queue!Spec
<1>3. Queue!OneOwner => ReturnedOnce
  BY DEF Queue!OneOwner, ReturnedOnce, Held
<1> QED BY <1>2, <1>3, StreamImplementsQueue, PTL DEF QueueSpec
=============================================================================
