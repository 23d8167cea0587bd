----------------------------- MODULE StreamQueue -----------------------------
(***************************************************************************)
(* pop() of a Redis stream (redis_stream_queue.py): a lock with an expiry, *)
(* XRANGE, XDEL, and a release that compares the lock's value first.  A    *)
(* step is one Redis command, with what the coroutine does up to its next. *)
(***************************************************************************)
EXTENDS Naturals

CONSTANTS Poppers,
          Late,      \* a caller may hold the lock for longer than it lasts
          Cancels,   \* callers may be cancelled, and commands may fail
          MaxPuts,   \* messages
          MaxTries,  \* attempts at the lock: 50 of 0.1 s
          Free

ASSUME StreamQueueAssumption ==
    /\ Late \in BOOLEAN /\ Cancels \in BOOLEAN /\ Free \notin Poppers
    /\ MaxPuts \in Nat /\ MaxTries \in Nat \ {0}

VARIABLES
    sent,      \* messages put so far; a message's number stands for its id
    stream,    \* the messages in the stream
    lock,      \* the key lock:<stream>:pop: the caller whose value it holds, or Free
    pc,        \* caller -> the command it is at
    tries,     \* caller -> its attempts at the lock
    id,        \* caller -> the message it read, 0 if none
    empty,     \* history: the stream was empty when the caller looked
    returned   \* caller -> the messages its calls returned

vars == <<sent, stream, lock, pc, tries, id, empty, returned>>

Ends == {"idle", "got", "none", "cancelled"}
Locked == {"range", "del", "release", "unlock"}

Init == /\ sent = 0 /\ stream = {} /\ lock = Free
        /\ pc = [p \in Poppers |-> "idle"]
        /\ tries = [p \in Poppers |-> 0] /\ id = [p \in Poppers |-> 0]
        /\ empty = [p \in Poppers |-> FALSE]
        /\ returned = [p \in Poppers |-> {}]

IsFirst(m, S) == m \in S /\ \A n \in S : m <= n
Go(p, to) == pc' = [pc EXCEPT ![p] = to]

Put == /\ sent < MaxPuts /\ sent' = sent + 1 /\ stream' = stream \cup {sent'}
       /\ UNCHANGED <<lock, pc, tries, id, empty, returned>>

Call(p) == /\ pc[p] \in Ends /\ Go(p, "lock")
           /\ tries' = [tries EXCEPT ![p] = 0] /\ id' = [id EXCEPT ![p] = 0]
           /\ empty' = [empty EXCEPT ![p] = FALSE]
           /\ UNCHANGED <<sent, stream, lock, returned>>

\* Mutant of Acquire: the lock is taken without NX.
AcquireAnyway(p) == /\ pc[p] = "lock" /\ lock' = p /\ Go(p, "range")
                    /\ UNCHANGED <<sent, stream, tries, id, empty, returned>>

\* SET NX EX, again after 0.1 s while another holds the lock.
Acquire(p) == /\ pc[p] = "lock" /\ lock = Free /\ lock' = p /\ Go(p, "range")
              /\ UNCHANGED <<sent, stream, tries, id, empty, returned>>

\* Mutant of Retry: the attempts are not limited.
RetryForever(p) == /\ pc[p] = "lock" /\ lock # Free /\ tries[p] <= MaxTries
                   /\ tries' = [tries EXCEPT ![p] = @ + 1]
                   /\ UNCHANGED <<sent, stream, lock, pc, id, empty, returned>>

Retry(p) == /\ pc[p] = "lock" /\ lock # Free /\ tries[p] + 1 < MaxTries
            /\ tries' = [tries EXCEPT ![p] = @ + 1]
            /\ UNCHANGED <<sent, stream, lock, pc, id, empty, returned>>

GiveUp(p) == /\ pc[p] = "lock" /\ lock # Free /\ tries[p] + 1 >= MaxTries /\ Go(p, "none")
             /\ UNCHANGED <<sent, stream, lock, tries, id, empty, returned>>

\* XRANGE of one message.
Look(p) == /\ pc[p] = "range"
           /\ \E m \in stream : IsFirst(m, stream) /\ id' = [id EXCEPT ![p] = m]
           /\ Go(p, "del")
           /\ UNCHANGED <<sent, stream, lock, tries, empty, returned>>

LookAtNone(p) == /\ pc[p] = "range" /\ stream = {} /\ Go(p, "release")
                 /\ empty' = [empty EXCEPT ![p] = TRUE]
                 /\ UNCHANGED <<sent, stream, lock, tries, id, returned>>

Delete(p) == /\ pc[p] = "del" /\ stream' = stream \ {id[p]} /\ Go(p, "release")
             /\ UNCHANGED <<sent, lock, tries, id, empty, returned>>

\* The script deletes the key when it still holds the caller's value.
Unlocked(p) == IF lock = p THEN Free ELSE lock

Release(p) == /\ pc[p] = "release" /\ lock' = Unlocked(p)
              /\ Go(p, IF id[p] = 0 THEN "none" ELSE "got")
              /\ returned' = [returned EXCEPT ![p] = @ \cup ({id[p]} \ {0})]
              /\ UNCHANGED <<sent, stream, tries, id, empty>>

\* A cancellation or a failure during a command; the command may have taken
\* effect.  From the try block it goes through the finally clause.
CancelLock(p) == /\ Cancels /\ pc[p] = "lock" /\ Go(p, "cancelled")
                 /\ lock' \in {lock, IF lock = Free THEN p ELSE lock}
                 /\ UNCHANGED <<sent, stream, tries, id, empty, returned>>

CancelInside(p) == /\ Cancels /\ pc[p] \in {"range", "del"} /\ Go(p, "unlock")
                   /\ stream' \in {stream, IF pc[p] = "del" THEN stream \ {id[p]} ELSE stream}
                   /\ UNCHANGED <<sent, lock, tries, id, empty, returned>>

CancelRelease(p) == /\ Cancels /\ pc[p] = "release" /\ Go(p, "cancelled")
                    /\ lock' \in {lock, Unlocked(p)}
                    /\ UNCHANGED <<sent, stream, tries, id, empty, returned>>

Unlock(p) == /\ pc[p] = "unlock" /\ Go(p, "cancelled") /\ lock' \in {lock, Unlocked(p)}
             /\ UNCHANGED <<sent, stream, tries, id, empty, returned>>

\* Mutant of Expire: the lock is taken without EX.
ExpireNever == FALSE /\ UNCHANGED vars

\* Ten seconds after the lock was taken.
Expire == /\ lock # Free /\ (Late \/ pc[lock] \notin Locked) /\ lock' = Free
          /\ UNCHANGED <<sent, stream, pc, tries, id, empty, returned>>

Step(p) == \/ Acquire(p) \/ Retry(p) \/ GiveUp(p) \/ Look(p) \/ LookAtNone(p)
           \/ Delete(p) \/ Release(p) \/ Unlock(p)

Next == \/ Put \/ Expire
        \/ \E p \in Poppers : \/ Call(p) \/ Step(p)
                              \/ CancelLock(p) \/ CancelInside(p) \/ CancelRelease(p)

Spec == Init /\ [][Next]_vars

\* Redis answers its commands, and a key expires when its time has come.
FairSpec == Spec /\ WF_vars(Expire) /\ \A p \in Poppers : WF_vars(Step(p))

(***************************************************************************)
(* Properties                                                              *)
(***************************************************************************)

\* Type correctness.
TypeOK ==
    /\ sent \in 0..MaxPuts /\ stream \subseteq 1..sent /\ lock \in Poppers \cup {Free}
    /\ pc \in [Poppers -> Ends \cup Locked \cup {"lock"}]
    /\ tries \in [Poppers -> 0..MaxTries - 1] /\ id \in [Poppers -> 0..sent]
    /\ empty \in [Poppers -> BOOLEAN] /\ returned \in [Poppers -> SUBSET (1..sent)]

\* The stream with its lock is the queue that pop() promises: a caller holds a
\* message once it has deleted it from the stream.
Held == [p \in Poppers |-> IF pc[p] = "release" THEN returned[p] \cup ({id[p]} \ {0})
                           ELSE returned[p]]
Queue == INSTANCE PopQueue WITH queue <- stream, held <- Held
QueueSpec == Queue!Spec

\* "using distributed lock": a message is returned by one call at most.
ReturnedOnce == \A p, q \in Poppers : p # q => returned[p] \cap returned[q] = {}

\* "returns (None, None) if stream is empty": nothing is returned only then.
NoneMeansEmpty == \A p \in Poppers : pc[p] = "none" => empty[p]

\* A caller that was cancelled does not keep the lock for ever.
LockIsFreed == lock # Free ~> lock = Free
=============================================================================
