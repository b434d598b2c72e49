-------------------------- MODULE RequestQueueProps --------------------------
(***************************************************************************)
(* What must hold of the request queue of queue.c.                         *)
(***************************************************************************)
EXTENDS RequestQueue, Sequences

\* Every variable has its type (queue.h:14-24).
TypeOK ==
    /\ front \in Nodes \cup {Null} /\ rear \in Nodes \cup {Null}
    /\ next \in [Nodes -> Nodes \cup {Null}]
    /\ item \in [Nodes -> Items \cup {NoItem}]
    /\ live \subseteq Nodes
    /\ allocated \in 0 .. MaxNodes
    /\ items \in Nat
    /\ lock \in Threads \cup {NoThread}
    /\ invalid \in BOOLEAN
    /\ pc \in [Threads -> PCs]
    /\ arg \in [Threads -> Items \cup {NoItem}]
    /\ got \in [Threads -> Items \cup {NoItem}]
    /\ crashed \in BOOLEAN

\* The mutex of queue.c:29,53,81: a thread is between lock and unlock exactly
\* when it holds the mutex, so critical sections never overlap.
MutualExclusion ==
    \A t \in Threads : pc[t] \in CriticalPCs <=> lock = t

\* The list is well formed after every sequence of calls: the live nodes are
\* exactly those from front to rear, each linked to the one allocated after it,
\* and the last one ends the list.  In particular enqueue never follows the
\* `rear` pointer that dequeue and invalidate_queue leave dangling
\* (queue.c:35,84) into freed memory.
ListShape ==
    IF front = Null
    THEN live = {}
    ELSE /\ front \in live
         /\ live = front .. rear
         /\ rear = allocated
         /\ next[rear] = Null
         /\ \A n \in front .. rear - 1 : next[n] = n + 1

\* The number of nodes in the list.
Length == IF front = Null THEN 0 ELSE rear - front + 1

\* No invalidation has begun to drain the list.
Intact == ~invalid /\ \A t \in Threads : pc[t] # "invDrain"

Claiming == {t \in Threads : pc[t] \in {"deqLock", "deqTake"}}
Posting  == {t \in Threads : pc[t] \in {"enqUnlock", "enqPost"}}

\* The semaphore and the list agree (queue.c:66 and 80 lie outside the mutex):
\* until an invalidation begins, each node is posted in `items`, claimed by a
\* consumer that passed P, or about to be posted by the producer that linked it.
TokenConservation ==
    Intact => Length = items + Cardinality(Claiming) + Cardinality(Posting)

\* dequeue dereferences front without testing it (queue.c:82-84): it can find a
\* NULL front only after an invalidation has drained the list under it.
NoFaultBeforeInvalidation == crashed => ~Intact

\* A consumer that passed P holds a token for a node that is really there.
ClaimIsBacked ==
    \A t \in Threads : Intact /\ pc[t] = "deqTake" => front # Null

-----------------------------------------------------------------------------
\* The queue as queue.h presents it.
Contents == [k \in 1 .. Length |-> item[front + k - 1]]
Asking   == {t \in Threads : pc[t] \in {"deqWait", "deqLock", "deqTake", "fault"}}

Fifo == INSTANCE FifoQueue WITH
    contents <- Contents, open <- ~invalid, sending <- arg, asking <- Asking

\* Through every interleaving, queue.c implements the FIFO queue of queue.h:
\* no item is lost, duplicated or overtaken, the destructor sees only what was
\* never dequeued, and calls started after an invalidation have no effect.
ImplementsFifo == Fifo!Spec

-----------------------------------------------------------------------------
\* No wakeup is lost between linking a node and V (queue.c:65-66): as long as
\* the list is not empty, waiting consumers keep being served (until an
\* invalidation begins).
NoLostWakeup ==
    (front # Null /\ \E t \in Threads : pc[t] = "deqWait")
        ~> (front = Null \/ ~Intact \/ \A t \in Threads : pc[t] # "deqWait")
==============================================================================
