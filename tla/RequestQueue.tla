---------------------------- MODULE RequestQueue ----------------------------
(***************************************************************************)
(* The request queue of cream (src/hw5/src/queue.c): a singly linked list  *)
(* guarded by the mutex `lock`, with the semaphore `items` counting the    *)
(* nodes posted to the consumers and the flag `invalid` that the calls     *)
(* read BEFORE taking the mutex.                                           *)
(*                                                                         *)
(* Every thread has a program counter; a step is what a thread does        *)
(* between two points where another thread can intervene: the unlocked     *)
(* check that starts a call, a mutex or semaphore operation, a critical    *)
(* section (invalidate_queue's loop: one iteration of it).                 *)
(*                                                                         *)
(* Node ids are handed out in allocation order and never reused, so a read *)
(* of a freed node is visible.  MaxNodes bounds the allocations and is the *)
(* only bound.  calloc and the pthread calls are taken to succeed.         *)
(***************************************************************************)
EXTENDS Naturals, FiniteSets

CONSTANTS
    Producers,      \* threads that call enqueue
    Consumers,      \* threads that call dequeue
    Invalidators,   \* threads that call invalidate_queue
    Items,          \* what the callers enqueue (pointers, never NULL)
    NoItem,         \* the NULL item
    NoThread,       \* "the mutex is free"
    MaxNodes        \* bound on the nodes ever allocated

Threads == Producers \cup Consumers \cup Invalidators
Null    == 0
Nodes   == 1 .. MaxNodes

ASSUME ThreadsAssumption  == IsFiniteSet(Threads) /\ NoThread \notin Threads
ASSUME ItemsAssumption    == NoItem \notin Items
ASSUME MaxNodesAssumption == MaxNodes \in Nat

\* The places of a thread; in CriticalPCs it is between lock and unlock.
CriticalPCs == {"enqLink", "enqUnlock", "deqTake", "deqUnlock", "fault",
                "invDrain", "invUnlock"}
PCs == CriticalPCs \cup {"idle", "enqLock", "enqPost", "deqWait", "deqLock"}

VARIABLES
    front, rear,    \* queue_t.front and queue_t.rear
    next, item,     \* queue_node_t.next and queue_node_t.item of every node
    live,           \* the nodes allocated and not yet freed
    allocated,      \* how many nodes were ever allocated
    items,          \* value of the semaphore queue_t.items
    lock,           \* holder of queue_t.lock
    invalid,        \* queue_t.invalid
    pc,             \* where each thread is
    arg,            \* the item of the thread's enqueue call in progress
    got,            \* the item returned by the thread's last dequeue call
    crashed         \* a NULL or freed node was dereferenced: the process died

list   == <<front, rear, next, item, live, allocated>>
vars   == <<front, rear, next, item, live, allocated, items, lock, invalid,
            pc, arg, got, crashed>>

Init ==
    /\ front = Null
    /\ rear = Null
    /\ next = [n \in Nodes |-> Null]
    /\ item = [n \in Nodes |-> NoItem]
    /\ live = {}
    /\ allocated = 0
    /\ items = 0
    /\ lock = NoThread
    /\ invalid = FALSE
    /\ pc = [t \in Threads |-> "idle"]
    /\ arg = [t \in Threads |-> NoItem]
    /\ got = [t \in Threads |-> NoItem]
    /\ crashed = FALSE

Goto(t, from, to) ==
    /\ ~crashed
    /\ pc[t] = from
    /\ pc' = [pc EXCEPT ![t] = to]

Acquire(t) == lock = NoThread /\ lock' = t
Release    == lock' = NoThread

LockAt(t, from, to) ==
    /\ Goto(t, from, to)
    /\ Acquire(t)
    /\ UNCHANGED <<list, items, invalid, arg, got, crashed>>

UnlockAt(t, from, to) ==
    /\ Goto(t, from, to)
    /\ Release
    /\ UNCHANGED <<list, items, invalid, arg, got, crashed>>

-----------------------------------------------------------------------------
(* bool enqueue(queue_t *self, void *item) *)

\* The enqueue calls that will still allocate a node.
Linking == {t \in Threads : pc[t] \in {"enqLock", "enqLink"}}

\* The call and its unlocked test of `invalid`; a refused call changes nothing.
\* The first conjunct is the bound: a node is left for every admitted call.
Enqueue(t, i) ==
    /\ allocated + Cardinality(Linking) < MaxNodes
    /\ ~invalid
    /\ Goto(t, "idle", "enqLock")
    /\ arg' = [arg EXCEPT ![t] = i]
    /\ UNCHANGED <<list, items, lock, invalid, got, crashed>>

EnqueueLock(t) == LockAt(t, "enqLock", "enqLink")

\* Faulty variants: rear is moved only when the list was empty; a node is put
\* before the others.
LinkKeepingRear(node) ==
    IF front = Null
    THEN front' = node /\ rear' = node /\ next' = [next EXCEPT ![node] = Null]
    ELSE UNCHANGED <<front, rear>> /\ next' = [next EXCEPT ![node] = Null, ![rear] = node]

LinkAtFront(node) ==
    /\ front' = node
    /\ rear' = IF front = Null THEN node ELSE rear
    /\ next' = [next EXCEPT ![node] = front]

\* Link a node at the rear of the list.
LinkAtRear(node) ==
    /\ rear' = node
    /\ IF front = Null
       THEN front' = node /\ next' = [next EXCEPT ![node] = Null]
       ELSE front' = front /\ next' = [next EXCEPT ![node] = Null, ![rear] = node]

\* calloc a node and link it at the rear.
LinkNode(t) ==
    LET node == allocated + 1 IN
    /\ node \in Nodes
    /\ Goto(t, "enqLink", "enqUnlock")
    /\ allocated' = node
    /\ live' = live \cup {node}
    /\ item' = [item EXCEPT ![node] = arg[t]]
    /\ LinkAtRear(node)
    /\ arg' = [arg EXCEPT ![t] = NoItem]
    /\ UNCHANGED <<items, lock, invalid, got, crashed>>

EnqueueUnlock(t) == UnlockAt(t, "enqUnlock", "enqPost")

\* Faulty variants: V forgotten; V on a semaphore that holds at most one token.
PostNothing(t) ==
    /\ Goto(t, "enqPost", "idle")
    /\ UNCHANGED <<list, items, lock, invalid, arg, got, crashed>>

PostBinary(t) ==
    /\ Goto(t, "enqPost", "idle")
    /\ items' = 1
    /\ UNCHANGED <<list, lock, invalid, arg, got, crashed>>

\* V(&self->items) and return true.
Post(t) ==
    /\ Goto(t, "enqPost", "idle")
    /\ items' = items + 1
    /\ UNCHANGED <<list, lock, invalid, arg, got, crashed>>

-----------------------------------------------------------------------------
(* void *dequeue(queue_t *self) *)

\* The call and its unlocked test of `invalid`; a refused call returns NULL.
Dequeue(t) ==
    /\ Goto(t, "idle", IF invalid THEN "idle" ELSE "deqWait")
    /\ got' = [got EXCEPT ![t] = NoItem]
    /\ UNCHANGED <<list, items, lock, invalid, arg, crashed>>

\* Faulty variants: P decrements without waiting; P waits without decrementing.
WaitForNothing(t) ==
    /\ Goto(t, "deqWait", "deqLock")
    /\ items' = items - 1
    /\ UNCHANGED <<list, lock, invalid, arg, got, crashed>>

WaitKeepingToken(t) ==
    /\ items > 0
    /\ Goto(t, "deqWait", "deqLock")
    /\ UNCHANGED <<list, items, lock, invalid, arg, got, crashed>>

\* P(&self->items).
Wait(t) ==
    /\ items > 0
    /\ Goto(t, "deqWait", "deqLock")
    /\ items' = items - 1
    /\ UNCHANGED <<list, lock, invalid, arg, got, crashed>>

DequeueLock(t) == LockAt(t, "deqLock", "deqTake")

\* node = front; item = node->item; front = front->next; free(node).
TakeNode(t) ==
    /\ front \in live
    /\ Goto(t, "deqTake", "deqUnlock")
    /\ got' = [got EXCEPT ![t] = item[front]]
    /\ front' = next[front]
    /\ live' = live \ {front}
    /\ UNCHANGED <<rear, next, item, allocated, items, lock, invalid, arg, crashed>>

\* The same step when front is NULL: node->item kills the process.
TakeFault(t) ==
    /\ front \notin live
    /\ Goto(t, "deqTake", "fault")
    /\ crashed' = TRUE
    /\ UNCHANGED <<list, items, lock, invalid, arg, got>>

DequeueUnlock(t) == UnlockAt(t, "deqUnlock", "idle")

-----------------------------------------------------------------------------
(* bool invalidate_queue(queue_t *self, item_destructor_f destroy_function) *)

\* The call blocks on the mutex; nothing it does before has an effect.
Invalidate(t) == LockAt(t, "idle", "invDrain")

\* One iteration of the loop: unlink the front node, destroy its item, free it.
DrainNode(t) ==
    /\ front \in live
    /\ Goto(t, "invDrain", "invDrain")
    /\ front' = next[front]
    /\ live' = live \ {front}
    /\ UNCHANGED <<rear, next, item, allocated, items, lock, invalid, arg, got, crashed>>

\* The loop ends at a NULL front.  Neither `items` nor `rear` is reset.
MarkInvalid(t) ==
    /\ front = Null
    /\ Goto(t, "invDrain", "invUnlock")
    /\ invalid' = TRUE
    /\ UNCHANGED <<list, items, lock, arg, got, crashed>>

InvalidateUnlock(t) == UnlockAt(t, "invUnlock", "idle")

-----------------------------------------------------------------------------
\* The steps a thread takes once it has entered a call.
EnqueueStep(t) == EnqueueLock(t) \/ LinkNode(t) \/ EnqueueUnlock(t) \/ Post(t)

DequeueStep(t) ==
    Wait(t) \/ DequeueLock(t) \/ TakeNode(t) \/ TakeFault(t) \/ DequeueUnlock(t)

InvalidateStep(t) == DrainNode(t) \/ MarkInvalid(t) \/ InvalidateUnlock(t)

InCall(t) == EnqueueStep(t) \/ DequeueStep(t) \/ InvalidateStep(t)

Next ==
    \/ \E t \in Producers    : EnqueueStep(t) \/ \E i \in Items : Enqueue(t, i)
    \/ \E t \in Consumers    : Dequeue(t) \/ DequeueStep(t)
    \/ \E t \in Invalidators : Invalidate(t) \/ InvalidateStep(t)

Spec == Init /\ [][Next]_vars

\* A thread inside a call keeps being scheduled; nobody is obliged to call.
Fairness == \A t \in Threads : WF_vars(InCall(t))

FairSpec == Spec /\ Fairness
=============================================================================
