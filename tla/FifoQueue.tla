------------------------------ MODULE FifoQueue ------------------------------
(***************************************************************************)
(* What queue.h promises of a queue, with every operation atomic: items    *)
(* leave at the head in the order they entered at the tail, each enqueue   *)
(* call adds its item once, each item leaves once (to one dequeue call or  *)
(* to the destructor), and a closed queue admits no new call.              *)
(***************************************************************************)
EXTENDS Naturals, Sequences

CONSTANTS Threads, Items, NoItem

VARIABLES
    contents,   \* the items in the queue, oldest first
    open,       \* FALSE once the queue has been invalidated
    sending,    \* the item each thread has offered and not yet added
    asking,     \* the threads with a dequeue call that has no item yet
    got         \* the item each thread's last dequeue call obtained

vars == <<contents, open, sending, asking, got>>

Init ==
    /\ contents = <<>>
    /\ open = TRUE
    /\ sending = [t \in Threads |-> NoItem]
    /\ asking = {}
    /\ got = [t \in Threads |-> NoItem]

Offer(t, i) ==
    /\ open
    /\ sending[t] = NoItem
    /\ sending' = [sending EXCEPT ![t] = i]
    /\ UNCHANGED <<contents, open, asking, got>>

Add(t) ==
    /\ sending[t] # NoItem
    /\ contents' = Append(contents, sending[t])
    /\ sending' = [sending EXCEPT ![t] = NoItem]
    /\ UNCHANGED <<open, asking, got>>

Ask(t) ==
    /\ open
    /\ t \notin asking
    /\ asking' = asking \cup {t}
    /\ got' = [got EXCEPT ![t] = NoItem]
    /\ UNCHANGED <<contents, open, sending>>

\* A dequeue call on a closed queue obtains nothing.
Refuse(t) ==
    /\ ~open
    /\ t \notin asking
    /\ got' = [got EXCEPT ![t] = NoItem]
    /\ UNCHANGED <<contents, open, sending, asking>>

Remove(t) ==
    /\ t \in asking
    /\ contents # <<>>
    /\ got' = [got EXCEPT ![t] = Head(contents)]
    /\ contents' = Tail(contents)
    /\ asking' = asking \ {t}
    /\ UNCHANGED <<open, sending>>

Destroy ==
    /\ contents # <<>>
    /\ contents' = Tail(contents)
    /\ UNCHANGED <<open, sending, asking, got>>

\* Only an empty queue is closed.
Close ==
    /\ contents = <<>>
    /\ open' = FALSE
    /\ UNCHANGED <<contents, sending, asking, got>>

Next ==
    \/ \E t \in Threads : (\E i \in Items : Offer(t, i)) \/ Add(t)
    \/ \E t \in Threads : Ask(t) \/ Refuse(t) \/ Remove(t)
    \/ Destroy
    \/ Close

Spec == Init /\ [][Next]_vars
==============================================================================
