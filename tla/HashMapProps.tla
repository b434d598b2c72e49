----------------------------- MODULE HashMapProps -----------------------------
(***************************************************************************)
(* What must hold of the hash map of hashmap.c.                            *)
(***************************************************************************)
EXTENDS HashMap

\* Every variable has its type (hashmap.h:28-44).
TypeOK ==
    /\ slots \in [Slots -> [key : Keys \cup {NoKey}, val : Vals \cup {NoVal},
                            tombstone : BOOLEAN]]
    /\ size \in 0 .. SizeModulus - 1
    /\ freed \in BOOLEAN /\ invalid \in BOOLEAN /\ undefined \in BOOLEAN
    /\ num_readers \in Nat
    /\ fields_lock \in Threads \cup {NoThread}
    /\ write_lock \in Threads \cup {NoThread}
    /\ pc \in [Threads -> PCs]
    /\ req \in [Threads -> [key : Keys \cup {NoKey}, val : Vals \cup {NoVal},
                            force : BOOLEAN]]
    /\ ptr \in [Threads -> Slots]
    /\ result \in [Threads -> Vals \cup {NoVal, Garbage}]
    /\ calls \in 0 .. MaxCalls
    /\ keyOf \in [Vals -> Keys \cup {NoKey}]

-----------------------------------------------------------------------------
(* The readers-writer lock *)

Readers == {t \in Threads : pc[t] \in ReadPCs}
Writers == {t \in Threads : pc[t] \in WritePCs}

RWLock == INSTANCE ReadWriteLock WITH reading <- Readers, writing <- Writers

\* The protocol of hashmap.c:104-109 and 127-132 is a readers-writer lock: two
\* mutexes and a counter keep a writer alone in the table although the mutex
\* that excludes it is often unlocked by another reader than locked it.
ImplementsReadWriteLock == RWLock!Spec

Counted == {t \in Threads : pc[t] \in ReadPCs \cup {"getFirst"}}

\* num_readers counts the readers between their two visits to it, the one that
\* waits for write_lock included, and write_lock is held exactly while a writer
\* or a counted reader that does not wait is inside.
LockProtocol ==
    /\ num_readers = Cardinality(Counted)
    /\ write_lock = NoThread <=> Readers = {} /\ Writers = {}
    /\ \A t \in Threads : pc[t] \in FieldsPCs <=> fields_lock = t

\* Once the callers stop calling, every call returns: no order of readers and
\* writers on the two mutexes leaves a thread blocked.
EveryCallReturns ==
    \A t \in Threads : pc[t] # "idle" ~> pc[t] = "idle" \/ undefined

-----------------------------------------------------------------------------
(* The table *)

\* A reader never sees a slot between the two writes of a put (hashmap.c:65-66):
\* the value of every used slot was put under the key of that slot.
ReadersSeeWholeEntries ==
    \A t \in Threads : pc[t] = "getProbe" =>
        \A p \in Slots : slots[p].key # NoKey =>
            slots[p].val # NoVal /\ keyOf[slots[p].val] = slots[p].key

\* What a get that has searched the table returns to its caller, whatever puts,
\* forced puts and deletes shaped the table (hashmap.c:110-126): a value that was
\* put under its own key; NULL only if no slot has the key, so that no sequence of
\* calls cuts a key off from its home slot; a variable nobody wrote only when the
\* search had no slot to stop at.  The value may be that of an entry since
\* deleted, or of an older put of the key: get tests no tombstone.
GetsOwnValue ==
    \A t \in Threads : pc[t] \in {"getLeave", "getUncount"} =>
        LET k == req[t].key
        IN  \/ result[t] \in Vals /\ keyOf[result[t]] = k
            \/ result[t] = NoVal /\ \A p \in Slots : slots[p].key # k
            \/ \A p \in Slots : slots[p].key # k /\ ~Untouched(slots[p])

Live(s) == s.key # NoKey /\ s.val # NoVal /\ ~s.tombstone

SizeError ==
    (size + SizeModulus - Cardinality({p \in Slots : Live(slots[p])})) % SizeModulus

\* The step of a put that evicts the live entry of its home slot.
Evicts(t) == PutVal(t) /\ Live(slots[ptr[t]])

\* The step of a delete that finds an entry already deleted.
DeletesAgain(t) ==
    LET k == req[t].key
    IN  DeleteBody(t) /\ ~Live(slots[Probe(k, StopsAt(k))])

\* size (hashmap.c:85,151) follows the number of live entries through every
\* step, except that a forced put which evicts an entry counts twice, a delete
\* of a deleted key discounts twice, and clear_map and invalidate_map reset it.
SizeFollowsEntries ==
    [][\/ SizeError' = SizeError
       \/ \E t \in Threads :
            Evicts(t) \/ DeletesAgain(t) \/ ClearBody(t) \/ InvalidateBody(t)]_vars

-----------------------------------------------------------------------------
(* What hashmap.h says and hashmap.c does not do *)

\* hashmap.h:59: "If the key already exists, the corresponding value is
\* overwritten", so a search for the key of a put that just stored its value
\* finds that value.
PutOverwrites ==
    [][\A t \in Threads : PutVal(t) => (Lookups(req[t].key))' = {req[t].val}]_vars
===============================================================================
