------------------------------- MODULE HashMap -------------------------------
(***************************************************************************)
(* The data store of cream (src/hw5/src/hashmap.c): an open-addressing     *)
(* table with tombstones, shared by threads that call put, get, delete,    *)
(* clear_map and invalidate_map.  Writers hold write_lock; readers share   *)
(* it through num_readers, which fields_lock guards: the first reader in   *)
(* takes write_lock, the last one out releases it.                         *)
(*                                                                         *)
(* Every thread has a program counter; a step is what it does between two  *)
(* points where another thread can intervene.  A put writes the key and    *)
(* the value of a slot in two steps, so that a reader let in between them  *)
(* would see the slot torn.                                                *)
(*                                                                         *)
(* A key is the pair (key_base, key_len) that the code compares; NoKey is  *)
(* the pair of a zeroed slot.  The value a put stores is the number of the *)
(* call, so that values are distinct.  MaxCalls, the only bound, bounds    *)
(* the calls.  The pthread calls and calloc are taken to succeed.          *)
(***************************************************************************)
EXTENDS Naturals, FiniteSets

CONSTANTS
    Threads,
    NoThread,       \* "the mutex is free"
    Keys,           \* keys with a non-NULL base and a positive length
    NoKey,          \* key_base = NULL and key_len = 0
    Capacity,       \* hashmap_t.capacity
    Home,           \* get_index, as a function of the key
    SizeModulus,    \* 2^32 in the code: size is a uint32_t
    Operations,     \* the functions the callers use
    MaxCalls        \* bound on the calls ever made

Slots   == 0 .. Capacity - 1
NoVal   == 0                        \* val_base = NULL and val_len = 0
Vals    == 1 .. MaxCalls
Garbage == MaxCalls + 1             \* whatever the stack held

ASSUME ThreadsAssumption  == IsFiniteSet(Threads) /\ NoThread \notin Threads
ASSUME KeysAssumption     == NoKey \notin Keys
ASSUME CapacityAssumption == Capacity \in Nat \ {0}
ASSUME HomeAssumption     == Home \in [Keys \cup {NoKey} -> Slots]
ASSUME BoundsAssumption   == MaxCalls \in Nat /\ SizeModulus \in Nat \ {0}

\* The places of a thread that shares the table with readers, that has it for
\* itself, that holds fields_lock.
ReadPCs   == {"getEntered", "getProbe", "getLeave", "getUncount"}
WritePCs  == {"putKey", "putVal", "deleteBody", "clearBody", "invalidateBody",
              "writeUnlock"}
FieldsPCs == {"getCount", "getFirst", "getEntered", "getUncount", "getLeft"}
PCs == ReadPCs \cup WritePCs \cup FieldsPCs \cup {"idle", "putLock", "getEnter"}

VARIABLES
    slots,          \* the nodes array: key, val and tombstone of each slot
    size,           \* hashmap_t.size
    freed,          \* the nodes array has been freed
    invalid,        \* hashmap_t.invalid
    num_readers,    \* hashmap_t.num_readers
    fields_lock,    \* holder of hashmap_t.fields_lock
    write_lock,     \* thread that locked hashmap_t.write_lock
    pc,             \* where each thread is
    req,            \* the arguments of each thread's call
    ptr,            \* put's local ptr
    result,         \* get's local result
    calls,          \* number of calls made
    keyOf,          \* history: the key each value was put under
    undefined       \* a freed nodes array was used: nothing is promised any more

table   == <<slots, size, freed, invalid>>
locks   == <<num_readers, fields_lock, write_lock>>
callers == <<req, ptr, result, calls, keyOf>>
vars    == <<slots, size, freed, invalid, num_readers, fields_lock, write_lock,
             pc, req, ptr, result, calls, keyOf, undefined>>

EmptySlot == [key |-> NoKey, val |-> NoVal, tombstone |-> FALSE]
NoRequest == [key |-> NoKey, val |-> NoVal, force |-> FALSE]

\* create_map
Init ==
    /\ slots = [p \in Slots |-> EmptySlot]
    /\ size = 0
    /\ freed = FALSE
    /\ invalid = FALSE
    /\ num_readers = 0
    /\ fields_lock = NoThread
    /\ write_lock = NoThread
    /\ pc = [t \in Threads |-> "idle"]
    /\ req = [t \in Threads |-> NoRequest]
    /\ ptr = [t \in Threads |-> 0]
    /\ result = [t \in Threads |-> NoVal]
    /\ calls = 0
    /\ keyOf = [v \in Vals |-> NoKey]
    /\ undefined = FALSE

Goto(t, from, to) ==
    /\ ~undefined
    /\ pc[t] = from
    /\ pc' = [pc EXCEPT ![t] = to]

\* The locals of thread t's call end with it.
Return(t) ==
    /\ req' = [req EXCEPT ![t] = NoRequest]
    /\ ptr' = [ptr EXCEPT ![t] = 0]
    /\ result' = [result EXCEPT ![t] = NoVal]
    /\ UNCHANGED <<calls, keyOf>>

\* Thread t starts a call with key k, under the bound on calls.
Call(t, k, force) ==
    /\ calls < MaxCalls
    /\ calls' = calls + 1
    /\ req' = [req EXCEPT ![t] = [key |-> k, val |-> calls + 1, force |-> force]]

-----------------------------------------------------------------------------
(* Searching the table *)

\* Faulty variant: a search that forgets to move on.
ProbeHome(k, i) == Home[k]

\* The i-th slot visited by a search for key k: ptr wraps round at capacity.
Probe(k, i) == (Home[k] + i) % Capacity

\* The first of the distances from home at which a search may stop, or Capacity
\* when it visits every slot in vain.
Nearest(hits) ==
    IF hits = {} THEN Capacity ELSE CHOOSE i \in hits : \A j \in hits : i <= j

\* put takes the first slot that was never used or holds a tombstone; a live
\* slot with the same key does not stop it.
Takes(s) == s.key = NoKey \/ s.tombstone

\* get and delete stop at an untouched slot.
Untouched(s) == s.key = NoKey /\ ~s.tombstone

\* get and delete compare keys and ignore the tombstone.
StopsAt(k) ==
    Nearest({i \in Slots : LET s == slots[Probe(k, i)] IN s.key = k \/ Untouched(s)})

\* What get returns for k: an uninitialised variable if nothing stops the loop.
Lookups(k) ==
    IF StopsAt(k) = Capacity
    THEN {NoVal, Garbage} \cup {v \in Vals : v <= calls}
    ELSE LET s == slots[Probe(k, StopsAt(k))]
         IN  IF s.key = k THEN {s.val} ELSE {NoVal}

-----------------------------------------------------------------------------
(* write_lock, as the writers use it *)

\* Faulty variant: the mutex is taken without waiting for it.
LockAtOnce(t, from, to) ==
    /\ Goto(t, from, to)
    /\ write_lock' = t
    /\ UNCHANGED <<num_readers, fields_lock>>

LockForWriting(t, from, to) ==
    /\ Goto(t, from, to)
    /\ write_lock = NoThread
    /\ write_lock' = t
    /\ UNCHANGED <<num_readers, fields_lock>>

WriteUnlock(t) ==
    /\ Goto(t, "writeUnlock", "idle")
    /\ write_lock' = NoThread
    /\ Return(t)
    /\ UNCHANGED <<table, num_readers, fields_lock, undefined>>

-----------------------------------------------------------------------------
(* bool put(hashmap_t *self, map_key_t key, map_val_t val, bool force) *)

\* The call and its unlocked test of `invalid`; a refused put changes nothing.
Put(t, k, force) ==
    /\ ~invalid
    /\ Goto(t, "idle", "putLock")
    /\ Call(t, k, force)
    /\ keyOf' = [keyOf EXCEPT ![calls + 1] = k]
    /\ UNCHANGED <<table, locks, ptr, result, undefined>>

\* Faulty variant: put goes on without the lock.
PutUnlocked(t) ==
    /\ Goto(t, "putLock", "putKey")
    /\ UNCHANGED <<table, locks, callers, undefined>>

PutLock(t) ==
    /\ LockForWriting(t, "putLock", "putKey")
    /\ UNCHANGED <<table, callers, undefined>>

\* Where put stores: the first slot it can take, else the home slot if forced,
\* whose entry is destroyed.
PutDistance(t) == Nearest({i \in Slots : Takes(slots[Probe(req[t].key, i)])})

PutKey(t) ==
    /\ ~freed
    /\ Goto(t, "putKey", "putVal")
    /\ PutDistance(t) < Capacity \/ req[t].force
    /\ LET p == Probe(req[t].key, PutDistance(t)) IN     \* Probe wraps to home
       /\ slots' = [slots EXCEPT ![p].key = req[t].key]
       /\ ptr' = [ptr EXCEPT ![t] = p]
    /\ UNCHANGED <<size, freed, invalid, locks, req, result, calls, keyOf, undefined>>

PutVal(t) ==
    /\ Goto(t, "putVal", "writeUnlock")
    /\ slots' = [slots EXCEPT ![ptr[t]].val = req[t].val, ![ptr[t]].tombstone = FALSE]
    /\ size' = (size + 1) % SizeModulus
    /\ UNCHANGED <<freed, invalid, locks, callers, undefined>>

\* Faulty variant: size counts the refused put too.
PutFullCounted(t) ==
    /\ ~freed
    /\ PutDistance(t) = Capacity /\ ~req[t].force
    /\ Goto(t, "putKey", "writeUnlock")
    /\ size' = (size + 1) % SizeModulus
    /\ UNCHANGED <<slots, freed, invalid, locks, callers, undefined>>

\* The map is full and force is false: ENOMEM.
PutFull(t) ==
    /\ ~freed
    /\ PutDistance(t) = Capacity /\ ~req[t].force
    /\ Goto(t, "putKey", "writeUnlock")
    /\ UNCHANGED <<table, locks, callers, undefined>>

-----------------------------------------------------------------------------
(* map_val_t get(hashmap_t *self, map_key_t key) *)

\* The call and its unlocked test of `invalid`; a refused get changes nothing.
Get(t, k) ==
    /\ ~invalid
    /\ Goto(t, "idle", "getEnter")
    /\ Call(t, k, FALSE)
    /\ UNCHANGED <<table, locks, ptr, result, keyOf, undefined>>

LockFields(t, from, to) ==
    /\ Goto(t, from, to)
    /\ fields_lock = NoThread
    /\ fields_lock' = t
    /\ UNCHANGED <<table, num_readers, write_lock, callers, undefined>>

UnlockFields(t, from, to) ==
    /\ Goto(t, from, to)
    /\ fields_lock' = NoThread
    /\ UNCHANGED <<table, num_readers, write_lock, undefined>>

EnterLock(t) == LockFields(t, "getEnter", "getCount")

\* Faulty variant: the increment is lost.
CountNothing(t) ==
    /\ Goto(t, "getCount", IF num_readers = 0 THEN "getFirst" ELSE "getEntered")
    /\ UNCHANGED <<table, locks, callers, undefined>>

CountIn(t) ==
    /\ Goto(t, "getCount", IF num_readers = 0 THEN "getFirst" ELSE "getEntered")
    /\ num_readers' = num_readers + 1
    /\ UNCHANGED <<table, fields_lock, write_lock, callers, undefined>>

\* The first reader waits for write_lock while it holds fields_lock.
FirstReader(t) ==
    /\ LockForWriting(t, "getFirst", "getEntered")
    /\ UNCHANGED <<table, callers, undefined>>

EnterUnlock(t) == UnlockFields(t, "getEntered", "getProbe") /\ UNCHANGED callers

ReadTable(t) ==
    /\ ~freed
    /\ Goto(t, "getProbe", "getLeave")
    /\ \E v \in Lookups(req[t].key) : result' = [result EXCEPT ![t] = v]
    /\ UNCHANGED <<table, locks, req, ptr, calls, keyOf, undefined>>

LeaveLock(t) == LockFields(t, "getLeave", "getUncount")

\* Faulty variants: every reader that leaves unlocks write_lock; none does.
AlwaysUnlocked == NoThread
StillLocked    == write_lock

\* The last reader unlocks write_lock, whichever reader had locked it.
WriteLockLeft == IF num_readers = 1 THEN NoThread ELSE write_lock

CountOut(t) ==
    /\ Goto(t, "getUncount", "getLeft")
    /\ num_readers' = num_readers - 1
    /\ write_lock' = WriteLockLeft
    /\ UNCHANGED <<table, fields_lock, callers, undefined>>

LeaveUnlock(t) == UnlockFields(t, "getLeft", "idle") /\ Return(t)

-----------------------------------------------------------------------------
(* map_node_t delete(hashmap_t *self, map_key_t key) *)

\* delete tests no flag and goes on with a NULL key: its first step is the lock.
Delete(t, k) ==
    /\ LockForWriting(t, "idle", "deleteBody")
    /\ Call(t, k, FALSE)
    /\ UNCHANGED <<table, ptr, result, keyOf, undefined>>

\* Faulty variant: delete empties the slot, which ends every search there.
Emptied(s) == EmptySlot

\* What delete leaves of a slot.
Deleted(s) == [s EXCEPT !.tombstone = TRUE]

DeleteBody(t) ==
    /\ ~freed
    /\ Goto(t, "deleteBody", "writeUnlock")
    /\ LET k == req[t].key
           p == Probe(k, StopsAt(k)) IN
       IF StopsAt(k) < Capacity /\ slots[p].key = k
       THEN /\ slots' = [slots EXCEPT ![p] = Deleted(@)]
            /\ size' = (size + SizeModulus - 1) % SizeModulus
       ELSE UNCHANGED <<slots, size>>
    /\ UNCHANGED <<freed, invalid, locks, callers, undefined>>

-----------------------------------------------------------------------------
(* bool clear_map(hashmap_t *self), bool invalidate_map(hashmap_t *self) *)

ClearMap(t) ==
    /\ LockForWriting(t, "idle", "clearBody")
    /\ Call(t, NoKey, FALSE)
    /\ UNCHANGED <<table, ptr, result, keyOf, undefined>>

\* The destructor gets copies of the entries: the slots stay as they are.
ClearBody(t) ==
    /\ ~freed
    /\ Goto(t, "clearBody", "writeUnlock")
    /\ size' = 0
    /\ UNCHANGED <<slots, freed, invalid, locks, callers, undefined>>

InvalidateMap(t) ==
    /\ LockForWriting(t, "idle", "invalidateBody")
    /\ Call(t, NoKey, FALSE)
    /\ UNCHANGED <<table, ptr, result, keyOf, undefined>>

InvalidateBody(t) ==
    /\ ~freed
    /\ Goto(t, "invalidateBody", "writeUnlock")
    /\ size' = 0
    /\ invalid' = TRUE
    /\ freed' = TRUE
    /\ UNCHANGED <<slots, locks, callers, undefined>>

-----------------------------------------------------------------------------
\* A call that reaches its body after the nodes array was freed uses it: the
\* test of `invalid`, if any, was made before the lock.
UsePCs == {"putKey", "getProbe", "deleteBody", "clearBody", "invalidateBody"}

UseAfterFree(t) ==
    /\ ~undefined /\ freed /\ pc[t] \in UsePCs
    /\ undefined' = TRUE
    /\ UNCHANGED <<table, locks, pc, callers>>

PutStep(t) == PutLock(t) \/ PutKey(t) \/ PutVal(t) \/ PutFull(t)

GetStep(t) ==
    \/ EnterLock(t) \/ CountIn(t) \/ FirstReader(t) \/ EnterUnlock(t)
    \/ ReadTable(t)
    \/ LeaveLock(t) \/ CountOut(t) \/ LeaveUnlock(t)

WriteStep(t) == DeleteBody(t) \/ ClearBody(t) \/ InvalidateBody(t) \/ WriteUnlock(t)

InCall(t) == PutStep(t) \/ GetStep(t) \/ WriteStep(t) \/ UseAfterFree(t)

\* The calls a thread may start: the callers use only Operations.
StartCall(t) ==
    \/ \E k \in Keys : \/ "put" \in Operations /\ Put(t, k, FALSE)
                       \/ "force" \in Operations /\ Put(t, k, TRUE)
                       \/ "get" \in Operations /\ Get(t, k)
    \/ \E k \in Keys \cup {NoKey} : "delete" \in Operations /\ Delete(t, k)
    \/ "clear" \in Operations /\ ClearMap(t)
    \/ "invalidate" \in Operations /\ InvalidateMap(t)

Next == \E t \in Threads : StartCall(t) \/ InCall(t)

Spec == Init /\ [][Next]_vars

\* A thread inside a call keeps being scheduled.
Fairness == \A t \in Threads : WF_vars(InCall(t))

FairSpec == Spec /\ Fairness
=============================================================================
