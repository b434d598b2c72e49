--------------------------- MODULE HashMapTableProofs ---------------------------
(***************************************************************************)
(* Proofs about the table of the hash map, for any set of threads and keys,*)
(* any capacity and any hash function: its types, that readers see whole   *)
(* entries, what a get returns, what size counts, and that without delete  *)
(* what was put stays found.                                               *)
(***************************************************************************)
EXTENDS HashMapProofs, WellFoundedInduction

-----------------------------------------------------------------------------
(* Arithmetic of the probe *)

\* The well-ordering of the naturals, without induction over a predicate.
LEMMA LeastNatural ==
    ASSUME NEW S \in SUBSET Nat, S # {}
    PROVE  \E m \in S : \A n \in S : m <= n
<1> DEFINE Initial == {0 .. n : n \in S}
<1>1. Initial \subseteq FiniteSubsetsOf(Nat) /\ Initial # {}
  <2>1. \A n \in S : IsFiniteSet(0 .. n) /\ 0 .. n \in SUBSET Nat
    BY FS_Interval
  <2> QED
    BY <2>1 DEF FiniteSubsetsOf
<1>2. PICK x \in Initial : \A y \in Initial : ~(<<y, x>> \in StrictSubsetOrdering(Nat))
  BY <1>1, WFMin, FS_StrictSubsetOrderingWellFounded
<1>3. PICK m \in S : x = 0 .. m
  BY <1>2
<1>4. ASSUME NEW n \in S, n < m PROVE FALSE
  <2>1. 0 .. n \in Initial /\ 0 .. n \subseteq x /\ 0 .. n # x
    BY <1>3, <1>4
  <2>2. x \in SUBSET Nat
    BY <1>3
  <2> QED
    BY <1>2, <2>1, <2>2 DEF StrictSubsetOrdering
<1> QED
  BY <1>4

\* Where a search stops: at its nearest hit, or at Capacity if there is none.
LEMMA NearestIn ==
    ASSUME NEW hits \in SUBSET Slots
    PROVE  /\ Nearest(hits) \in 0 .. Capacity
           /\ hits = {} => Nearest(hits) = Capacity
           /\ hits # {} => Nearest(hits) \in hits
           /\ Nearest(hits) < Capacity => Nearest(hits) \in hits
           /\ \A i \in Slots : i < Nearest(hits) => i \notin hits
<1>1. CASE hits = {}
  BY <1>1, CapacityAssumption DEF Nearest
<1>2. CASE hits # {}
  <2>1. hits \in SUBSET Nat
    BY DEF Slots
  <2>2. PICK m \in hits : \A n \in hits : m <= n
    BY <1>2, <2>1, LeastNatural
  <2>3. Nearest(hits) \in hits /\ \A j \in hits : Nearest(hits) <= j
    BY <1>2, <2>2 DEF Nearest
  <2>4. Nearest(hits) \in 0 .. Capacity - 1
    BY <2>3 DEF Slots
  <2>5. \A i \in Slots : i < Nearest(hits) => i \notin hits
    BY <2>3, <2>4 DEF Slots
  <2> QED
    BY <1>2, <2>3, <2>4, <2>5, CapacityAssumption
<1> QED
  BY <1>1, <1>2

\* Reduction modulo a positive number, over its first two periods.
LEMMA ModFacts ==
    ASSUME NEW C \in Nat \ {0}, NEW x \in Int
    PROVE  /\ x % C \in 0 .. C-1
           /\ x \in 0 .. C-1 => x % C = x
           /\ x \in C .. 2 * C - 1 => x % C = x - C
<1>1. x % C \in 0 .. C-1
  OBVIOUS
<1>2. x \in 0 .. C-1 => x % C = x
  OBVIOUS
<1>3. x \in C .. 2 * C - 1 => x % C = x - C
  <2> SUFFICES ASSUME x \in C .. 2 * C - 1 PROVE x % C = x - C
    OBVIOUS
  <2>1. x = C * (x \div C) + (x % C)
    OBVIOUS
  <2>2. (x \div C) \in Int /\ x % C \in 0 .. C - 1
    OBVIOUS
  <2>3. x \div C = 1
    BY <2>1, <2>2
  <2> QED
    BY <2>1, <2>3
<1> QED
  BY <1>1, <1>2, <1>3
LEMMA Wraps ==
    ASSUME NEW C \in Nat \ {0}, NEW a \in 0 .. C - 1
    PROVE  (a + C) % C = a
<1> DEFINE x == a + C
<1>1. x \in Int /\ x \in C .. 2 * C - 1
  OBVIOUS
<1> HIDE DEF x
<1>2. x % C = x - C
  BY <1>1, ModFacts
<1>3. x - C = a
  BY DEF x
<1> QED
  BY <1>2, <1>3 DEF x

LEMMA QuotientAndRest ==
    ASSUME NEW C \in Nat \ {0}, NEW x \in Int
    PROVE  \E q \in Int, r \in 0 .. C - 1 : x = C * q + r /\ x % C = r
  OBVIOUS

\* A period does not matter, for any integer.
LEMMA Period ==
    ASSUME NEW C \in Nat \ {0}, NEW y \in Int
    PROVE  (y + C) % C = y % C
<1>1. PICK x \in Int : x = y + C
  OBVIOUS
<1>2. PICK q \in Int, r \in 0 .. C - 1 : y = C * q + r /\ y % C = r
  BY QuotientAndRest
<1>3. PICK u \in Int, v \in 0 .. C - 1 : x = C * u + v /\ x % C = v
  BY QuotientAndRest
<1>4. PICK m \in Int : m = u - q - 1
  OBVIOUS
<1>5. C * m = r - v
  BY <1>1, <1>2, <1>3, <1>4
<1>6. m = 0
  BY <1>5
<1>7. x % C = y % C
  BY <1>2, <1>3, <1>5, <1>6
<1> QED
  BY <1>1, <1>7

LEMMA ProbeIn ==
    ASSUME NEW k \in Keys \cup {NoKey}
    PROVE  /\ Home[k] \in Slots
           /\ \A i \in Nat : Probe(k, i) \in Slots
           /\ Probe(k, Capacity) = Probe(k, 0)
           /\ \A p \in Slots : \E d \in Slots : Probe(k, d) = p
           /\ \A i, j \in Slots : Probe(k, i) = Probe(k, j) => i = j
<1>1. Home[k] \in Slots /\ Home[k] \in Int /\ Home[k] \in 0 .. Capacity - 1
  BY HomeAssumption DEF Slots
<1>2. \A i \in Nat : Home[k] + i \in Int
  BY <1>1
<1>3. \A i \in Nat : Probe(k, i) \in Slots
  BY <1>2, CapacityAssumption, ModFacts DEF Probe, Slots
<1>4. Probe(k, Capacity) = Probe(k, 0)
  <2>1. Home[k] + Capacity \in Capacity .. 2 * Capacity - 1 /\ Home[k] + 0 = Home[k]
    BY <1>1, CapacityAssumption
  <2>2. (Home[k] + Capacity) % Capacity = Home[k]
    BY <1>1, CapacityAssumption, Wraps
  <2>3. Home[k] % Capacity = Home[k]
    BY <1>1, CapacityAssumption, ModFacts
  <2> QED
    BY <1>1, <2>1, <2>2, <2>3, CapacityAssumption DEF Probe
<1>5. ASSUME NEW p \in Slots PROVE \E d \in Slots : Probe(k, d) = p
  <2>1. p \in 0 .. Capacity - 1
    BY DEF Slots
  <2>2. CASE Home[k] <= p
    <3>1. p - Home[k] \in Slots /\ Home[k] + (p - Home[k]) = p
      BY <1>1, <2>1, <2>2, CapacityAssumption DEF Slots
    <3>2. p % Capacity = p
      BY <2>1, CapacityAssumption
    <3>3. Probe(k, p - Home[k]) = p
      BY <3>1, <3>2 DEF Probe
    <3> QED
      BY <3>1, <3>3
  <2>3. CASE p < Home[k]
    <3>1. /\ p + Capacity - Home[k] \in Slots
          /\ Home[k] + (p + Capacity - Home[k]) = p + Capacity
          /\ p + Capacity \in Capacity .. 2 * Capacity - 1
      BY <1>1, <2>1, <2>3, CapacityAssumption DEF Slots
    <3>2. (p + Capacity) % Capacity = p
      BY <2>1, CapacityAssumption, Wraps
    <3>3. Probe(k, p + Capacity - Home[k]) = p
      BY <2>1, <3>1, <3>2, CapacityAssumption DEF Probe
    <3> QED
      BY <3>1, <3>3
  <2> QED
    BY <1>1, <2>1, <2>2, <2>3
<1>6. ASSUME NEW i \in Slots
      PROVE  Probe(k, i) = Home[k] + i \/ Probe(k, i) = Home[k] + i - Capacity
  <2>1. PICK x \in Int : x = Home[k] + i
    BY <1>1 DEF Slots
  <2>2. x \in 0 .. Capacity - 1 \/ x \in Capacity .. 2 * Capacity - 1
    BY <1>1, <2>1, CapacityAssumption DEF Slots
  <2>3. x % Capacity = x \/ x % Capacity = x - Capacity
    BY <2>2, CapacityAssumption, ModFacts
  <2>4. Probe(k, i) = x % Capacity
    BY <2>1 DEF Probe
  <2>5. i \in Int /\ Capacity \in Int
    BY CapacityAssumption DEF Slots
  <2>6. Probe(k, i) = x \/ Probe(k, i) = x - Capacity
    BY <2>3, <2>4
  <2> QED
    BY <1>1, <2>1, <2>5, <2>6
<1>7. ASSUME NEW i \in Slots, NEW j \in Slots, Probe(k, i) = Probe(k, j) PROVE i = j
  <2>1. /\ Probe(k, i) = Home[k] + i \/ Probe(k, i) = Home[k] + i - Capacity
        /\ Probe(k, j) = Home[k] + j \/ Probe(k, j) = Home[k] + j - Capacity
    BY <1>6
  <2> QED
    BY <1>1, <1>7, <2>1, CapacityAssumption DEF Slots
<1> QED
  BY <1>1, <1>3, <1>4, <1>5, <1>7

-----------------------------------------------------------------------------
(* The inductive invariant of the table *)

\* A put between its call and its second write of the slot.
PutPCs == {"putLock", "putKey", "putVal"}

Whole(p) == slots[p].val # NoVal /\ keyOf[slots[p].val] = slots[p].key

\* The history knows the calls made, and no others.
HistoryInv == \A v \in Vals : v > calls => keyOf[v] = NoKey

\* A put carries its own key and value; between its two writes its slot has the key.
PutInv ==
    \A t \in Threads :
        /\ pc[t] \in PutPCs =>
             /\ req[t].key \in Keys
             /\ req[t].val \in Vals /\ req[t].val <= calls
             /\ keyOf[req[t].val] = req[t].key
        /\ pc[t] = "putVal" => slots[ptr[t]].key = req[t].key

\* A used slot is whole unless a put is between its two writes of it; a slot
\* without a key has no value.
SlotInv ==
    \A p \in Slots :
        /\ slots[p].key # NoKey =>
             Whole(p) \/ \E t \in Threads : pc[t] = "putVal" /\ ptr[t] = p
        /\ slots[p].key = NoKey => slots[p].val = NoVal

\* Between the home of a key and a slot that holds it every slot was used.
ProbeInv ==
    \A k \in Keys : \A d \in Slots :
        slots[Probe(k, d)].key = k =>
            \A i \in Slots : i < d => ~Untouched(slots[Probe(k, i)])

TableInv == HistoryInv /\ PutInv /\ SlotInv /\ ProbeInv

-----------------------------------------------------------------------------
(* Types *)

SlotType    == [key : Keys \cup {NoKey}, val : Vals \cup {NoVal}, tombstone : BOOLEAN]
RequestType == [key : Keys \cup {NoKey}, val : Vals \cup {NoVal}, force : BOOLEAN]

\* The parts of a slot that the code writes keep its type.
LEMMA SlotUpdates ==
    ASSUME NEW s \in SlotType, NEW k \in Keys \cup {NoKey}, NEW v \in Vals \cup {NoVal}
    PROVE  /\ [s EXCEPT !.key = k] \in SlotType
           /\ [s EXCEPT !.val = v, !.tombstone = FALSE] \in SlotType
           /\ Deleted(s) \in SlotType
  BY DEF SlotType, Deleted

LEMMA SearchIn ==
    ASSUME TypeOK, NEW k \in Keys \cup {NoKey}
    PROVE  /\ StopsAt(k) \in 0 .. Capacity /\ Probe(k, StopsAt(k)) \in Slots
           /\ Lookups(k) \subseteq Vals \cup {NoVal, Garbage}
<1>1. StopsAt(k) \in 0 .. Capacity
  <2> DEFINE hits == {i \in Slots :
                        LET s == slots[Probe(k, i)] IN s.key = k \/ Untouched(s)}
  <2>1. hits \in SUBSET Slots
    OBVIOUS
  <2> HIDE DEF hits
  <2>2. Nearest(hits) \in 0 .. Capacity
    BY <2>1, NearestIn
  <2> QED
    BY <2>2 DEF hits, StopsAt
<1>2. Probe(k, StopsAt(k)) \in Slots
  BY <1>1, ProbeIn, CapacityAssumption
<1>3. Lookups(k) \subseteq Vals \cup {NoVal, Garbage}
  BY <1>2 DEF Lookups, TypeOK
<1> QED
  BY <1>1, <1>2, <1>3

LEMMA PutDistanceIn ==
    ASSUME NEW t \in Threads, req[t].key \in Keys \cup {NoKey}
    PROVE  LET d == PutDistance(t)
           IN  /\ d \in 0 .. Capacity /\ Probe(req[t].key, d) \in Slots
               /\ d < Capacity => Takes(slots[Probe(req[t].key, d)])
               /\ \A i \in Slots : i < d => ~Takes(slots[Probe(req[t].key, i)])
<1> DEFINE hits == {i \in Slots : Takes(slots[Probe(req[t].key, i)])}
<1>1. hits \in SUBSET Slots
  OBVIOUS
<1>2. PutDistance(t) = Nearest(hits)
  BY DEF PutDistance
<1>3. \A i \in Slots : i \in hits <=> Takes(slots[Probe(req[t].key, i)])
  OBVIOUS
<1> HIDE DEF hits
<1>4. /\ Nearest(hits) \in 0 .. Capacity
      /\ Nearest(hits) < Capacity => Nearest(hits) \in hits
      /\ \A i \in Slots : i < Nearest(hits) => i \notin hits
  BY <1>1, NearestIn
<1>5. Probe(req[t].key, Nearest(hits)) \in Slots
  BY <1>4, ProbeIn, CapacityAssumption
<1> QED
  BY <1>1, <1>2, <1>3, <1>4, <1>5

\* A call and its return keep the types of the locals.
LEMMA CallTypes ==
    ASSUME TypeOK, NEW t \in Threads, NEW k \in Keys \cup {NoKey}, NEW f \in BOOLEAN,
           Call(t, k, f)
    PROVE  calls' \in 0 .. MaxCalls /\ calls' \in Vals /\ calls' = calls + 1
           /\ req' \in [Threads -> [key : Keys \cup {NoKey}, val : Vals \cup {NoVal},
                                     force : BOOLEAN]]
<1>1. calls \in Nat /\ calls < MaxCalls /\ calls' = calls + 1 /\ MaxCalls \in Nat
  BY BoundsAssumption DEF Call, TypeOK
<1>2. calls + 1 \in Vals /\ calls' \in 0 .. MaxCalls
  BY <1>1 DEF Vals
<1> QED
  BY <1>1, <1>2 DEF Call, TypeOK

LEMMA ReturnTypes ==
    ASSUME TypeOK, NEW t \in Threads, Return(t)
    PROVE  /\ req' \in [Threads -> [key : Keys \cup {NoKey}, val : Vals \cup {NoVal},
                                     force : BOOLEAN]]
           /\ ptr' \in [Threads -> Slots]
           /\ result' \in [Threads -> Vals \cup {NoVal, Garbage}]
  BY CapacityAssumption DEF Return, TypeOK, NoRequest, Slots

LEMMA InitTypes == Init => TypeOK
<1> SUFFICES ASSUME Init PROVE TypeOK
  OBVIOUS
<1>1. 0 \in Slots /\ 0 \in 0 .. SizeModulus - 1 /\ 0 \in 0 .. MaxCalls
  BY CapacityAssumption, BoundsAssumption DEF Slots
<1>2. EmptySlot \in SlotType /\ NoRequest \in RequestType
  BY DEF EmptySlot, NoRequest, SlotType, RequestType
<1>3. slots \in [Slots -> SlotType] /\ req \in [Threads -> RequestType]
  BY <1>2 DEF Init
<1>4. pc \in [Threads -> PCs] /\ keyOf \in [Vals -> Keys \cup {NoKey}]
  BY DEF Init, PCs
<1>5. ptr \in [Threads -> Slots] /\ result \in [Threads -> Vals \cup {NoVal, Garbage}]
  BY <1>1 DEF Init
<1>6. /\ size \in 0 .. SizeModulus - 1 /\ calls \in 0 .. MaxCalls /\ num_readers \in Nat
      /\ freed \in BOOLEAN /\ invalid \in BOOLEAN /\ undefined \in BOOLEAN
      /\ fields_lock = NoThread /\ write_lock = NoThread
  BY <1>1 DEF Init
<1> QED
  BY <1>3, <1>4, <1>5, <1>6 DEF TypeOK, SlotType, RequestType

LEMMA StartTypes ==
    ASSUME TypeOK, LockTypes', num_readers' \in Nat, NEW t \in Threads, StartCall(t)
    PROVE  TypeOK'
<1>1. ASSUME NEW k \in Keys, NEW f \in BOOLEAN, Put(t, k, f) PROVE TypeOK'
  BY <1>1, CallTypes DEF Put, table, locks, TypeOK, LockTypes
<1>2. ASSUME NEW k \in Keys, Get(t, k) PROVE TypeOK'
  BY <1>2, CallTypes DEF Get, table, locks, TypeOK, LockTypes
<1>3. ASSUME NEW k \in Keys \cup {NoKey}, Delete(t, k) PROVE TypeOK'
  BY <1>3, CallTypes DEF Delete, table, TypeOK, LockTypes
<1>4. CASE ClearMap(t) \/ InvalidateMap(t)
  BY <1>4, CallTypes DEF ClearMap, InvalidateMap, table, TypeOK, LockTypes
<1> QED
  BY <1>1, <1>2, <1>3, <1>4 DEF StartCall

LEMMA PutTypes ==
    ASSUME TypeOK, LockTypes', num_readers' \in Nat, NEW t \in Threads, PutStep(t)
    PROVE  TypeOK'
<1>1. CASE PutLock(t) \/ PutFull(t)
  BY <1>1 DEF PutLock, PutFull, table, callers, TypeOK, LockTypes
<1>2. CASE PutKey(t)
  <2>1. PICK p \in Slots : /\ slots' = [slots EXCEPT ![p].key = req[t].key]
                           /\ ptr' = [ptr EXCEPT ![t] = p]
    BY <1>2, PutDistanceIn DEF PutKey, TypeOK
  <2>2. slots' = [slots EXCEPT ![p] = [slots[p] EXCEPT !.key = req[t].key]]
    BY <2>1
  <2>3. slots' \in [Slots -> SlotType]
    BY <2>2, SlotUpdates DEF TypeOK, SlotType
  <2>4. ptr' \in [Threads -> Slots]
    BY <2>1 DEF TypeOK
  <2> QED
    BY <1>2, <2>3, <2>4 DEF PutKey, TypeOK, LockTypes, SlotType, locks
<1>3. CASE PutVal(t)
  <2>1. ptr[t] \in Slots /\ req[t].val \in Vals \cup {NoVal}
    BY DEF TypeOK
  <2>2. (size + 1) % SizeModulus \in 0 .. SizeModulus - 1
    BY BoundsAssumption, ModFacts DEF TypeOK
  <2>3. slots' = [slots EXCEPT ![ptr[t]] =
                      [slots[ptr[t]] EXCEPT !.val = req[t].val, !.tombstone = FALSE]]
    BY <1>3 DEF PutVal
  <2>4. slots' \in [Slots -> SlotType]
    BY <2>1, <2>3, SlotUpdates DEF TypeOK, SlotType
  <2> QED
    BY <1>3, <2>2, <2>4 DEF PutVal, callers, TypeOK, LockTypes, SlotType
<1> QED
  BY <1>1, <1>2, <1>3 DEF PutStep

LEMMA GetTypes ==
    ASSUME TypeOK, LockTypes', num_readers' \in Nat, NEW t \in Threads, GetStep(t)
    PROVE  TypeOK'
<1>1. CASE EnterLock(t) \/ CountIn(t) \/ FirstReader(t) \/ EnterUnlock(t)
  BY <1>1 DEF EnterLock, CountIn, FirstReader, EnterUnlock, LockFields, UnlockFields,
              table, callers, TypeOK, LockTypes
<1>2. CASE ReadTable(t)
  <2>1. PICK v \in Lookups(req[t].key) : result' = [result EXCEPT ![t] = v]
    BY <1>2 DEF ReadTable
  <2>2. v \in Vals \cup {NoVal, Garbage}
    BY <2>1, SearchIn DEF TypeOK
  <2> QED
    BY <1>2, <2>1, <2>2 DEF ReadTable, table, TypeOK, LockTypes
<1>3. CASE LeaveLock(t) \/ CountOut(t)
  BY <1>3 DEF LeaveLock, CountOut, LockFields, table, callers, TypeOK, LockTypes
<1>4. CASE LeaveUnlock(t)
  BY <1>4, ReturnTypes DEF LeaveUnlock, UnlockFields, Return, table, TypeOK, LockTypes
<1> QED
  BY <1>1, <1>2, <1>3, <1>4 DEF GetStep

LEMMA WriteTypes ==
    ASSUME TypeOK, LockTypes', num_readers' \in Nat, NEW t \in Threads,
           WriteStep(t) \/ UseAfterFree(t)
    PROVE  TypeOK'
<1>1. CASE DeleteBody(t)
  <2>1. Probe(req[t].key, StopsAt(req[t].key)) \in Slots
    BY SearchIn DEF TypeOK
  <2>2. (size + SizeModulus - 1) % SizeModulus \in 0 .. SizeModulus - 1
    BY BoundsAssumption, ModFacts DEF TypeOK
  <2>3. \/ UNCHANGED <<slots, size>>
        \/ /\ \E p \in Slots : slots' = [slots EXCEPT ![p] = Deleted(@)]
           /\ size' = (size + SizeModulus - 1) % SizeModulus
    BY <1>1, <2>1 DEF DeleteBody
  <2>4. slots' \in [Slots -> SlotType]
    <3>1. ASSUME NEW p \in Slots, slots' = [slots EXCEPT ![p] = Deleted(@)]
          PROVE  slots' \in [Slots -> SlotType]
      BY <3>1, SlotUpdates DEF TypeOK, SlotType
    <3> QED
      BY <2>3, <3>1 DEF TypeOK, SlotType
  <2>5. size' \in 0 .. SizeModulus - 1
    BY <2>2, <2>3 DEF TypeOK
  <2>6. UNCHANGED <<freed, invalid, callers, undefined>>
    BY <1>1 DEF DeleteBody
  <2> QED
    BY <2>4, <2>5, <2>6 DEF callers, TypeOK, LockTypes, SlotType
<1>2. CASE ClearBody(t) \/ InvalidateBody(t)
  <2>1. 0 \in 0 .. SizeModulus - 1
    BY BoundsAssumption
  <2> QED
    BY <1>2, <2>1 DEF ClearBody, InvalidateBody, callers, TypeOK, LockTypes
<1>3. CASE WriteUnlock(t)
  BY <1>3, ReturnTypes DEF WriteUnlock, Return, table, TypeOK, LockTypes
<1>4. CASE UseAfterFree(t)
  BY <1>4 DEF UseAfterFree, table, callers, TypeOK, LockTypes
<1> QED
  BY <1>1, <1>2, <1>3, <1>4 DEF WriteStep

LEMMA TypesKept == TypeOK /\ LockInv' /\ [Next]_vars => TypeOK'
<1> SUFFICES ASSUME TypeOK, LockInv', [Next]_vars PROVE TypeOK'
  OBVIOUS
<1>1. LockTypes' /\ num_readers' \in Nat
  <2>1. (Counted \in SUBSET Threads)'
    BY DEF Counted
  <2> QED
    BY <2>1, FS_Subset, FS_CardinalityType, ThreadsAssumption DEF LockInv, LockProtocol
<1>2. CASE UNCHANGED vars
  BY <1>2 DEF vars, TypeOK
<1>3. ASSUME NEW t \in Threads, StartCall(t) \/ InCall(t) PROVE TypeOK'
  BY <1>1, <1>3, StartTypes, PutTypes, GetTypes, WriteTypes DEF InCall
<1> QED
  BY <1>2, <1>3 DEF Next

\* Every variable of the map keeps its type, whatever the threads call: size, the
\* mutexes, the slots and the locals of the calls.
THEOREM MapTypeCorrect == Spec => []TypeOK
<1>1. Init => TypeOK
  BY InitTypes
<1>2. TypeOK /\ LockInv' /\ [Next]_vars => TypeOK'
  BY TypesKept
<1> QED
  BY <1>1, <1>2, LockInvariant, PTL DEF Spec

-----------------------------------------------------------------------------
(* The table invariant *)

\* A step that writes no slot and starts no put.
Aside ==
    /\ UNCHANGED <<slots, keyOf>>
    /\ calls' >= calls
    /\ \A u \in Threads :
         /\ pc'[u] \in PutPCs => pc[u] \in PutPCs /\ req'[u] = req[u] /\ ptr'[u] = ptr[u]
         /\ pc[u] = "putVal" <=> pc'[u] = "putVal"

LEMMA AsideKeeps == TypeOK /\ TypeOK' /\ TableInv /\ Aside => TableInv'
<1> SUFFICES ASSUME TypeOK, TypeOK', TableInv, Aside PROVE TableInv'
  OBVIOUS
<1>1. calls \in Int /\ calls' \in Int /\ \A v \in Vals : v \in Int
  BY BoundsAssumption DEF TypeOK, Vals
<1>2. HistoryInv'
  BY <1>1 DEF TableInv, HistoryInv, Aside
<1>3. PutInv'
  BY <1>1 DEF TableInv, PutInv, Aside, PutPCs
<1>4. SlotInv'
  BY DEF TableInv, SlotInv, Whole, Aside, PutPCs
<1>5. ProbeInv'
  BY DEF TableInv, ProbeInv, Aside, Untouched, Probe
<1> QED
  BY <1>2, <1>3, <1>4, <1>5 DEF TableInv

\* All the steps but four are such steps.
LEMMA AsideSteps ==
    ASSUME TypeOK, [Next]_vars
    PROVE  \/ Aside
           \/ \E t \in Threads :
                \/ \E k \in Keys : \E f \in BOOLEAN : Put(t, k, f)
                \/ PutKey(t) \/ PutVal(t) \/ DeleteBody(t)
<1>1. calls \in Int
  BY BoundsAssumption DEF TypeOK
<1>2. CASE UNCHANGED vars
  BY <1>1, <1>2 DEF vars, Aside, PutPCs
<1>3. ASSUME NEW t \in Threads, NEW k, Get(t, k) \/ Delete(t, k) PROVE Aside
  BY <1>1, <1>3 DEF Get, Delete, LockForWriting, Goto, Call, table, Aside, PutPCs, TypeOK
<1>4. ASSUME NEW t \in Threads, ClearMap(t) \/ InvalidateMap(t) PROVE Aside
  BY <1>1, <1>4
     DEF ClearMap, InvalidateMap, LockForWriting, Goto, Call, table, Aside, PutPCs, TypeOK
<1>5. ASSUME NEW t \in Threads, PutLock(t) \/ PutFull(t) PROVE Aside
  BY <1>1, <1>5
     DEF PutLock, PutFull, LockForWriting, Goto, table, callers, Aside, PutPCs, TypeOK
<1>6. ASSUME NEW t \in Threads, EnterLock(t) \/ CountIn(t) \/ FirstReader(t) \/ EnterUnlock(t)
      PROVE Aside
  BY <1>1, <1>6
     DEF EnterLock, CountIn, FirstReader, EnterUnlock, LockFields, UnlockFields,
         LockForWriting, Goto, table, callers, Aside, PutPCs, TypeOK
<1>7. ASSUME NEW t \in Threads, ReadTable(t) PROVE Aside
  BY <1>1, <1>7 DEF ReadTable, Goto, table, Aside, PutPCs, TypeOK
<1>8. ASSUME NEW t \in Threads, LeaveLock(t) \/ CountOut(t) PROVE Aside
  BY <1>1, <1>8
     DEF LeaveLock, CountOut, LockFields, Goto, table, callers, Aside, PutPCs, TypeOK
<1>9. ASSUME NEW t \in Threads, LeaveUnlock(t) \/ WriteUnlock(t) PROVE Aside
  BY <1>1, <1>9
     DEF LeaveUnlock, WriteUnlock, UnlockFields, Return, Goto, table, Aside, PutPCs, TypeOK
<1>10. ASSUME NEW t \in Threads, ClearBody(t) \/ InvalidateBody(t) PROVE Aside
  BY <1>1, <1>10 DEF ClearBody, InvalidateBody, Goto, callers, Aside, PutPCs, TypeOK
<1>11. ASSUME NEW t \in Threads, UseAfterFree(t) PROVE Aside
  BY <1>1, <1>11 DEF UseAfterFree, table, callers, Aside, PutPCs
<1> QED
  BY <1>2, <1>3, <1>4, <1>5, <1>6, <1>7, <1>8, <1>9, <1>10, <1>11
     DEF Next, StartCall, InCall, PutStep, GetStep, WriteStep

\* A put starts: its value is new.
LEMMA PutStartKeeps ==
    ASSUME TypeOK, TableInv, NEW t \in Threads, NEW k \in Keys, NEW f \in BOOLEAN,
           Put(t, k, f)
    PROVE  TableInv'
<1>1. /\ calls \in Nat /\ calls' = calls + 1 /\ calls + 1 \in Vals
      /\ \A v \in Vals : v \in Int
  BY BoundsAssumption DEF TypeOK, Put, Call, Vals
<1>2. /\ pc[t] = "idle" /\ pc' = [pc EXCEPT ![t] = "putLock"]
      /\ req' = [req EXCEPT ![t] = [key |-> k, val |-> calls + 1, force |-> f]]
      /\ keyOf' = [keyOf EXCEPT ![calls + 1] = k]
      /\ UNCHANGED <<slots, ptr>>
  BY DEF Put, Goto, Call, table
<1>3. keyOf[calls + 1] = NoKey
  BY <1>1 DEF TableInv, HistoryInv
<1>4. \A v \in Vals : keyOf[v] # NoKey => keyOf'[v] = keyOf[v]
  BY <1>2, <1>3 DEF TypeOK
<1>5. HistoryInv'
  BY <1>1, <1>2 DEF TableInv, HistoryInv, TypeOK
<1>6. PutInv'
  <2> SUFFICES ASSUME NEW u \in Threads
               PROVE  /\ pc'[u] \in PutPCs =>
                           /\ req'[u].key \in Keys
                           /\ req'[u].val \in Vals /\ req'[u].val <= calls'
                           /\ keyOf'[req'[u].val] = req'[u].key
                      /\ pc'[u] = "putVal" => slots'[ptr'[u]].key = req'[u].key
    BY DEF PutInv
  <2>1. CASE u = t
    BY <1>1, <1>2, <2>1 DEF TypeOK
  <2>2. CASE u # t
    <3>1. pc'[u] = pc[u] /\ req'[u] = req[u]
      BY <1>2, <2>2 DEF TypeOK
    <3>2. pc[u] \in PutPCs => keyOf[req[u].val] # NoKey
      BY KeysAssumption DEF TableInv, PutInv
    <3> QED
      BY <1>1, <1>2, <1>4, <3>1, <3>2 DEF TableInv, PutInv
  <2> QED
    BY <2>1, <2>2
<1>7. SlotInv'
  <2>1. \A u \in Threads : pc[u] = "putVal" => pc'[u] = "putVal" /\ ptr'[u] = ptr[u]
    BY <1>2 DEF TypeOK
  <2>2. \A p \in Slots : slots[p].key # NoKey /\ Whole(p) => Whole(p)'
    BY <1>2, <1>4 DEF Whole, TypeOK
  <2> QED
    BY <1>2, <2>1, <2>2 DEF TableInv, SlotInv
<1>8. ProbeInv'
  BY <1>2 DEF TableInv, ProbeInv, Untouched, Probe
<1> QED
  BY <1>5, <1>6, <1>7, <1>8 DEF TableInv

\* The first write of a put: the slot is the first that could be taken, or the
\* home slot, and no other put is between its writes.
LEMMA PutKeyKeeps ==
    ASSUME TypeOK, LockInv, TableInv, NEW t \in Threads, PutKey(t)
    PROVE  TableInv'
<1> DEFINE k == req[t].key
           d == PutDistance(t)
           p == Probe(k, d)
<1>1. k \in Keys /\ k # NoKey /\ pc[t] = "putKey"
  BY KeysAssumption DEF PutKey, Goto, TableInv, PutInv, PutPCs
<1>2. /\ d \in 0 .. Capacity /\ p \in Slots
      /\ \A i \in Slots : i < d => ~Takes(slots[Probe(k, i)])
  BY <1>1, PutDistanceIn
<1>3. /\ pc' = [pc EXCEPT ![t] = "putVal"]
      /\ slots' = [slots EXCEPT ![p] = [slots[p] EXCEPT !.key = k]]
      /\ ptr' = [ptr EXCEPT ![t] = p]
      /\ UNCHANGED <<req, calls, keyOf>>
  BY DEF PutKey, Goto
<1> HIDE DEF d, p
<1>4. \A u \in Threads : pc[u] # "putVal"
  <2>1. t \in Writers
    BY <1>1 DEF Writers, WritePCs
  <2>2. \A u \in Threads : pc[u] = "putVal" => u \in Writers
    BY DEF Writers, WritePCs
  <2> QED
    BY <1>1, <2>1, <2>2 DEF LockInv, Exclusion
<1>5. \A q \in Slots : /\ q # p => slots'[q] = slots[q]
                       /\ slots'[p].key = k /\ slots'[p].val = slots[p].val
                       /\ slots'[p].tombstone = slots[p].tombstone
  BY <1>2, <1>3 DEF TypeOK
<1>6. \A q \in Slots : ~Untouched(slots[q]) => ~Untouched(slots'[q])
  BY <1>1, <1>5 DEF Untouched
<1>7. HistoryInv'
  BY <1>3 DEF TableInv, HistoryInv
<1>8. PutInv'
  <2>1. \A u \in Threads : u # t => pc'[u] = pc[u] /\ pc'[u] # "putVal"
    BY <1>3, <1>4 DEF TypeOK
  <2>2. ptr'[t] = p
    BY <1>3 DEF TypeOK
  <2>3. slots'[ptr'[t]].key = req'[t].key
    BY <1>2, <1>3, <1>5, <2>2
  <2> QED
    BY <1>1, <1>3, <2>1, <2>3 DEF TableInv, PutInv, PutPCs
<1>9. SlotInv'
  <2> SUFFICES ASSUME NEW q \in Slots
               PROVE  /\ slots'[q].key # NoKey =>
                           Whole(q)' \/ \E u \in Threads : pc'[u] = "putVal" /\ ptr'[u] = q
                      /\ slots'[q].key = NoKey => slots'[q].val = NoVal
    BY DEF SlotInv
  <2>1. CASE q = p
    BY <1>1, <1>3, <1>5, <2>1 DEF TypeOK
  <2>2. CASE q # p
    BY <1>3, <1>4, <1>5, <2>2 DEF TableInv, SlotInv, Whole
  <2> QED
    BY <2>1, <2>2
<1>10. ProbeInv'
  <2> SUFFICES ASSUME NEW kk \in Keys, NEW e \in Slots, slots'[Probe(kk, e)].key = kk,
                      NEW i \in Slots, i < e
               PROVE  ~Untouched(slots'[Probe(kk, i)])
    BY DEF ProbeInv, Probe
  <2>1. Probe(kk, e) \in Slots /\ Probe(kk, i) \in Slots
    BY ProbeIn DEF Slots
  <2>2. CASE Probe(kk, e) # p
    BY <1>5, <1>6, <2>1, <2>2 DEF TableInv, ProbeInv
  <2>3. CASE Probe(kk, e) = p
    <3>1. kk = k
      BY <1>5, <2>1, <2>3
    <3>2. d \in Slots => d = e
      BY <1>1, <2>3, <3>1, ProbeIn DEF p
    <3>3. i < d
      BY <1>2, <3>2, CapacityAssumption DEF Slots
    <3>4. ~Takes(slots[Probe(k, i)])
      BY <1>2, <3>3
    <3> QED
      BY <1>6, <2>1, <3>1, <3>4 DEF Takes, Untouched
  <2> QED
    BY <2>2, <2>3
<1> QED
  BY <1>7, <1>8, <1>9, <1>10 DEF TableInv

\* A step that leaves the keys and keeps used slots used.
LEMMA ProbesKept ==
    ASSUME TableInv, \A q \in Slots : slots'[q].key = slots[q].key,
           \A q \in Slots : ~Untouched(slots[q]) => ~Untouched(slots'[q])
    PROVE  ProbeInv'
<1>1. \A k \in Keys : \A i \in Slots : Probe(k, i) \in Slots
  BY ProbeIn DEF Slots
<1> QED
  BY <1>1 DEF TableInv, ProbeInv, Probe

\* The second write of a put makes its slot whole.
LEMMA PutValKeeps ==
    ASSUME TypeOK, TableInv, NEW t \in Threads, PutVal(t)
    PROVE  TableInv'
<1>1. PICK p \in Slots : p = ptr[t]
  BY DEF TypeOK
<1>2. /\ pc[t] = "putVal" /\ pc' = [pc EXCEPT ![t] = "writeUnlock"]
      /\ slots' = [slots EXCEPT ![p].val = req[t].val, ![p].tombstone = FALSE]
      /\ UNCHANGED <<req, ptr, calls, keyOf>>
  BY <1>1 DEF PutVal, Goto, callers
<1>3. /\ slots[p].key = req[t].key /\ req[t].key # NoKey
      /\ req[t].val \in Vals /\ keyOf[req[t].val] = req[t].key
  BY <1>1, <1>2, KeysAssumption DEF TableInv, PutInv, PutPCs
<1>4. req[t].val # NoVal
  BY <1>3 DEF Vals, NoVal
<1>5. /\ \A q \in Slots : slots'[q].key = slots[q].key
      /\ \A q \in Slots : q # p => slots'[q] = slots[q]
      /\ slots'[p].val = req[t].val
  BY <1>2 DEF TypeOK
<1>6. HistoryInv'
  BY <1>2 DEF TableInv, HistoryInv
<1>7. PutInv'
  BY <1>2, <1>5 DEF TableInv, PutInv, PutPCs, TypeOK
<1>8. SlotInv'
  <2>1. Whole(p)' /\ slots'[p].key # NoKey
    BY <1>2, <1>3, <1>4, <1>5 DEF Whole
  <2>2. \A q \in Slots : q # p =>
            ((\E u \in Threads : pc[u] = "putVal" /\ ptr[u] = q)
                => \E u \in Threads : pc'[u] = "putVal" /\ ptr'[u] = q)
    BY <1>1, <1>2 DEF TypeOK
  <2>3. \A q \in Slots : q # p =>
            /\ Whole(q) => Whole(q)'
            /\ slots'[q].key = NoKey => slots'[q].val = NoVal
    BY <1>2, <1>5 DEF TableInv, SlotInv, Whole
  <2> QED
    BY <1>5, <2>1, <2>2, <2>3 DEF TableInv, SlotInv
<1>9. ProbeInv'
  <2>1. \A q \in Slots : ~Untouched(slots[q]) => ~Untouched(slots'[q])
    BY <1>3, <1>5 DEF Untouched
  <2> QED
    BY <1>5, <2>1, ProbesKept
<1> QED
  BY <1>6, <1>7, <1>8, <1>9 DEF TableInv

\* delete turns a slot into a tombstone, or writes nothing.
LEMMA DeleteKeeps ==
    ASSUME TypeOK, TypeOK', TableInv, NEW t \in Threads, DeleteBody(t)
    PROVE  TableInv'
<1>1. /\ pc[t] = "deleteBody" /\ pc' = [pc EXCEPT ![t] = "writeUnlock"]
      /\ UNCHANGED <<req, ptr, calls, keyOf>>
  BY DEF DeleteBody, Goto, callers
<1>2. calls \in Int
  BY BoundsAssumption DEF TypeOK
<1>3. CASE UNCHANGED slots
  BY <1>1, <1>2, <1>3, AsideKeeps DEF Aside, PutPCs, TypeOK
<1>4. ASSUME NEW p \in Slots, slots' = [slots EXCEPT ![p] = Deleted(@)]
      PROVE  TableInv'
  <2>1. /\ Deleted(slots[p]) \in SlotType
        /\ Deleted(slots[p]).key = slots[p].key /\ Deleted(slots[p]).val = slots[p].val
        /\ ~Untouched(Deleted(slots[p]))
    BY DEF TypeOK, SlotType, Deleted, Untouched
  <2>2. /\ \A q \in Slots : slots'[q].key = slots[q].key /\ slots'[q].val = slots[q].val
        /\ \A q \in Slots : ~Untouched(slots[q]) => ~Untouched(slots'[q])
    BY <1>4, <2>1 DEF TypeOK
  <2>4. HistoryInv'
    BY <1>1 DEF TableInv, HistoryInv
  <2>5. PutInv'
    BY <1>1, <2>2 DEF TableInv, PutInv, PutPCs, TypeOK
  <2>6. \A u \in Threads : pc[u] = "putVal" => pc'[u] = "putVal"
    BY <1>1 DEF TypeOK
  <2>7. SlotInv'
    BY <1>1, <2>2, <2>6 DEF TableInv, SlotInv, Whole
  <2>8. ProbeInv'
    BY <2>2, ProbesKept
  <2> QED
    BY <2>4, <2>5, <2>7, <2>8 DEF TableInv
<1>5. Probe(req[t].key, StopsAt(req[t].key)) \in Slots
  BY SearchIn DEF TypeOK
<1> QED
  BY <1>3, <1>4, <1>5 DEF DeleteBody

LEMMA InitTable == Init => TableInv
<1> SUFFICES ASSUME Init PROVE TableInv
  OBVIOUS
<1>1. HistoryInv /\ PutInv
  BY DEF Init, HistoryInv, PutInv, PutPCs
<1>2. \A p \in Slots : slots[p].key = NoKey /\ slots[p].val = NoVal
  BY DEF Init, EmptySlot
<1>3. SlotInv
  BY <1>2 DEF SlotInv
<1>4. ProbeInv
  <2>1. \A k \in Keys : \A d \in Slots : Probe(k, d) \in Slots
    BY ProbeIn DEF Slots
  <2>2. \A k \in Keys : k # NoKey
    BY KeysAssumption
  <2> QED
    BY <1>2, <2>1, <2>2 DEF ProbeInv
<1> QED
  BY <1>1, <1>3, <1>4 DEF TableInv

LEMMA TableInvariant == Spec => [](TypeOK /\ LockInv /\ TableInv)
<1>1. Init => TableInv
  BY InitTable
<1>2. TypeOK /\ TypeOK' /\ LockInv /\ TableInv /\ [Next]_vars => TableInv'
  BY AsideSteps, AsideKeeps, PutStartKeeps, PutKeyKeeps, PutValKeeps, DeleteKeeps
<1> QED
  BY <1>1, <1>2, MapTypeCorrect, LockInvariant, PTL DEF Spec

\* A reader that searches the table never meets a slot between the two writes of
\* a put: the lock keeps the put out, whichever reader had taken it.
THEOREM WholeEntriesCorrect == Spec => []ReadersSeeWholeEntries
<1>1. LockInv /\ TableInv => ReadersSeeWholeEntries
  <2> SUFFICES ASSUME LockInv, TableInv, NEW t \in Threads, pc[t] = "getProbe",
                      NEW p \in Slots, slots[p].key # NoKey
               PROVE  Whole(p)
    BY DEF ReadersSeeWholeEntries, Whole
  <2>1. t \in Readers
    BY DEF Readers, ReadPCs
  <2>2. \A u \in Threads : pc[u] # "putVal"
    BY <2>1 DEF LockInv, Exclusion, Writers, WritePCs
  <2> QED
    BY <2>2 DEF TableInv, SlotInv
<1> QED
  BY <1>1, TableInvariant, PTL

\* The search for a key that some slot has stops at a slot with that key, and so
\* never short of it at an untouched one.
LEMMA SearchReaches ==
    ASSUME TypeOK, TableInv, NEW p \in Slots, NEW k, k = slots[p].key, k # NoKey
    PROVE  StopsAt(k) < Capacity /\ slots[Probe(k, StopsAt(k))].key = k
<1>1. k \in Keys
  BY DEF TypeOK
<1>2. PICK d \in Slots : Probe(k, d) = p
  BY <1>1, ProbeIn
<1> DEFINE hits == {i \in Slots :
                      LET s == slots[Probe(k, i)] IN s.key = k \/ Untouched(s)}
<1>3. hits \in SUBSET Slots /\ d \in hits /\ StopsAt(k) = Nearest(hits)
  BY <1>2 DEF StopsAt
<1>4. \A i \in hits : slots[Probe(k, i)].key = k \/ Untouched(slots[Probe(k, i)])
  OBVIOUS
<1> HIDE DEF hits
<1>5. /\ Nearest(hits) \in hits /\ Nearest(hits) \in Slots
      /\ ~(d < Nearest(hits))
  BY <1>3, NearestIn
<1>6. Nearest(hits) < Capacity /\ (Nearest(hits) < d \/ Nearest(hits) = d)
  BY <1>5, CapacityAssumption DEF Slots
<1>7. Nearest(hits) < d => ~Untouched(slots[Probe(k, Nearest(hits))])
  BY <1>1, <1>2, <1>5 DEF TableInv, ProbeInv
<1> QED
  BY <1>2, <1>3, <1>4, <1>5, <1>6, <1>7

-----------------------------------------------------------------------------
(* What get returns *)

\* The places of a get up to its return, and those where it has its result.
GetPCs  == {"getEnter", "getCount", "getFirst", "getEntered", "getProbe", "getLeave",
            "getUncount", "getLeft"}
ReadyPCs == {"getLeave", "getUncount"}

SearchesKey == \A t \in Threads : pc[t] \in GetPCs => req[t].key \in Keys

Owned(k, v) ==
    \/ v \in Vals /\ keyOf[v] = k
    \/ v = NoVal /\ \A p \in Slots : slots[p].key # k
    \/ \A p \in Slots : slots[p].key # k /\ ~Untouched(slots[p])

\* A search of a table that no put is writing finds what get promises.
LEMMA SearchOwned ==
    ASSUME TypeOK, TableInv, \A u \in Threads : pc[u] # "putVal",
           NEW k \in Keys, NEW v \in Lookups(k)
    PROVE  Owned(k, v)
<1>1. k # NoKey
  BY KeysAssumption
<1>2. CASE \A p \in Slots : slots[p].key # k
  <2>1. CASE StopsAt(k) = Capacity
    <3> DEFINE hits == {i \in Slots :
                          LET s == slots[Probe(k, i)] IN s.key = k \/ Untouched(s)}
    <3>1. hits \in SUBSET Slots /\ StopsAt(k) = Nearest(hits)
      BY DEF StopsAt
    <3>2. \A i \in Slots : Untouched(slots[Probe(k, i)]) => i \in hits
      OBVIOUS
    <3> HIDE DEF hits
    <3>3. \A i \in Slots : i < Capacity
      BY CapacityAssumption DEF Slots
    <3>4. \A i \in Slots : i \notin hits
      BY <2>1, <3>1, <3>3, NearestIn
    <3>5. \A p \in Slots : ~Untouched(slots[p])
      BY <3>2, <3>4, ProbeIn
    <3> QED
      BY <1>2, <3>5 DEF Owned
  <2>2. CASE StopsAt(k) # Capacity
    <3>1. Probe(k, StopsAt(k)) \in Slots
      BY SearchIn
    <3>2. v = NoVal
      BY <1>2, <2>2, <3>1 DEF Lookups
    <3> QED
      BY <1>2, <3>2 DEF Owned
  <2> QED
    BY <2>1, <2>2
<1>3. CASE \E p \in Slots : slots[p].key = k
  <2>1. StopsAt(k) < Capacity /\ slots[Probe(k, StopsAt(k))].key = k
    BY <1>1, <1>3, SearchReaches
  <2>2. StopsAt(k) \in 0 .. Capacity /\ Probe(k, StopsAt(k)) \in Slots
    BY SearchIn
  <2>3. v = slots[Probe(k, StopsAt(k))].val
    BY <2>1, <2>2, CapacityAssumption DEF Lookups
  <2>4. Whole(Probe(k, StopsAt(k)))
    BY <1>1, <2>1, <2>2 DEF TableInv, SlotInv
  <2>5. v \in Vals /\ keyOf[v] = k
    BY <2>1, <2>2, <2>3, <2>4 DEF Whole, TypeOK
  <2> QED
    BY <2>5 DEF Owned
<1> QED
  BY <1>2, <1>3

\* A get that has its result keeps it, and one that has begun keeps its key.
Keeps ==
    \A u \in Threads :
        /\ pc'[u] \in ReadyPCs =>
             pc[u] \in ReadyPCs /\ req'[u] = req[u] /\ result'[u] = result[u]
        /\ pc'[u] \in GetPCs =>
             req'[u].key \in Keys \/ (pc[u] \in GetPCs /\ req'[u] = req[u])

LEMMA GetsKept ==
    ASSUME TypeOK, [Next]_vars, \A t \in Threads : ~ReadTable(t)
    PROVE  Keeps
<1> USE DEF GetPCs, ReadyPCs
<1>1. CASE UNCHANGED vars
  BY <1>1 DEF vars, Keeps
<1>2. ASSUME NEW t \in Threads, NEW k \in Keys, NEW f \in BOOLEAN, Put(t, k, f)
      PROVE  Keeps
  BY <1>2 DEF Put, Goto, Call, Keeps, TypeOK
<1>3. ASSUME NEW t \in Threads, NEW k \in Keys, Get(t, k) PROVE Keeps
  BY <1>3 DEF Get, Goto, Call, Keeps, TypeOK
<1>4. ASSUME NEW t \in Threads, NEW k, Delete(t, k) PROVE Keeps
  BY <1>4 DEF Delete, LockForWriting, Goto, Call, Keeps, TypeOK
<1>5. ASSUME NEW t \in Threads, ClearMap(t) \/ InvalidateMap(t) PROVE Keeps
  BY <1>5 DEF ClearMap, InvalidateMap, LockForWriting, Goto, Call, Keeps, TypeOK
<1>6. ASSUME NEW t \in Threads, PutStep(t) PROVE Keeps
  BY <1>6 DEF PutStep, PutLock, PutKey, PutVal, PutFull, LockForWriting, Goto, callers,
              Keeps, TypeOK
<1>7. ASSUME NEW t \in Threads, EnterLock(t) \/ CountIn(t) \/ FirstReader(t) \/ EnterUnlock(t)
      PROVE  Keeps
  BY <1>7 DEF EnterLock, CountIn, FirstReader, EnterUnlock, LockFields, UnlockFields,
              LockForWriting, Goto, callers, Keeps, TypeOK
<1>8. ASSUME NEW t \in Threads, LeaveLock(t) \/ CountOut(t) PROVE Keeps
  BY <1>8 DEF LeaveLock, CountOut, LockFields, Goto, callers, Keeps, TypeOK
<1>9. ASSUME NEW t \in Threads, LeaveUnlock(t) \/ WriteUnlock(t) PROVE Keeps
  BY <1>9 DEF LeaveUnlock, WriteUnlock, UnlockFields, Return, Goto, Keeps, TypeOK
<1>10. ASSUME NEW t \in Threads, DeleteBody(t) \/ ClearBody(t) \/ InvalidateBody(t)
       PROVE  Keeps
  BY <1>10 DEF DeleteBody, ClearBody, InvalidateBody, Goto, callers, Keeps, TypeOK
<1>11. ASSUME NEW t \in Threads, UseAfterFree(t) PROVE Keeps
  BY <1>11 DEF UseAfterFree, callers, Keeps
<1> QED
  BY <1>1, <1>2, <1>3, <1>4, <1>5, <1>6, <1>7, <1>8, <1>9, <1>10, <1>11
     DEF Next, StartCall, InCall, GetStep, WriteStep

\* While a reader is inside, no step writes a slot.
LEMMA TableStaysForReaders ==
    ASSUME LockInv, TypeOK, TableInv, [Next]_vars, Readers # {}
    PROVE  /\ slots' = slots
           /\ \A v \in Vals : keyOf[v] # NoKey => keyOf'[v] = keyOf[v]
<1>1. \A u \in Threads : pc[u] \notin WritePCs
  BY DEF LockInv, Exclusion, Writers
<1>2. \A u \in Threads : ~PutKey(u) /\ ~PutVal(u) /\ ~DeleteBody(u)
  BY <1>1 DEF PutKey, PutVal, DeleteBody, Goto, WritePCs
<1>3. CASE Aside
  BY <1>3 DEF Aside
<1>4. ASSUME NEW u \in Threads, NEW k \in Keys, NEW f \in BOOLEAN, Put(u, k, f)
      PROVE  /\ slots' = slots
             /\ \A v \in Vals : keyOf[v] # NoKey => keyOf'[v] = keyOf[v]
  <2>1. slots' = slots /\ calls \in Nat /\ keyOf' = [keyOf EXCEPT ![calls + 1] = k]
    BY <1>4, BoundsAssumption DEF Put, table, TypeOK
  <2>2. \A v \in Vals : v = calls + 1 => keyOf[v] = NoKey
    BY <2>1 DEF TableInv, HistoryInv, Vals
  <2> QED
    BY <2>1, <2>2 DEF TypeOK
<1> QED
  BY <1>2, <1>3, <1>4, AsideSteps

LEMMA OwnedKept ==
    ASSUME LockInv, TypeOK, TypeOK', TableInv, SearchesKey, GetsOwnValue, [Next]_vars
    PROVE  SearchesKey' /\ GetsOwnValue'
<1>1. ASSUME NEW u \in Threads, pc[u] \in ReadyPCs, pc'[u] \in ReadyPCs,
             req'[u] = req[u], result'[u] = result[u]
      PROVE  Owned(req[u].key, result[u])'
  <2>1. Readers # {}
    BY <1>1 DEF Readers, ReadPCs, ReadyPCs
  <2>2. req[u].key \in Keys /\ req[u].key # NoKey
    BY <1>1, KeysAssumption DEF SearchesKey, GetPCs, ReadyPCs
  <2>3. Owned(req[u].key, result[u])
    BY <1>1 DEF GetsOwnValue, Owned, ReadyPCs
  <2> QED
    BY <1>1, <2>1, <2>2, <2>3, TableStaysForReaders DEF Owned, Untouched
<1>2. CASE \A t \in Threads : ~ReadTable(t)
  <2>1. Keeps
    BY <1>2, GetsKept
  <2>2. SearchesKey'
    BY <2>1 DEF Keeps, SearchesKey
  <2>3. GetsOwnValue'
    BY <1>1, <2>1 DEF Keeps, GetsOwnValue, Owned, ReadyPCs
  <2> QED
    BY <2>2, <2>3
<1>3. ASSUME NEW t \in Threads, ReadTable(t) PROVE SearchesKey' /\ GetsOwnValue'
  <2>1. /\ pc[t] = "getProbe" /\ pc' = [pc EXCEPT ![t] = "getLeave"]
        /\ \E v \in Lookups(req[t].key) : result' = [result EXCEPT ![t] = v]
        /\ UNCHANGED <<slots, keyOf, req>>
    BY <1>3 DEF ReadTable, Goto, table
  <2>2. \A u \in Threads : pc'[u] \in GetPCs => pc[u] \in GetPCs
    BY <2>1 DEF GetPCs, TypeOK
  <2>3. SearchesKey'
    BY <2>1, <2>2 DEF SearchesKey
  <2>4. t \in Readers /\ \A u \in Threads : pc[u] # "putVal"
    BY <2>1 DEF Readers, ReadPCs, LockInv, Exclusion, Writers, WritePCs
  <2>5. PICK v \in Lookups(req[t].key) : result' = [result EXCEPT ![t] = v]
    BY <2>1
  <2>6. Owned(req[t].key, v) /\ result'[t] = v
    BY <2>1, <2>4, <2>5, SearchOwned DEF SearchesKey, GetPCs, TypeOK
  <2>7. Owned(req[t].key, result[t])'
    BY <2>1, <2>6 DEF Owned, Untouched
  <2>8. ASSUME NEW u \in Threads, pc'[u] \in ReadyPCs, u # t
        PROVE  Owned(req[u].key, result[u])'
    <3>1. pc[u] \in ReadyPCs /\ req'[u] = req[u] /\ result'[u] = result[u]
      BY <2>1, <2>5, <2>8 DEF TypeOK
    <3> QED
      BY <1>1, <2>8, <3>1
  <2>9. GetsOwnValue'
    BY <2>7, <2>8 DEF GetsOwnValue, Owned, ReadyPCs
  <2> QED
    BY <2>3, <2>9
<1> QED
  BY <1>2, <1>3

\* After any calls of any threads a get returns a value of its own key, NULL only if
\* no slot has the key, and an unwritten variable only from a table without an
\* untouched slot.
THEOREM GetsOwnValueCorrect == Spec => []GetsOwnValue
<1>1. Init => SearchesKey /\ GetsOwnValue
  BY DEF Init, SearchesKey, GetsOwnValue, GetPCs
<1>2. /\ LockInv /\ TypeOK /\ TypeOK' /\ TableInv /\ [Next]_vars
      /\ SearchesKey /\ GetsOwnValue
      => SearchesKey' /\ GetsOwnValue'
  BY OwnedKept
<1> QED
  BY <1>1, <1>2, MapTypeCorrect, LockInvariant, TableInvariant, PTL DEF Spec

-----------------------------------------------------------------------------
(* What size counts *)

LiveSlots == {p \in Slots : Live(slots[p])}

LEMMA LiveFinite == IsFiniteSet(LiveSlots) /\ Cardinality(LiveSlots) \in Nat
<1>1. IsFiniteSet(Slots) /\ LiveSlots \in SUBSET Slots
  BY FS_Interval, CapacityAssumption DEF Slots, LiveSlots
<1> QED
  BY <1>1, FS_Subset, FS_CardinalityType

\* One more entry and a step of size up, or one less and a step down, modulo M.
LEMMA UpAndDown ==
    ASSUME NEW M \in Nat \ {0}, NEW s \in 0 .. M - 1, NEW n \in Nat
    PROVE  /\ (((s + 1) % M) + M - (n + 1)) % M = (s + M - n) % M
           /\ (((s + M - 1) % M) + M - (n - 1)) % M = (s + M - n) % M
<1>1. (((s + 1) % M) + M - (n + 1)) % M = (s + M - n) % M
  <2>1. CASE s + 1 < M
    <3>1. (s + 1) % M = s + 1
      BY <2>1
    <3> QED
      BY <3>1
  <2>2. CASE s + 1 = M
    <3>1. (s + 1) % M = 0
      BY <2>2
    <3>2. PICK y \in Int : y = M - (n + 1)
      OBVIOUS
    <3>3. (y + M) % M = y % M
      BY Period
    <3>4. 0 + M - (n + 1) = y /\ s + M - n = y + M
      BY <2>2, <3>2
    <3> QED
      BY <3>1, <3>3, <3>4
  <2> QED
    BY <2>1, <2>2
<1>2. (((s + M - 1) % M) + M - (n - 1)) % M = (s + M - n) % M
  <2>1. CASE s > 0
    <3>1. PICK a \in 0 .. M - 1 : a = s - 1
      BY <2>1
    <3>2. (a + M) % M = a
      BY Wraps
    <3>3. s + M - 1 = a + M /\ a + M - (n - 1) = s + M - n
      BY <3>1
    <3> QED
      BY <3>2, <3>3
  <2>2. CASE s = 0
    <3>1. (s + M - 1) % M = M - 1
      BY <2>2
    <3>2. PICK y \in Int : y = M - n
      OBVIOUS
    <3>3. (y + M) % M = y % M
      BY Period
    <3>4. M - 1 + M - (n - 1) = y + M /\ s + M - n = y
      BY <2>2, <3>2
    <3> QED
      BY <3>1, <3>3, <3>4
  <2> QED
    BY <2>1, <2>2
<1> QED
  BY <1>1, <1>2

LEMMA ErrorUnchanged ==
    ASSUME UNCHANGED size, LiveSlots' = LiveSlots PROVE SizeError' = SizeError
  BY DEF SizeError, LiveSlots

\* The key of a slot that was or becomes used decides nothing about Live.
LEMMA PutKeyLive ==
    ASSUME TypeOK, TableInv, NEW t \in Threads, PutKey(t)
    PROVE  SizeError' = SizeError
<1>1. req[t].key # NoKey /\ req[t].key \in Keys
  BY KeysAssumption DEF PutKey, Goto, TableInv, PutInv, PutPCs
<1>2. PICK p \in Slots : slots' = [slots EXCEPT ![p].key = req[t].key]
  BY <1>1, PutDistanceIn DEF PutKey
<1>3. /\ \A q \in Slots : q # p => slots'[q] = slots[q]
      /\ slots'[p].key # NoKey /\ slots'[p].val = slots[p].val
      /\ slots'[p].tombstone = slots[p].tombstone
  BY <1>1, <1>2 DEF TypeOK
<1>4. slots[p].key = NoKey => slots[p].val = NoVal
  BY DEF TableInv, SlotInv
<1>5. \A q \in Slots : Live(slots'[q]) <=> Live(slots[q])
  BY <1>3, <1>4 DEF Live
<1>6. LiveSlots' = LiveSlots
  BY <1>5 DEF LiveSlots
<1> QED
  BY <1>6, ErrorUnchanged DEF PutKey

\* A put that evicts nothing adds a live slot, and one to size.
LEMMA PutValLive ==
    ASSUME TypeOK, TableInv, NEW t \in Threads, PutVal(t), ~Live(slots[ptr[t]])
    PROVE  SizeError' = SizeError
<1>1. PICK p \in Slots : p = ptr[t]
  BY DEF TypeOK
<1>2. /\ req[t].key # NoKey /\ slots[p].key = req[t].key
      /\ req[t].val \in Vals /\ req[t].val # NoVal
  BY <1>1, KeysAssumption DEF PutVal, Goto, TableInv, PutInv, PutPCs, Vals, NoVal
<1>3. slots' = [slots EXCEPT ![p].val = req[t].val, ![p].tombstone = FALSE]
  BY <1>1 DEF PutVal
<1>4. /\ \A q \in Slots : q # p => slots'[q] = slots[q]
      /\ Live(slots'[p])
  BY <1>2, <1>3 DEF TypeOK, Live
<1>5. LiveSlots' = LiveSlots \cup {p} /\ p \notin LiveSlots
  BY <1>1, <1>4 DEF LiveSlots
<1>6. Cardinality(LiveSlots') = Cardinality(LiveSlots) + 1
  BY <1>5, LiveFinite, FS_AddElement
<1>7. size \in 0 .. SizeModulus - 1 /\ size' = (size + 1) % SizeModulus
  BY DEF TypeOK, PutVal
<1>8. (size' + SizeModulus - (Cardinality(LiveSlots) + 1)) % SizeModulus = SizeError
  BY <1>7, LiveFinite, UpAndDown, BoundsAssumption DEF SizeError, LiveSlots
<1> QED
  BY <1>6, <1>8 DEF SizeError, LiveSlots

\* A delete of a live slot takes one from the entries and one from size.
LEMMA DeleteLive ==
    ASSUME TypeOK, TableInv, NEW t \in Threads, DeleteBody(t), ~DeletesAgain(t)
    PROVE  SizeError' = SizeError
<1>1. PICK p \in Slots : p = Probe(req[t].key, StopsAt(req[t].key))
  BY SearchIn DEF TypeOK
<1>2. Live(slots[p])
  BY <1>1 DEF DeletesAgain
<1>3. CASE UNCHANGED <<slots, size>>
  BY <1>3, ErrorUnchanged DEF LiveSlots
<1>4. CASE /\ slots' = [slots EXCEPT ![p] = Deleted(@)]
           /\ size' = (size + SizeModulus - 1) % SizeModulus
  <2>1. /\ \A q \in Slots : q # p => slots'[q] = slots[q]
        /\ ~Live(slots'[p])
    BY <1>4 DEF TypeOK, Live, Deleted
  <2>2. LiveSlots' = LiveSlots \ {p} /\ p \in LiveSlots
    BY <1>2, <2>1 DEF LiveSlots
  <2>3. Cardinality(LiveSlots') = Cardinality(LiveSlots) - 1
    BY <2>2, LiveFinite, FS_RemoveElement
  <2>4. size \in 0 .. SizeModulus - 1
    BY DEF TypeOK
  <2>5. (size' + SizeModulus - (Cardinality(LiveSlots) - 1)) % SizeModulus = SizeError
    BY <1>4, <2>4, LiveFinite, UpAndDown, BoundsAssumption DEF SizeError, LiveSlots
  <2> QED
    BY <2>3, <2>5 DEF SizeError, LiveSlots
<1> QED
  BY <1>1, <1>3, <1>4 DEF DeleteBody

LEMMA SizeSteps ==
    ASSUME [Next]_vars
    PROVE  \/ UNCHANGED <<slots, size>>
           \/ \E t \in Threads :
                PutKey(t) \/ PutVal(t) \/ DeleteBody(t) \/ ClearBody(t) \/ InvalidateBody(t)
<1>1. CASE UNCHANGED vars
  BY <1>1 DEF vars
<1>2. ASSUME NEW t \in Threads, StartCall(t) PROVE UNCHANGED <<slots, size>>
  BY <1>2 DEF StartCall, Put, Get, Delete, ClearMap, InvalidateMap, table
<1>3. ASSUME NEW t \in Threads, GetStep(t) PROVE UNCHANGED <<slots, size>>
  BY <1>3 DEF GetStep, EnterLock, CountIn, FirstReader, EnterUnlock, ReadTable, LeaveLock,
              CountOut, LeaveUnlock, LockFields, UnlockFields, table
<1>4. ASSUME NEW t \in Threads,
             PutLock(t) \/ PutFull(t) \/ WriteUnlock(t) \/ UseAfterFree(t)
      PROVE  UNCHANGED <<slots, size>>
  BY <1>4 DEF PutLock, PutFull, WriteUnlock, UseAfterFree, table
<1> QED
  BY <1>1, <1>2, <1>3, <1>4 DEF Next, InCall, PutStep, WriteStep

\* Modulo its width, size moves with the number of live entries through every step
\* but the three that the code gets wrong and the two that reset it.
THEOREM SizeCorrect == Spec => SizeFollowsEntries
<1> DEFINE Follows ==
        \/ SizeError' = SizeError
        \/ \E t \in Threads :
             Evicts(t) \/ DeletesAgain(t) \/ ClearBody(t) \/ InvalidateBody(t)
<1>1. TypeOK /\ LockInv /\ TableInv /\ [Next]_vars => [Follows]_vars
  <2> SUFFICES ASSUME TypeOK, TableInv, [Next]_vars PROVE Follows
    OBVIOUS
  <2>1. CASE UNCHANGED <<slots, size>>
    <3>1. LiveSlots' = LiveSlots
      BY <2>1 DEF LiveSlots
    <3> QED
      BY <2>1, <3>1, ErrorUnchanged
  <2>2. ASSUME NEW t \in Threads, PutKey(t) PROVE Follows
    BY <2>2, PutKeyLive
  <2>3. ASSUME NEW t \in Threads, PutVal(t) PROVE Follows
    BY <2>3, PutValLive DEF Evicts
  <2>4. ASSUME NEW t \in Threads, DeleteBody(t) PROVE Follows
    BY <2>4, DeleteLive
  <2> QED
    BY <2>1, <2>2, <2>3, <2>4, SizeSteps
<1> QED
  BY <1>1, TableInvariant, PTL DEF Spec, SizeFollowsEntries

-----------------------------------------------------------------------------
(* What was put stays found, in a table from which nothing is deleted and   *)
(* with room for every value put: the use that cream makes of it.          *)

\* The values that were put, and those whose put is over.
Puts   == {v \in 1 .. calls : keyOf[v] # NoKey}
Stored == {v \in Puts : \A t \in Threads : req[t].val # v \/ pc[t] = "writeUnlock"}

\* No more values were put than the table has slots.
Few == Cardinality(Puts) <= Capacity

\* Every call has a value of its own; the calls that put nothing have no key.
CallInv ==
    /\ \A t \in Threads :
         /\ req[t].val <= calls
         /\ IF pc[t] = "idle" THEN req[t].val = NoVal ELSE req[t].val \in Vals
         /\ pc[t] \notin PutPCs \cup {"idle", "writeUnlock"} =>
              keyOf[req[t].val] = NoKey
    /\ \A t, u \in Threads : pc[t] # "idle" /\ t # u => req[t].val # req[u].val

\* A value is stored once, and not before its put has written it.
ValueInv ==
    /\ \A p, q \in Slots : slots[p].val = slots[q].val /\ slots[p].val # NoVal => p = q
    /\ \A t \in Threads : \A p \in Slots : pc[t] \in PutPCs => slots[p].val # req[t].val
    /\ \A p \in Slots : slots[p].val <= calls

\* Nothing is ever deleted.
NoDelete ==
    /\ \A p \in Slots : ~slots[p].tombstone
    /\ \A t \in Threads : pc[t] # "deleteBody"

\* The slot a put is about to fill was empty and comes after every other slot
\* with its key; each value that was put is in a slot of its key.
FullBody ==
    /\ \A t \in Threads : pc[t] = "putVal" =>
         /\ slots[ptr[t]].val = NoVal
         /\ \A d, i \in Slots :
              Probe(req[t].key, d) = ptr[t] /\ d < i =>
                  slots[Probe(req[t].key, i)].key # req[t].key
    /\ \A v \in Stored : \E p \in Slots : slots[p].val = v /\ slots[p].key = keyOf[v]

FullInv == Few => FullBody

StoredFound ==
    Few => \A v \in Stored : \A found \in Lookups(keyOf[v]) :
               found \in 1 .. calls /\ keyOf[found] = keyOf[v]

StoreInv == CallInv /\ ValueInv /\ NoDelete /\ FullInv

-----------------------------------------------------------------------------
(* The steps, as the calls and their values see them *)

CallPCs == PCs \ (PutPCs \cup {"idle", "writeUnlock", "deleteBody"})

Begins(t) ==
    /\ pc[t] = "idle" /\ calls' = calls + 1
    /\ \E to \in CallPCs : pc' = [pc EXCEPT ![t] = to]
    /\ \E k \in Keys \cup {NoKey} :
         req' = [req EXCEPT ![t] = [key |-> k, val |-> calls + 1, force |-> FALSE]]
    /\ UNCHANGED <<slots, ptr, keyOf>>

Proceeds(t) ==
    /\ pc[t] \in CallPCs
    /\ \E to \in CallPCs \cup {"writeUnlock"} : pc' = [pc EXCEPT ![t] = to]
    /\ UNCHANGED <<slots, req, ptr, calls, keyOf>>

Returns(t) ==
    /\ pc[t] \in {"writeUnlock", "getLeft"} /\ pc' = [pc EXCEPT ![t] = "idle"]
    /\ Return(t) /\ UNCHANGED slots

Rests == UNCHANGED <<slots, pc, req, ptr, calls, keyOf>>

PutMove(t) ==
    \/ \E k \in Keys : \E f \in BOOLEAN : Put(t, k, f)
    \/ PutLock(t) \/ PutKey(t) \/ PutVal(t) \/ PutFull(t)

LEMMA MoveCases ==
    ASSUME TypeOK, NoDelete, "delete" \notin Operations, [Next]_vars
    PROVE  Rests \/ \E t \in Threads : Begins(t) \/ Proceeds(t) \/ Returns(t) \/ PutMove(t)
<1> USE DEF CallPCs, PCs, ReadPCs, WritePCs, FieldsPCs, PutPCs
<1>1. CASE UNCHANGED vars
  BY <1>1 DEF vars, Rests
<1>2. ASSUME NEW t \in Threads, NEW k \in Keys, Get(t, k) PROVE Begins(t)
  <2>1. pc' = [pc EXCEPT ![t] = "getEnter"] /\ "getEnter" \in CallPCs
    BY <1>2 DEF Get, Goto
  <2> QED
    BY <1>2, <2>1 DEF Get, Goto, Call, table, Begins
<1>3. ASSUME NEW t \in Threads, ClearMap(t) \/ InvalidateMap(t) PROVE Begins(t)
  <2>1. /\ "clearBody" \in CallPCs /\ "invalidateBody" \in CallPCs
        /\ pc' = [pc EXCEPT ![t] = "clearBody"] \/ pc' = [pc EXCEPT ![t] = "invalidateBody"]
    BY <1>3 DEF ClearMap, InvalidateMap, LockForWriting, Goto
  <2> QED
    BY <1>3, <2>1 DEF ClearMap, InvalidateMap, LockForWriting, Goto, Call, table, Begins
<1>4. ASSUME NEW t \in Threads, EnterLock(t) \/ CountIn(t) \/ FirstReader(t) \/ EnterUnlock(t)
      PROVE  Proceeds(t)
  BY <1>4 DEF EnterLock, CountIn, FirstReader, EnterUnlock, LockFields, UnlockFields,
              LockForWriting, Goto, table, callers, Proceeds
<1>5. ASSUME NEW t \in Threads, ReadTable(t) \/ LeaveLock(t) \/ CountOut(t) PROVE Proceeds(t)
  BY <1>5 DEF ReadTable, LeaveLock, CountOut, LockFields, Goto, table, callers, Proceeds
<1>6. ASSUME NEW t \in Threads, ClearBody(t) \/ InvalidateBody(t) PROVE Proceeds(t)
  BY <1>6 DEF ClearBody, InvalidateBody, Goto, callers, Proceeds
<1>7. ASSUME NEW t \in Threads, LeaveUnlock(t) \/ WriteUnlock(t) PROVE Returns(t)
  BY <1>7 DEF LeaveUnlock, WriteUnlock, UnlockFields, Goto, table, Returns
<1>8. ASSUME NEW t \in Threads, UseAfterFree(t) PROVE Rests
  BY <1>8 DEF UseAfterFree, table, callers, Rests
<1>9. ASSUME NEW t \in Threads, DeleteBody(t) PROVE FALSE
  BY <1>9 DEF DeleteBody, Goto, NoDelete
<1> QED
  BY <1>1, <1>2, <1>3, <1>4, <1>5, <1>6, <1>7, <1>8, <1>9
     DEF Next, StartCall, InCall, PutStep, GetStep, WriteStep, PutMove

\* What the five steps of a put do to a call and to the table.
LEMMA PutMoves ==
    ASSUME NEW t \in Threads, PutMove(t)
    PROVE  \/ /\ pc[t] = "idle" /\ pc' = [pc EXCEPT ![t] = "putLock"] /\ calls' = calls + 1
              /\ \E k \in Keys : \E f \in BOOLEAN :
                   /\ req' = [req EXCEPT ![t] = [key |-> k, val |-> calls + 1, force |-> f]]
                   /\ keyOf' = [keyOf EXCEPT ![calls + 1] = k]
              /\ UNCHANGED <<slots, ptr>>
           \/ /\ pc[t] \in PutPCs
              /\ \E to \in PutPCs \cup {"writeUnlock"} : pc' = [pc EXCEPT ![t] = to]
              /\ UNCHANGED <<req, calls, keyOf>>
  BY DEF PutMove, Put, PutLock, PutKey, PutVal, PutFull, LockForWriting, Goto, Call,
         table, callers, PutPCs

\* A call that starts takes a number that no other call has.
FreshCall(t, to, r) ==
    /\ pc[t] = "idle" /\ calls' = calls + 1
    /\ to # "idle" /\ pc' = [pc EXCEPT ![t] = to]
    /\ to \in PutPCs \/ keyOf' = keyOf
    /\ r.val = calls + 1 /\ req' = [req EXCEPT ![t] = r]
    /\ \A v \in Vals : v <= calls => keyOf'[v] = keyOf[v]

LEMMA FreshCallKeeps ==
    ASSUME TypeOK, TypeOK', TableInv, CallInv, NEW t \in Threads, NEW to, NEW r,
           FreshCall(t, to, r)
    PROVE  CallInv'
<1>1. /\ calls \in Nat /\ calls' \in Nat /\ NoVal = 0
      /\ \A v \in Vals : v \in Nat /\ v # 0
      /\ \A u \in Threads : req[u].val \in Vals \cup {0}
      /\ calls + 1 \in Vals /\ keyOf[calls + 1] = NoKey
  BY BoundsAssumption DEF TypeOK, Vals, NoVal, TableInv, HistoryInv, FreshCall
<1>2. /\ pc'[t] = to /\ to # "idle" /\ req'[t].val = calls + 1
      /\ \A u \in Threads : u # t => pc'[u] = pc[u] /\ req'[u] = req[u]
  BY DEF FreshCall, TypeOK
<1>3. \A u \in Threads : req[u].val <= calls /\ req[u].val # calls + 1
  BY <1>1 DEF CallInv
<1>4. \A u \in Threads : req'[u].val <= calls'
  BY <1>1, <1>2, <1>3 DEF FreshCall
<1>5. \A u \in Threads : IF pc'[u] = "idle" THEN req'[u].val = NoVal ELSE req'[u].val \in Vals
  BY <1>1, <1>2 DEF CallInv
<1>6. \A u \in Threads : pc'[u] \notin PutPCs \cup {"idle", "writeUnlock"} =>
                            keyOf'[req'[u].val] = NoKey
  BY <1>1, <1>2, <1>3 DEF CallInv, FreshCall
<1>7. ASSUME NEW u \in Threads, NEW w \in Threads, pc'[u] # "idle", u # w
      PROVE  req'[u].val # req'[w].val
  BY <1>2, <1>3, <1>7 DEF CallInv
<1> QED
  BY <1>4, <1>5, <1>6, <1>7 DEF CallInv

LEMMA CallsKept ==
    ASSUME TypeOK, TypeOK', TableInv, CallInv, NoDelete, "delete" \notin Operations, [Next]_vars
    PROVE  CallInv'
<1> USE DEF CallPCs, PutPCs, PCs, ReadPCs, WritePCs, FieldsPCs
<1>1. /\ calls \in Nat /\ calls' \in Nat /\ NoVal = 0
      /\ \A v \in Vals : v \in Nat /\ v # 0
      /\ \A t \in Threads : req[t].val \in Vals \cup {0}
      /\ \A t \in Threads : pc[t] \in PutPCs => req[t].val \in Vals
  BY BoundsAssumption DEF TypeOK, Vals, NoVal, TableInv, PutInv
<1>2. calls' = calls + 1 => calls + 1 \in Vals /\ keyOf[calls + 1] = NoKey
  BY <1>1, BoundsAssumption DEF TypeOK, Vals, TableInv, HistoryInv
<1>3. CASE Rests
  BY <1>3 DEF Rests, CallInv
<1>5. ASSUME NEW t \in Threads, Begins(t) PROVE CallInv'
  <2>1. PICK k \in Keys \cup {NoKey}, to \in CallPCs :
          /\ pc' = [pc EXCEPT ![t] = to]
          /\ req' = [req EXCEPT ![t] = [key |-> k, val |-> calls + 1, force |-> FALSE]]
    BY <1>5 DEF Begins
  <2>2. FreshCall(t, to, [key |-> k, val |-> calls + 1, force |-> FALSE])
    BY <1>5, <2>1 DEF Begins, FreshCall
  <2> QED
    BY <2>2, FreshCallKeeps
<1>6. ASSUME NEW t \in Threads, Proceeds(t) PROVE CallInv'
  BY <1>1, <1>6 DEF Proceeds, CallInv, TypeOK
<1>7. ASSUME NEW t \in Threads, Returns(t) PROVE CallInv'
  <2>1. /\ pc'[t] = "idle" /\ req'[t].val = 0 /\ pc[t] # "idle"
        /\ \A u \in Threads : u # t => pc'[u] = pc[u] /\ req'[u] = req[u]
        /\ UNCHANGED <<calls, keyOf>>
    BY <1>7 DEF Returns, Return, NoRequest, NoVal, TypeOK
  <2>2. \A u \in Threads : pc[u] # "idle" => req[u].val # 0
    BY <1>1, <2>1 DEF CallInv
  <2> QED
    BY <1>1, <2>1, <2>2 DEF CallInv
<1>8. ASSUME NEW t \in Threads, PutMove(t) PROVE CallInv'
  <2>1. ASSUME NEW k \in Keys, NEW f \in BOOLEAN, pc[t] = "idle", calls' = calls + 1,
               pc' = [pc EXCEPT ![t] = "putLock"],
               req' = [req EXCEPT ![t] = [key |-> k, val |-> calls + 1, force |-> f]],
               keyOf' = [keyOf EXCEPT ![calls + 1] = k]
        PROVE  CallInv'
    <3>1. \A v \in Vals : v <= calls => keyOf'[v] = keyOf[v]
      BY <1>1, <2>1 DEF TypeOK
    <3>2. FreshCall(t, "putLock", [key |-> k, val |-> calls + 1, force |-> f])
      BY <2>1, <3>1 DEF FreshCall
    <3> QED
      BY <3>2, FreshCallKeeps
  <2>2. ASSUME pc[t] \in PutPCs, NEW to \in PutPCs \cup {"writeUnlock"},
               pc' = [pc EXCEPT ![t] = to], UNCHANGED <<req, calls, keyOf>>
        PROVE  CallInv'
    <3>1. /\ pc'[t] = to /\ to # "idle" /\ pc[t] # "idle"
          /\ \A u \in Threads : u # t => pc'[u] = pc[u]
      BY <2>2 DEF TypeOK
    <3>2. \A u \in Threads :
             /\ pc'[u] = "idle" <=> pc[u] = "idle"
             /\ pc'[u] \notin PutPCs \cup {"idle", "writeUnlock"} => pc'[u] = pc[u]
      BY <2>2, <3>1
    <3>3. req' = req /\ keyOf' = keyOf /\ calls' = calls
      BY <2>2
    <3> QED
      BY <3>2, <3>3 DEF CallInv
  <2> QED
    BY <1>8, <2>1, <2>2, PutMoves
<1> QED
  BY <1>3, <1>5, <1>6, <1>7, <1>8, MoveCases

\* Nothing makes a tombstone.
LEMMA NoDeleteKept ==
    ASSUME TypeOK, NoDelete, "delete" \notin Operations, [Next]_vars
    PROVE  NoDelete'
<1> USE DEF CallPCs, PutPCs, PCs, ReadPCs, WritePCs, FieldsPCs
<1>1. \A t \in Threads : pc'[t] # "deleteBody"
  <2>1. CASE Rests
    BY <2>1 DEF Rests, NoDelete
  <2>2. ASSUME NEW t \in Threads, Begins(t) \/ Proceeds(t) \/ Returns(t)
        PROVE  \A u \in Threads : pc'[u] # "deleteBody"
    BY <2>2 DEF Begins, Proceeds, Returns, NoDelete, TypeOK
  <2>3. ASSUME NEW t \in Threads, PutMove(t)
        PROVE  \A u \in Threads : pc'[u] # "deleteBody"
    BY <2>3, PutMoves DEF NoDelete, TypeOK
  <2> QED
    BY <2>1, <2>2, <2>3, MoveCases
<1>2. \A p \in Slots : ~slots'[p].tombstone
  <2>1. ASSUME UNCHANGED slots PROVE \A p \in Slots : ~slots'[p].tombstone
    BY <2>1 DEF NoDelete
  <2>2. ASSUME NEW t \in Threads, PutKey(t) PROVE \A p \in Slots : ~slots'[p].tombstone
    <3>1. PICK q : slots' = [slots EXCEPT ![q].key = req[t].key]
      BY <2>2 DEF PutKey
    <3> QED
      BY <3>1 DEF NoDelete, TypeOK
  <2>3. ASSUME NEW t \in Threads, PutVal(t) PROVE \A p \in Slots : ~slots'[p].tombstone
    <3>1. PICK q : slots' = [slots EXCEPT ![q].val = req[t].val, ![q].tombstone = FALSE]
      BY <2>3 DEF PutVal
    <3> QED
      BY <3>1 DEF NoDelete, TypeOK
  <2> QED
    BY <2>1, <2>2, <2>3, MoveCases
       DEF Rests, Begins, Proceeds, Returns, PutMove, Put, PutLock, PutFull, table
<1> QED
  BY <1>1, <1>2 DEF NoDelete

\* A value is written once: by the put that carries it.
LEMMA ValuesKept ==
    ASSUME TypeOK, TypeOK', TableInv, CallInv, ValueInv, NoDelete,
           "delete" \notin Operations, [Next]_vars
    PROVE  ValueInv'
<1> USE DEF CallPCs, PutPCs, PCs, ReadPCs, WritePCs, FieldsPCs
<1>1. /\ calls \in Nat /\ NoVal = 0 /\ \A v \in Vals : v \in Nat /\ v # 0
      /\ \A p \in Slots : slots[p].val \in Vals \cup {0}
      /\ \A t \in Threads : req[t].val \in Vals \cup {0}
  BY BoundsAssumption DEF TypeOK, Vals, NoVal
<1>2. ASSUME UNCHANGED slots, calls' \in {calls, calls + 1},
             \A t \in Threads : pc'[t] \in PutPCs =>
                 (pc[t] \in PutPCs /\ req'[t] = req[t]) \/ req'[t].val = calls + 1
      PROVE  ValueInv'
  <2>1. \A p \in Slots : slots'[p].val <= calls' /\ slots'[p].val # calls + 1
    BY <1>1, <1>2 DEF ValueInv
  <2> QED
    BY <1>2, <2>1 DEF ValueInv
<1>3. CASE Rests
  BY <1>2, <1>3 DEF Rests
<1>4. ASSUME NEW t \in Threads, Begins(t) \/ Proceeds(t) \/ Returns(t) PROVE ValueInv'
  BY <1>2, <1>4 DEF Begins, Proceeds, Returns, Return, TypeOK
<1>5. ASSUME NEW t \in Threads, NEW k \in Keys, NEW f \in BOOLEAN, Put(t, k, f)
      PROVE  ValueInv'
  BY <1>2, <1>5 DEF Put, Goto, Call, table, TypeOK
<1>6. ASSUME NEW t \in Threads, PutLock(t) \/ PutFull(t) PROVE ValueInv'
  BY <1>2, <1>6 DEF PutLock, PutFull, LockForWriting, Goto, table, callers, TypeOK
<1>7. ASSUME NEW t \in Threads, PutKey(t) PROVE ValueInv'
  <2>1. PICK q : slots' = [slots EXCEPT ![q].key = req[t].key]
    BY <1>7 DEF PutKey
  <2>2. \A p \in Slots : slots'[p].val = slots[p].val
    BY <2>1 DEF TypeOK
  <2>3. UNCHANGED <<req, calls>> /\ \A u \in Threads : pc'[u] \in PutPCs => pc[u] \in PutPCs
    BY <1>7 DEF PutKey, Goto, TypeOK
  <2> QED
    BY <2>2, <2>3 DEF ValueInv
<1>8. ASSUME NEW t \in Threads, PutVal(t) PROVE ValueInv'
  <2>1. PICK q \in Slots :
          slots' = [slots EXCEPT ![q].val = req[t].val, ![q].tombstone = FALSE]
    BY <1>8 DEF PutVal, TypeOK
  <2>2. slots'[q].val = req[t].val /\ \A p \in Slots : p # q => slots'[p] = slots[p]
    BY <2>1 DEF TypeOK
  <2>3. /\ UNCHANGED <<req, calls>> /\ pc[t] \in PutPCs /\ pc[t] # "idle"
        /\ \A u \in Threads : pc'[u] \in PutPCs => pc[u] \in PutPCs /\ u # t
    BY <1>8 DEF PutVal, Goto, callers, TypeOK
  <2>4. \A p \in Slots : slots[p].val # req[t].val
    BY <2>3 DEF ValueInv
  <2>5. \A u \in Threads : u # t => req[u].val # req[t].val
    BY <2>3 DEF CallInv
  <2>6. req[t].val <= calls
    BY DEF CallInv
  <2>7. \A p, r \in Slots : slots'[p].val = slots'[r].val /\ slots'[p].val # NoVal => p = r
    BY <2>2, <2>4 DEF ValueInv
  <2>8. \A u \in Threads : \A p \in Slots : pc'[u] \in PutPCs => slots'[p].val # req'[u].val
    BY <2>2, <2>3, <2>5 DEF ValueInv
  <2>9. \A p \in Slots : slots'[p].val <= calls'
    BY <2>2, <2>3, <2>6 DEF ValueInv
  <2> QED
    BY <2>7, <2>8, <2>9 DEF ValueInv
<1> QED
  BY <1>3, <1>4, <1>5, <1>6, <1>7, <1>8, MoveCases DEF PutMove

-----------------------------------------------------------------------------
(* A table with room for every value put *)

LEMMA PutsFinite == ASSUME TypeOK PROVE IsFiniteSet(Puts) /\ Cardinality(Puts) \in Nat
<1>1. IsFiniteSet(1 .. calls) /\ Puts \in SUBSET (1 .. calls)
  BY FS_Interval DEF TypeOK, Puts
<1> QED
  BY <1>1, FS_Subset, FS_CardinalityType

\* A put that is about to choose its slot finds an empty one: the values in the
\* table are distinct, and its own is not among them.
LEMMA RoomLeft ==
    ASSUME TypeOK, LockInv, TableInv, ValueInv, Few, NEW t \in Threads, pc[t] = "putKey"
    PROVE  \E p \in Slots : slots[p].key = NoKey
<1> SUFFICES ASSUME \A p \in Slots : slots[p].key # NoKey PROVE FALSE
  OBVIOUS
<1>1. /\ req[t].key \in Keys /\ req[t].val \in Vals /\ req[t].val <= calls
      /\ keyOf[req[t].val] # NoKey
  BY KeysAssumption DEF TableInv, PutInv, PutPCs
<1>2. req[t].val \in Puts
  BY <1>1 DEF Puts, Vals, TypeOK
<1>3. \A u \in Threads : pc[u] # "putVal"
  <2>1. t \in Writers /\ \A u \in Threads : pc[u] = "putVal" => u \in Writers
    BY DEF Writers, WritePCs
  <2> QED
    BY <2>1 DEF LockInv, Exclusion
<1>4. \A p \in Slots : Whole(p)
  BY <1>3 DEF TableInv, SlotInv
<1> DEFINE Others == Puts \ {req[t].val}
           value  == [p \in Slots |-> slots[p].val]
<1>5. value \in [Slots -> Others]
  <2> SUFFICES ASSUME NEW p \in Slots PROVE slots[p].val \in Others
    OBVIOUS
  <2>1. slots[p].val # NoVal /\ keyOf[slots[p].val] # NoKey
    BY <1>4 DEF Whole
  <2>2. slots[p].val \in 1 .. calls
    BY <2>1 DEF ValueInv, TypeOK, Vals
  <2>3. slots[p].val # req[t].val
    BY DEF ValueInv, PutPCs
  <2> QED
    BY <2>1, <2>2, <2>3 DEF Puts
<1>6. IsFiniteSet(Puts) /\ Cardinality(Puts) \in Nat /\ Cardinality(Puts) <= Capacity
  BY PutsFinite DEF Few
<1>7. IsFiniteSet(Others) /\ Cardinality(Others) = Cardinality(Puts) - 1
  BY <1>2, <1>6, FS_RemoveElement
<1>8. IsFiniteSet(Slots) /\ Cardinality(Slots) = Capacity
  BY FS_Interval, CapacityAssumption DEF Slots
<1>9. \E p, q \in Slots : p # q /\ value[p] = value[q]
  <2> HIDE DEF Others, value
  <2>1. Cardinality(Others) < Cardinality(Slots)
    BY <1>6, <1>7, <1>8, CapacityAssumption
  <2> QED
    BY <1>5, <1>7, <1>8, <2>1, FS_PigeonHole
<1> QED
  BY <1>4, <1>9 DEF ValueInv, Whole

\* So its search ends at an empty slot, after which no slot has its key.
LEMMA PutTakesEmpty ==
    ASSUME TypeOK, LockInv, TableInv, ValueInv, NoDelete, Few,
           NEW t \in Threads, pc[t] = "putKey"
    PROVE  LET k == req[t].key
               d == PutDistance(t)
           IN  /\ d \in Slots /\ Probe(k, d) \in Slots
               /\ slots[Probe(k, d)].key = NoKey /\ slots[Probe(k, d)].val = NoVal
               /\ \A i \in Slots : d < i => slots[Probe(k, i)].key # k
<1> DEFINE k == req[t].key
           d == PutDistance(t)
<1>1. k \in Keys
  BY DEF TableInv, PutInv, PutPCs
<1>2. PICK p \in Slots : slots[p].key = NoKey
  BY RoomLeft
<1>3. PICK e \in Slots : Probe(k, e) = p
  BY <1>1, ProbeIn
<1>4. /\ d \in 0 .. Capacity /\ Probe(k, d) \in Slots
      /\ d < Capacity => Takes(slots[Probe(k, d)])
      /\ \A i \in Slots : i < d => ~Takes(slots[Probe(k, i)])
  BY <1>1, PutDistanceIn
<1>5. Takes(slots[p])
  BY <1>2 DEF Takes
<1> HIDE DEF d
<1>6. ~(e < d)
  BY <1>3, <1>4, <1>5
<1>7. d \in Slots /\ d < Capacity
  BY <1>4, <1>6, CapacityAssumption DEF Slots
<1>8. slots[Probe(k, d)].key = NoKey /\ Untouched(slots[Probe(k, d)])
  BY <1>4, <1>7 DEF Takes, Untouched, NoDelete
<1>9. slots[Probe(k, d)].val = NoVal
  BY <1>4, <1>8 DEF TableInv, SlotInv
<1>10. \A i \in Slots : d < i => slots[Probe(k, i)].key # k
  BY <1>1, <1>7, <1>8 DEF TableInv, ProbeInv
<1> QED
  BY <1>4, <1>7, <1>8, <1>9, <1>10 DEF d

\* A step other than the second write of a put, or its refusal, ends no put.
LEMMA StoredBefore ==
    ASSUME TypeOK, TypeOK', TableInv, CallInv, NoDelete, "delete" \notin Operations,
           [Next]_vars, \A t \in Threads : ~PutVal(t) /\ ~PutFull(t)
    PROVE  \A v \in Stored' : v \in Stored /\ keyOf'[v] = keyOf[v]
<1> USE DEF CallPCs, PutPCs, PCs, ReadPCs, WritePCs, FieldsPCs
<1> SUFFICES ASSUME NEW v \in Stored' PROVE v \in Stored /\ keyOf'[v] = keyOf[v]
  OBVIOUS
<1>1. /\ v \in 1 .. calls' /\ keyOf'[v] # NoKey
      /\ \A u \in Threads : req'[u].val # v \/ pc'[u] = "writeUnlock"
  BY DEF Stored, Puts
<1>2. /\ calls \in Nat /\ NoVal = 0 /\ v \in Nat /\ v # 0 /\ calls' \in Nat
      /\ v \in Vals
  BY <1>1, BoundsAssumption DEF TypeOK, Vals, NoVal
<1>3. ASSUME UNCHANGED keyOf,
             \A u \in Threads : pc'[u] # pc[u] \/ req'[u] # req[u] =>
                \/ req[u].val # v
                \/ pc[u] = "writeUnlock"
                \/ pc'[u] \in PutPCs /\ req'[u] = req[u]
      PROVE  v \in Stored /\ keyOf'[v] = keyOf[v]
  <2>1. v <= calls
    BY <1>1, <1>2, <1>3 DEF TableInv, HistoryInv
  <2>2. \A u \in Threads : req[u].val # v \/ pc[u] = "writeUnlock"
    BY <1>1, <1>3
  <2> QED
    BY <1>1, <1>2, <1>3, <2>1, <2>2 DEF Stored, Puts
<1>4. CASE Rests
  BY <1>3, <1>4 DEF Rests
<1>5. ASSUME NEW t \in Threads, Begins(t) PROVE v \in Stored /\ keyOf'[v] = keyOf[v]
  <2>1. req[t].val # v
    BY <1>2, <1>5 DEF Begins, CallInv
  <2> QED
    BY <1>3, <1>5, <2>1 DEF Begins, TypeOK
<1>6. ASSUME NEW t \in Threads, Proceeds(t) \/ Returns(t)
      PROVE  v \in Stored /\ keyOf'[v] = keyOf[v]
  <2>1. keyOf' = keyOf /\ (req[t].val # v \/ pc[t] = "writeUnlock")
    BY <1>1, <1>6 DEF Proceeds, Returns, Return, CallInv
  <2> QED
    BY <1>3, <1>6, <2>1 DEF Proceeds, Returns, Return, TypeOK
<1>7. ASSUME NEW t \in Threads, PutLock(t) \/ PutKey(t)
      PROVE  v \in Stored /\ keyOf'[v] = keyOf[v]
  BY <1>3, <1>7 DEF PutLock, PutKey, LockForWriting, Goto, callers, TypeOK
<1>8. ASSUME NEW t \in Threads, NEW k \in Keys, NEW f \in BOOLEAN, Put(t, k, f)
      PROVE  v \in Stored /\ keyOf'[v] = keyOf[v]
  <2>1. /\ pc[t] = "idle" /\ pc'[t] = "putLock" /\ req'[t].val = calls + 1
        /\ calls' = calls + 1 /\ keyOf' = [keyOf EXCEPT ![calls + 1] = k]
        /\ \A u \in Threads : u # t => pc'[u] = pc[u] /\ req'[u] = req[u]
    BY <1>8 DEF Put, Goto, Call, TypeOK
  <2>2. v # calls + 1 /\ v <= calls
    BY <1>1, <1>2, <2>1
  <2>3. keyOf'[v] = keyOf[v]
    BY <1>2, <2>1, <2>2 DEF TypeOK
  <2>4. req[t].val # v
    BY <1>2, <2>1 DEF CallInv
  <2> QED
    BY <1>1, <1>2, <2>1, <2>2, <2>3, <2>4 DEF Stored, Puts
<1> QED
  BY <1>4, <1>5, <1>6, <1>7, <1>8, MoveCases DEF PutMove

\* Values are put, never taken back.
LEMMA FewBefore ==
    ASSUME TypeOK, TypeOK', TableInv, NoDelete, "delete" \notin Operations, [Next]_vars, Few'
    PROVE  Few
<1> USE DEF CallPCs, PutPCs, PCs, ReadPCs, WritePCs, FieldsPCs
<1>1. ASSUME calls' \in {calls, calls + 1},
             keyOf' = keyOf \/ \E k \in Keys : keyOf' = [keyOf EXCEPT ![calls + 1] = k]
      PROVE  Puts \subseteq Puts'
  <2>1. \A v \in 1 .. calls : v \in 1 .. calls' /\ v \in Vals /\ v # calls + 1
    BY <1>1, BoundsAssumption DEF TypeOK, Vals
  <2>2. \A v \in 1 .. calls : keyOf'[v] = keyOf[v]
    BY <1>1, <2>1 DEF TypeOK
  <2> QED
    BY <2>1, <2>2 DEF Puts
<1>2. Puts \subseteq Puts'
  <2>1. CASE Rests
    BY <1>1, <2>1 DEF Rests
  <2>2. ASSUME NEW t \in Threads, Begins(t) \/ Proceeds(t) \/ Returns(t)
        PROVE  Puts \subseteq Puts'
    BY <1>1, <2>2 DEF Begins, Proceeds, Returns, Return
  <2>3. ASSUME NEW t \in Threads, PutMove(t) PROVE Puts \subseteq Puts'
    BY <1>1, <2>3, PutMoves
  <2> QED
    BY <2>1, <2>2, <2>3, MoveCases
<1>3. IsFiniteSet(Puts') /\ Cardinality(Puts') \in Nat
  <2>1. IsFiniteSet(1 .. calls') /\ Puts' \in SUBSET (1 .. calls')
    BY FS_Interval DEF TypeOK, Puts
  <2> QED
    BY <2>1, FS_Subset, FS_CardinalityType
<1>4. Cardinality(Puts) <= Cardinality(Puts') /\ Cardinality(Puts) \in Nat
  BY <1>2, <1>3, PutsFinite, FS_Subset
<1> QED
  BY <1>3, <1>4, CapacityAssumption DEF Few

\* The first write of a put takes an empty slot.
LEMMA PutKeyFills ==
    ASSUME TypeOK, TypeOK', LockInv, TableInv, CallInv, ValueInv, NoDelete, Few, FullBody,
           "delete" \notin Operations, [Next]_vars, NEW t \in Threads, PutKey(t),
           \A v \in Stored' : v \in Stored /\ keyOf'[v] = keyOf[v]
    PROVE  FullBody'
<1> DEFINE k == req[t].key
           d == PutDistance(t)
           p == Probe(k, d)
<1>1. /\ d \in Slots /\ p \in Slots /\ slots[p].key = NoKey /\ slots[p].val = NoVal
      /\ \A i \in Slots : d < i => slots[Probe(k, i)].key # k
  BY PutTakesEmpty DEF PutKey, Goto
<1>2. /\ pc[t] = "putKey" /\ pc' = [pc EXCEPT ![t] = "putVal"]
      /\ slots' = [slots EXCEPT ![p] = [slots[p] EXCEPT !.key = k]]
      /\ ptr' = [ptr EXCEPT ![t] = p]
      /\ UNCHANGED <<req, calls, keyOf>>
  BY DEF PutKey, Goto
<1>3. k \in Keys /\ k # NoKey
  BY <1>2, KeysAssumption DEF TableInv, PutInv, PutPCs
<1> HIDE DEF p, d, k
<1>4. /\ slots'[p].key = k /\ slots'[p].val = NoVal
      /\ \A q \in Slots : q # p => slots'[q] = slots[q]
  BY <1>1, <1>2 DEF TypeOK
<1>5. \A u \in Threads : pc[u] # "putVal"
  <2>1. t \in Writers /\ \A u \in Threads : pc[u] = "putVal" => u \in Writers
    BY <1>2 DEF Writers, WritePCs
  <2> QED
    BY <1>2, <2>1 DEF LockInv, Exclusion
<1>6. \A u \in Threads : pc'[u] = "putVal" => u = t /\ ptr'[u] = p /\ req'[u].key = k
  BY <1>2, <1>5 DEF TypeOK, k
<1>7. ASSUME NEW e \in Slots, NEW i \in Slots, Probe(k, e) = p, e < i
      PROVE  slots'[Probe(k, i)].key # k
  <2>1. e = d /\ Probe(k, i) \in Slots /\ Probe(k, i) # p
    BY <1>1, <1>3, <1>7, ProbeIn DEF p, Slots
  <2> QED
    BY <1>1, <1>4, <1>7, <2>1
<1>8. ASSUME NEW v \in Stored'
      PROVE  \E q \in Slots : slots'[q].val = v /\ slots'[q].key = keyOf'[v]
  <2>1. v \in Stored /\ keyOf'[v] = keyOf[v] /\ v # NoVal
    BY DEF Stored, Puts, NoVal
  <2>2. PICK q \in Slots : slots[q].val = v /\ slots[q].key = keyOf[v]
    BY <2>1 DEF FullBody
  <2>3. q # p
    BY <1>1, <2>1, <2>2
  <2> QED
    BY <1>4, <2>1, <2>2, <2>3
<1>9. ASSUME NEW u \in Threads, pc'[u] = "putVal"
      PROVE  /\ slots'[ptr'[u]].val = NoVal
             /\ \A e, i \in Slots : Probe(req'[u].key, e) = ptr'[u] /\ e < i =>
                    slots'[Probe(req'[u].key, i)].key # req'[u].key
  BY <1>4, <1>6, <1>7, <1>9
<1> QED
  BY <1>8, <1>9 DEF FullBody, Probe

\* The second write of a put stores its value and loses none.
LEMMA PutValFills ==
    ASSUME TypeOK, TypeOK', LockInv, TableInv, CallInv, ValueInv, NoDelete, FullBody,
           NEW t \in Threads, PutVal(t)
    PROVE  FullBody'
<1>1. PICK p \in Slots : p = ptr[t]
  BY DEF TypeOK
<1>2. /\ pc[t] = "putVal" /\ pc' = [pc EXCEPT ![t] = "writeUnlock"]
      /\ slots' = [slots EXCEPT ![p].val = req[t].val, ![p].tombstone = FALSE]
      /\ UNCHANGED <<req, ptr, calls, keyOf>>
  BY <1>1 DEF PutVal, Goto, callers
<1>3. slots[p].val = NoVal /\ slots[p].key = req[t].key /\ keyOf[req[t].val] = req[t].key
  BY <1>1, <1>2 DEF FullBody, TableInv, PutInv, PutPCs
<1>4. /\ slots'[p].val = req[t].val /\ slots'[p].key = slots[p].key
      /\ \A q \in Slots : q # p => slots'[q] = slots[q]
  BY <1>2 DEF TypeOK
<1>5. \A u \in Threads : pc'[u] # "putVal"
  <2>1. t \in Writers /\ \A u \in Threads : pc[u] = "putVal" => u \in Writers
    BY <1>2 DEF Writers, WritePCs
  <2> QED
    BY <1>2, <2>1 DEF LockInv, Exclusion, TypeOK
<1>6. ASSUME NEW v \in Stored'
      PROVE  \E q \in Slots : slots'[q].val = v /\ slots'[q].key = keyOf'[v]
  <2>1. CASE v = req[t].val
    BY <1>2, <1>3, <1>4, <2>1
  <2>2. CASE v # req[t].val
    <3>1. v \in Stored /\ v # NoVal
      BY <1>2, <2>2 DEF Stored, Puts, NoVal, TypeOK
    <3>2. PICK q \in Slots : slots[q].val = v /\ slots[q].key = keyOf[v]
      BY <3>1 DEF FullBody
    <3> QED
      BY <1>2, <1>3, <1>4, <3>1, <3>2
  <2> QED
    BY <2>1, <2>2
<1> QED
  BY <1>5, <1>6 DEF FullBody

LEMMA FullKept ==
    ASSUME TypeOK, TypeOK', LockInv, TableInv, CallInv, ValueInv, NoDelete, FullInv,
           "delete" \notin Operations, [Next]_vars
    PROVE  FullInv'
<1> SUFFICES ASSUME Few' PROVE FullBody'
  BY DEF FullInv
<1>1. Few /\ FullBody
  BY FewBefore DEF FullInv
<1>2. ASSUME NEW t \in Threads, PutVal(t) PROVE FullBody'
  BY <1>1, <1>2, PutValFills
<1>3. \A t \in Threads : ~PutFull(t)
  <2> SUFFICES ASSUME NEW t \in Threads, PutFull(t) PROVE FALSE
    OBVIOUS
  <2>1. pc[t] = "putKey" /\ PutDistance(t) = Capacity
    BY DEF PutFull, Goto
  <2> QED
    BY <1>1, <2>1, PutTakesEmpty, CapacityAssumption DEF Slots
<1>4. CASE \A t \in Threads : ~PutVal(t)
  <2>1. \A v \in Stored' : v \in Stored /\ keyOf'[v] = keyOf[v]
    BY <1>3, <1>4, StoredBefore
  <2>2. ASSUME NEW t \in Threads, PutKey(t) PROVE FullBody'
    BY <1>1, <2>1, <2>2, PutKeyFills
  <2>3. ASSUME UNCHANGED slots,
               \A u \in Threads : pc'[u] = "putVal" =>
                   pc[u] = "putVal" /\ req'[u] = req[u] /\ ptr'[u] = ptr[u]
        PROVE  FullBody'
    BY <1>1, <2>1, <2>3 DEF FullBody, Probe
  <2> USE DEF CallPCs, PutPCs, PCs, ReadPCs, WritePCs, FieldsPCs
  <2>4. CASE Rests
    BY <2>3, <2>4 DEF Rests
  <2>5. ASSUME NEW t \in Threads, Begins(t) \/ Proceeds(t) \/ Returns(t) PROVE FullBody'
    BY <2>3, <2>5 DEF Begins, Proceeds, Returns, Return, TypeOK
  <2>6. ASSUME NEW t \in Threads, NEW k \in Keys, NEW f \in BOOLEAN, Put(t, k, f)
        PROVE  FullBody'
    BY <2>3, <2>6 DEF Put, Goto, Call, table, TypeOK
  <2>7. ASSUME NEW t \in Threads, PutLock(t) PROVE FullBody'
    BY <2>3, <2>7 DEF PutLock, LockForWriting, Goto, table, callers, TypeOK
  <2> QED
    BY <1>3, <1>4, <2>2, <2>4, <2>5, <2>6, <2>7, MoveCases DEF PutMove
<1> QED
  BY <1>2, <1>4

LEMMA InitStore == Init => StoreInv
<1> SUFFICES ASSUME Init PROVE StoreInv
  OBVIOUS
<1>1. CallInv
  BY DEF Init, CallInv, NoRequest, NoVal
<1>2. ValueInv /\ NoDelete
  BY DEF Init, ValueInv, NoDelete, EmptySlot, NoVal, PutPCs
<1>3. FullInv
  <2>1. Stored = {}
    BY DEF Init, Stored, Puts
  <2> QED
    BY <2>1 DEF Init, FullInv, FullBody
<1> QED
  BY <1>1, <1>2, <1>3 DEF StoreInv

LEMMA StoreInvariant ==
    "delete" \notin Operations => (Spec => [](TypeOK /\ TableInv /\ StoreInv))
<1> SUFFICES ASSUME "delete" \notin Operations
             PROVE  Spec => [](TypeOK /\ TableInv /\ StoreInv)
  OBVIOUS
<1>1. Init => StoreInv
  BY InitStore
<1>2. TypeOK /\ TypeOK' /\ LockInv /\ TableInv /\ StoreInv /\ [Next]_vars => StoreInv'
  BY CallsKept, ValuesKept, NoDeleteKept, FullKept DEF StoreInv
<1> QED
  BY <1>1, <1>2, TableInvariant, PTL DEF Spec

\* As long as nothing is deleted and no more values were put than the table has
\* slots, a search for the key of a value whose put is over finds a value of that
\* key, at any moment: during another put of the same key too.
THEOREM StoredValuesFound == "delete" \notin Operations => (Spec => []StoredFound)
<1> SUFFICES ASSUME "delete" \notin Operations PROVE Spec => []StoredFound
  OBVIOUS
<1>1. TypeOK /\ TableInv /\ StoreInv => StoredFound
  <2> SUFFICES ASSUME TypeOK, TableInv, StoreInv, Few,
                      NEW v \in Stored, NEW found \in Lookups(keyOf[v])
               PROVE  found \in 1 .. calls /\ keyOf[found] = keyOf[v]
    BY DEF StoredFound
  <2>1. PICK k \in Keys : k = keyOf[v] /\ k # NoKey
    <3>1. v \in Vals /\ keyOf[v] # NoKey
      BY BoundsAssumption DEF Stored, Puts, TypeOK, Vals
    <3> QED
      BY <3>1 DEF TypeOK
  <2>2. FullBody
    BY DEF StoreInv, FullInv
  <2>3. PICK p \in Slots : slots[p].val = v /\ slots[p].key = k
    BY <2>1, <2>2 DEF FullBody
  <2>4. StopsAt(k) < Capacity /\ slots[Probe(k, StopsAt(k))].key = k
    BY <2>1, <2>3, SearchReaches
  <2>5. PICK e \in Slots : e = StopsAt(k) /\ Probe(k, e) \in Slots
    BY <2>1, <2>4, SearchIn, CapacityAssumption DEF Slots
  <2>6. found = slots[Probe(k, e)].val
    BY <2>1, <2>4, <2>5, CapacityAssumption DEF Lookups, Slots
  <2>7. ASSUME NEW t \in Threads, pc[t] = "putVal", ptr[t] = Probe(k, e) PROVE FALSE
    <3>1. req[t].key = k /\ slots[Probe(k, e)].val = NoVal
      BY <2>2, <2>4, <2>5, <2>7 DEF TableInv, PutInv, FullBody
    <3>2. PICK d \in Slots : Probe(k, d) = p
      BY <2>1, ProbeIn
    <3>3. d # e
      BY <2>3, <3>1, <3>2 DEF Stored, Puts, NoVal
    <3>4. ~(e < d)
      BY <2>2, <2>3, <2>7, <3>1, <3>2 DEF FullBody
    <3>5. ~(d < e)
      <4> DEFINE hits == {i \in Slots :
                            LET s == slots[Probe(k, i)] IN s.key = k \/ Untouched(s)}
      <4>1. hits \in SUBSET Slots /\ d \in hits /\ e = Nearest(hits)
        BY <2>3, <2>5, <3>2 DEF StopsAt
      <4> HIDE DEF hits
      <4> QED
        BY <4>1, NearestIn
    <3> QED
      BY <3>3, <3>4, <3>5 DEF Slots
  <2>8. Whole(Probe(k, e))
    BY <2>1, <2>4, <2>5, <2>7 DEF TableInv, SlotInv
  <2>9. found # NoVal /\ keyOf[found] = k
    BY <2>4, <2>5, <2>6, <2>8 DEF Whole
  <2>10. found \in 1 .. calls
    BY <2>5, <2>6, <2>9 DEF StoreInv, ValueInv, TypeOK, Vals, NoVal
  <2> QED
    BY <2>1, <2>9, <2>10
<1> QED
  BY <1>1, StoreInvariant, PTL
=================================================================================
