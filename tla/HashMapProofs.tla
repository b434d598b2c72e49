----------------------------- MODULE HashMapProofs -----------------------------
(***************************************************************************)
(* Proofs about the lock protocol of the hash map, for any set of threads  *)
(* and any table.                                                          *)
(***************************************************************************)
EXTENDS HashMapProps, FiniteSetTheorems, TLAPS

\* The types of what the lock protocol is made of.
LockTypes ==
    /\ num_readers \in Int
    /\ fields_lock \in Threads \cup {NoThread}
    /\ write_lock \in Threads \cup {NoThread}
    /\ pc \in [Threads -> PCs]

\* The steps that use neither num_readers nor the mutexes, by what they do to
\* the program counter of the thread that takes them.
QuietMoves ==
    {<<"idle", "putLock">>, <<"idle", "getEnter">>,
     <<"putKey", "putVal">>, <<"putKey", "writeUnlock">>, <<"putVal", "writeUnlock">>,
     <<"getProbe", "getLeave">>, <<"deleteBody", "writeUnlock">>,
     <<"clearBody", "writeUnlock">>, <<"invalidateBody", "writeUnlock">>}

QuietMove(t) ==
    /\ \E m \in QuietMoves : pc[t] = m[1] /\ pc' = [pc EXCEPT ![t] = m[2]]
    /\ UNCHANGED locks

\* The steps that take write_lock for writing.
WriteMoves ==
    {<<"putLock", "putKey">>, <<"idle", "deleteBody">>, <<"idle", "clearBody">>,
     <<"idle", "invalidateBody">>}

WriteMove(t) == \E m \in WriteMoves : LockForWriting(t, m[1], m[2])

\* The lock protocol of a step: every step is one of these.
LockStep(t) ==
    \/ QuietMove(t)
    \/ WriteMove(t)
    \/ WriteUnlock(t)
    \/ EnterLock(t) \/ CountIn(t) \/ FirstReader(t) \/ EnterUnlock(t)
    \/ LeaveLock(t) \/ CountOut(t) \/ LeaveUnlock(t)

LEMMA LockSteps ==
    ASSUME [Next]_vars
    PROVE  UNCHANGED <<pc, locks>> \/ \E t \in Threads : LockStep(t)
<1>1. CASE UNCHANGED vars
  BY <1>1 DEF vars, locks
<1>2. ASSUME NEW t \in Threads, StartCall(t) PROVE LockStep(t)
  <2>1. ASSUME NEW k, NEW f, Put(t, k, f) PROVE QuietMove(t)
    BY <2>1 DEF Put, Goto, QuietMove, QuietMoves
  <2>2. ASSUME NEW k, Get(t, k) PROVE QuietMove(t)
    BY <2>2 DEF Get, Goto, QuietMove, QuietMoves
  <2>3. ASSUME NEW k, Delete(t, k) PROVE WriteMove(t)
    BY <2>3 DEF Delete, WriteMove, WriteMoves
  <2>4. CASE ClearMap(t)
    BY <2>4 DEF ClearMap, LockStep, WriteMove, WriteMoves
  <2>5. CASE InvalidateMap(t)
    BY <2>5 DEF InvalidateMap, LockStep, WriteMove, WriteMoves
  <2> QED
    BY <1>2, <2>1, <2>2, <2>3, <2>4, <2>5 DEF StartCall, LockStep
<1>3. ASSUME NEW t \in Threads, PutStep(t) PROVE LockStep(t)
  <2>1. CASE PutLock(t)
    BY <2>1 DEF PutLock, LockStep, WriteMove, WriteMoves
  <2>2. CASE PutKey(t) \/ PutVal(t) \/ PutFull(t)
    BY <2>2 DEF PutKey, PutVal, PutFull, Goto, LockStep, QuietMove, QuietMoves
  <2> QED
    BY <1>3, <2>1, <2>2 DEF PutStep
<1>4. ASSUME NEW t \in Threads, GetStep(t) PROVE LockStep(t)
  <2>1. CASE ReadTable(t)
    BY <2>1 DEF ReadTable, Goto, LockStep, QuietMove, QuietMoves
  <2> QED
    BY <1>4, <2>1 DEF GetStep, LockStep
<1>5. ASSUME NEW t \in Threads, WriteStep(t) PROVE LockStep(t)
  BY <1>5 DEF WriteStep, DeleteBody, ClearBody, InvalidateBody, Goto,
              LockStep, QuietMove, QuietMoves
<1>6. ASSUME NEW t \in Threads, UseAfterFree(t) PROVE UNCHANGED <<pc, locks>>
  BY <1>6 DEF UseAfterFree
<1> QED
  BY <1>1, <1>2, <1>3, <1>4, <1>5, <1>6 DEF Next, InCall

-----------------------------------------------------------------------------
(* The inductive invariant of the lock protocol *)

\* A writer is the thread that locked write_lock, and it is alone.
Exclusion == \A w \in Writers : write_lock = w /\ Readers = {}

LockInv == LockTypes /\ LockProtocol /\ Exclusion

LEMMA CountedFinite == IsFiniteSet(Counted) /\ Cardinality(Counted) \in Nat
<1>1. Counted \in SUBSET Threads
  BY DEF Counted
<1> QED
  BY <1>1, FS_Subset, FS_CardinalityType, ThreadsAssumption

\* While t holds fields_lock outside getFirst, the counted readers are inside.
LEMMA CountedAreReaders ==
    ASSUME LockInv, NEW t \in Threads, pc[t] \in FieldsPCs \ {"getFirst"}
    PROVE  Counted = Readers
  BY DEF LockInv, LockProtocol, Counted, Readers, FieldsPCs

LEMMA InitLocks == Init => LockInv
<1> SUFFICES ASSUME Init PROVE LockInv
  OBVIOUS
<1>1. LockTypes
  BY DEF Init, LockTypes, PCs
<1>2. Counted = {} /\ Readers = {} /\ Writers = {}
  BY DEF Init, Counted, Readers, Writers, ReadPCs, WritePCs
<1>3. \A t \in Threads : pc[t] \in FieldsPCs <=> fields_lock = t
  BY ThreadsAssumption DEF Init, FieldsPCs
<1> QED
  BY <1>1, <1>2, <1>3, FS_EmptySet DEF Init, LockInv, LockProtocol, Exclusion

\* A step that moves t within the same regions and leaves the locks alone.
LEMMA QuietKeeps ==
    ASSUME LockInv, NEW t \in Threads, QuietMove(t) PROVE LockInv'
<1>1. PICK m \in QuietMoves : pc[t] = m[1] /\ pc' = [pc EXCEPT ![t] = m[2]]
  BY DEF QuietMove
<1>2. UNCHANGED <<num_readers, fields_lock, write_lock>>
  BY DEF QuietMove, locks
<1>3. /\ m[1] \in ReadPCs <=> m[2] \in ReadPCs
      /\ m[1] \in WritePCs <=> m[2] \in WritePCs
      /\ m[1] \notin FieldsPCs /\ m[2] \notin FieldsPCs /\ m[2] \in PCs
      /\ m[1] # "getFirst" /\ m[2] # "getFirst"
  BY DEF QuietMoves, ReadPCs, WritePCs, FieldsPCs, PCs
<1>4. Readers' = Readers /\ Writers' = Writers /\ Counted' = Counted
  BY <1>1, <1>3 DEF LockInv, LockTypes, Readers, Writers, Counted
<1>5. LockTypes'
  BY <1>1, <1>2, <1>3 DEF LockInv, LockTypes
<1>6. \A u \in Threads : pc'[u] \in FieldsPCs <=> fields_lock' = u
  BY <1>1, <1>2, <1>3 DEF LockInv, LockTypes, LockProtocol
<1> QED
  BY <1>2, <1>4, <1>5, <1>6 DEF LockInv, LockProtocol, Exclusion

\* Taking write_lock for writing.
LEMMA WriteMoveKeeps ==
    ASSUME LockInv, NEW t \in Threads, WriteMove(t) PROVE LockInv'
<1>1. PICK m \in WriteMoves : LockForWriting(t, m[1], m[2])
  BY DEF WriteMove
<1>2. /\ pc[t] = m[1] /\ pc' = [pc EXCEPT ![t] = m[2]]
      /\ write_lock = NoThread /\ write_lock' = t
      /\ UNCHANGED <<num_readers, fields_lock>>
  BY <1>1 DEF LockForWriting, Goto
<1>3. /\ m[1] \notin ReadPCs /\ m[2] \notin ReadPCs /\ m[2] \in WritePCs
      /\ m[1] \notin FieldsPCs /\ m[2] \notin FieldsPCs /\ m[2] \in PCs
      /\ m[1] # "getFirst" /\ m[2] # "getFirst"
  BY DEF WriteMoves, ReadPCs, WritePCs, FieldsPCs, PCs
<1>4. Readers = {} /\ Writers = {}
  BY <1>2 DEF LockInv, LockProtocol
<1>5. Readers' = {} /\ Writers' = {t} /\ Counted' = Counted
  BY <1>2, <1>3, <1>4 DEF LockInv, LockTypes, Readers, Writers, Counted
<1>6. LockTypes'
  BY <1>2, <1>3 DEF LockInv, LockTypes
<1>7. \A u \in Threads : pc'[u] \in FieldsPCs <=> fields_lock' = u
  BY <1>2, <1>3 DEF LockInv, LockTypes, LockProtocol
<1> QED
  BY <1>2, <1>5, <1>6, <1>7, ThreadsAssumption DEF LockInv, LockProtocol, Exclusion

\* Giving write_lock back after writing.
LEMMA WriteUnlockKeeps ==
    ASSUME LockInv, NEW t \in Threads, WriteUnlock(t) PROVE LockInv'
<1>1. /\ pc[t] = "writeUnlock" /\ pc' = [pc EXCEPT ![t] = "idle"]
      /\ write_lock' = NoThread /\ UNCHANGED <<num_readers, fields_lock>>
  BY DEF WriteUnlock, Goto
<1>2. t \in Writers
  BY <1>1 DEF Writers, WritePCs
<1>3. Writers = {t} /\ Readers = {}
  BY <1>2, ThreadsAssumption DEF LockInv, Exclusion, Writers
<1>4. Readers' = {} /\ Writers' = {} /\ Counted' = Counted
  BY <1>1, <1>3 DEF LockInv, LockTypes, Readers, Writers, Counted, ReadPCs, WritePCs
<1>5. LockTypes'
  BY <1>1 DEF LockInv, LockTypes, PCs
<1>6. \A u \in Threads : pc'[u] \in FieldsPCs <=> fields_lock' = u
  BY <1>1 DEF LockInv, LockTypes, LockProtocol, FieldsPCs
<1> QED
  BY <1>1, <1>4, <1>5, <1>6 DEF LockInv, LockProtocol, Exclusion

\* Taking and giving back fields_lock.
LEMMA FieldsMoveKeeps ==
    ASSUME LockInv, NEW t \in Threads,
           EnterLock(t) \/ EnterUnlock(t) \/ LeaveLock(t) \/ LeaveUnlock(t)
    PROVE  LockInv'
<1>1. UNCHANGED <<num_readers, write_lock>>
  BY DEF EnterLock, EnterUnlock, LeaveLock, LeaveUnlock, LockFields, UnlockFields
<1>2. Readers' = Readers /\ Writers' = Writers /\ Counted' = Counted
  BY DEF EnterLock, EnterUnlock, LeaveLock, LeaveUnlock, LockFields, UnlockFields, Goto,
         LockInv, LockTypes, Readers, Writers, Counted, ReadPCs, WritePCs
<1>3. LockTypes'
  BY DEF EnterLock, EnterUnlock, LeaveLock, LeaveUnlock, LockFields, UnlockFields, Goto,
         LockInv, LockTypes, PCs, ReadPCs, FieldsPCs
<1>4. CASE EnterLock(t) \/ LeaveLock(t)
  <2>1. \A u \in Threads : pc'[u] \in FieldsPCs <=> fields_lock' = u
    BY <1>4, ThreadsAssumption
       DEF EnterLock, LeaveLock, LockFields, Goto, LockInv, LockTypes, LockProtocol, FieldsPCs
  <2> QED
    BY <1>1, <1>2, <1>3, <2>1 DEF LockInv, LockProtocol, Exclusion
<1>5. CASE EnterUnlock(t) \/ LeaveUnlock(t)
  <2>1. \A u \in Threads : pc'[u] \in FieldsPCs <=> fields_lock' = u
    BY <1>5, ThreadsAssumption
       DEF EnterUnlock, LeaveUnlock, UnlockFields, Goto, LockInv, LockTypes, LockProtocol,
           FieldsPCs
  <2> QED
    BY <1>1, <1>2, <1>3, <2>1 DEF LockInv, LockProtocol, Exclusion
<1> QED
  BY <1>4, <1>5

\* num_readers++: the first reader goes on to wait for write_lock, any other is
\* let in by the readers that are inside already.
LEMMA CountInKeeps ==
    ASSUME LockInv, NEW t \in Threads, CountIn(t) PROVE LockInv'
<1>1. /\ pc[t] = "getCount"
      /\ pc' = [pc EXCEPT ![t] = IF num_readers = 0 THEN "getFirst" ELSE "getEntered"]
      /\ num_readers' = num_readers + 1 /\ UNCHANGED <<fields_lock, write_lock>>
  BY DEF CountIn, Goto
<1>2. Counted = Readers /\ t \notin Counted
  BY <1>1, CountedAreReaders DEF FieldsPCs, Counted, ReadPCs
<1>3. num_readers' = Cardinality(Counted \cup {t})
  BY <1>1, <1>2, CountedFinite, FS_AddElement DEF LockInv, LockProtocol
<1>4. Counted' = Counted \cup {t} /\ Writers' = Writers
  BY <1>1 DEF LockInv, LockTypes, Counted, Writers, ReadPCs, WritePCs
<1>5. LockTypes'
  BY <1>1 DEF LockInv, LockTypes, PCs, ReadPCs, FieldsPCs
<1>6. \A u \in Threads : pc'[u] \in FieldsPCs <=> fields_lock' = u
  BY <1>1 DEF LockInv, LockTypes, LockProtocol, FieldsPCs
<1>7. CASE num_readers = 0
  <2>1. Readers' = Readers
    BY <1>1, <1>7 DEF LockInv, LockTypes, Readers, ReadPCs
  <2> QED
    BY <1>1, <1>3, <1>4, <1>5, <1>6, <2>1 DEF LockInv, LockProtocol, Exclusion
<1>8. CASE num_readers # 0
  <2>1. Readers' = Readers \cup {t}
    BY <1>1, <1>8 DEF LockInv, LockTypes, Readers, ReadPCs
  <2>2. Readers # {}
    BY <1>2, <1>8, FS_EmptySet DEF LockInv, LockProtocol
  <2>3. Writers = {} /\ write_lock # NoThread
    BY <2>2 DEF LockInv, LockProtocol, Exclusion
  <2> QED
    BY <1>1, <1>3, <1>4, <1>5, <1>6, <2>1, <2>3 DEF LockInv, LockProtocol, Exclusion
<1> QED
  BY <1>7, <1>8

\* The first reader gets write_lock.
LEMMA FirstReaderKeeps ==
    ASSUME LockInv, NEW t \in Threads, FirstReader(t) PROVE LockInv'
<1>1. /\ pc[t] = "getFirst" /\ pc' = [pc EXCEPT ![t] = "getEntered"]
      /\ write_lock = NoThread /\ write_lock' = t /\ UNCHANGED <<num_readers, fields_lock>>
  BY DEF FirstReader, LockForWriting, Goto
<1>2. Readers = {} /\ Writers = {}
  BY <1>1 DEF LockInv, LockProtocol
<1>3. Readers' = {t} /\ Writers' = {} /\ Counted' = Counted
  BY <1>1, <1>2 DEF LockInv, LockTypes, Readers, Writers, Counted, ReadPCs, WritePCs
<1>4. LockTypes'
  BY <1>1 DEF LockInv, LockTypes, PCs, ReadPCs
<1>5. \A u \in Threads : pc'[u] \in FieldsPCs <=> fields_lock' = u
  BY <1>1 DEF LockInv, LockTypes, LockProtocol, FieldsPCs
<1> QED
  BY <1>1, <1>3, <1>4, <1>5, ThreadsAssumption DEF LockInv, LockProtocol, Exclusion

\* num_readers--: the last reader out gives write_lock back, whoever took it.
LEMMA CountOutKeeps ==
    ASSUME LockInv, NEW t \in Threads, CountOut(t) PROVE LockInv'
<1>1. /\ pc[t] = "getUncount" /\ pc' = [pc EXCEPT ![t] = "getLeft"]
      /\ num_readers' = num_readers - 1 /\ fields_lock' = fields_lock
      /\ write_lock' = IF num_readers = 1 THEN NoThread ELSE write_lock
  BY DEF CountOut, WriteLockLeft, Goto
<1>2. Counted = Readers /\ t \in Counted
  BY <1>1, CountedAreReaders DEF FieldsPCs, Counted, ReadPCs
<1>3. num_readers' = Cardinality(Counted \ {t}) /\ IsFiniteSet(Counted \ {t})
  BY <1>1, <1>2, CountedFinite, FS_RemoveElement DEF LockInv, LockProtocol
<1>4. Counted' = Counted \ {t} /\ Readers' = Readers \ {t} /\ Writers' = Writers
  BY <1>1 DEF LockInv, LockTypes, Counted, Readers, Writers, ReadPCs, WritePCs
<1>5. LockTypes'
  BY <1>1 DEF LockInv, LockTypes, PCs, FieldsPCs
<1>6. \A u \in Threads : pc'[u] \in FieldsPCs <=> fields_lock' = u
  BY <1>1 DEF LockInv, LockTypes, LockProtocol, FieldsPCs
<1>7. Writers = {} /\ write_lock # NoThread
  BY <1>2 DEF LockInv, LockProtocol, Exclusion
<1>8. Readers' = {} <=> num_readers = 1
  BY <1>1, <1>2, <1>3, <1>4, FS_EmptySet DEF LockInv, LockTypes
<1> QED
  BY <1>1, <1>3, <1>4, <1>5, <1>6, <1>7, <1>8 DEF LockInv, LockProtocol, Exclusion

LEMMA LockInvariant == Spec => []LockInv
<1>1. Init => LockInv
  BY InitLocks
<1>2. LockInv /\ [Next]_vars => LockInv'
  <2> SUFFICES ASSUME LockInv, [Next]_vars PROVE LockInv'
    OBVIOUS
  <2>1. CASE UNCHANGED <<pc, locks>>
    BY <2>1 DEF locks, LockInv, LockTypes, LockProtocol, Exclusion, Readers, Writers, Counted
  <2>2. ASSUME NEW t \in Threads, LockStep(t) PROVE LockInv'
    BY <2>2, QuietKeeps, WriteMoveKeeps, WriteUnlockKeeps, FieldsMoveKeeps, CountInKeeps,
       FirstReaderKeeps, CountOutKeeps DEF LockStep
  <2> QED
    BY <2>1, <2>2, LockSteps
<1> QED
  BY <1>1, <1>2, PTL DEF Spec

\* num_readers, the two mutexes and the places of the threads always agree.
THEOREM LockProtocolCorrect == Spec => []LockProtocol
<1>1. LockInv => LockProtocol
  BY DEF LockInv
<1> QED
  BY <1>1, LockInvariant, PTL

-----------------------------------------------------------------------------
(* The readers-writer lock *)

\* A step of the protocol that starts or ends a read or a write is that step of
\* the abstract lock; every other one leaves its state alone.
LEMMA StepsRefine ==
    ASSUME LockInv, NEW t \in Threads, LockStep(t)
    PROVE  RWLock!Next \/ UNCHANGED RWLock!vars
<1> USE DEF LockInv
<1>1. CASE QuietMove(t)
  <2>1. PICK m \in QuietMoves : pc[t] = m[1] /\ pc' = [pc EXCEPT ![t] = m[2]]
    BY <1>1 DEF QuietMove
  <2>2. (m[1] \in ReadPCs <=> m[2] \in ReadPCs) /\ (m[1] \in WritePCs <=> m[2] \in WritePCs)
    BY DEF QuietMoves, ReadPCs, WritePCs
  <2>3. Readers' = Readers /\ Writers' = Writers
    BY <2>1, <2>2 DEF LockTypes, Readers, Writers
  <2> QED
    BY <2>3 DEF RWLock!vars
<1>2. CASE WriteMove(t)
  <2>1. PICK m \in WriteMoves : LockForWriting(t, m[1], m[2])
    BY <1>2 DEF WriteMove
  <2>2. m[2] \notin ReadPCs /\ m[2] \in WritePCs
    BY DEF WriteMoves, ReadPCs, WritePCs
  <2>3. Readers = {} /\ Writers = {}
    BY <2>1 DEF LockForWriting, LockProtocol
  <2>4. pc' = [pc EXCEPT ![t] = m[2]]
    BY <2>1 DEF LockForWriting, Goto
  <2>5. Readers' = Readers /\ Writers' = {t}
    BY <2>2, <2>3, <2>4 DEF LockTypes, Readers, Writers
  <2>6. RWLock!StartWriting(t)
    BY <2>3, <2>5 DEF RWLock!StartWriting
  <2> QED
    BY <2>6 DEF RWLock!Next
<1>3. CASE WriteUnlock(t)
  <2>1. pc[t] = "writeUnlock" /\ pc' = [pc EXCEPT ![t] = "idle"]
    BY <1>3 DEF WriteUnlock, Goto
  <2>2. t \in Writers
    BY <2>1 DEF Writers, WritePCs
  <2>3. Readers = {}
    BY <2>2 DEF Exclusion
  <2>4. Readers' = Readers /\ Writers' = Writers \ {t}
    BY <2>1, <2>3 DEF LockTypes, Readers, Writers, ReadPCs, WritePCs
  <2>5. RWLock!StopWriting(t)
    BY <2>2, <2>4 DEF RWLock!StopWriting
  <2> QED
    BY <2>5 DEF RWLock!Next
<1>4. CASE EnterLock(t) \/ EnterUnlock(t) \/ LeaveLock(t) \/ LeaveUnlock(t)
  <2>1. Readers' = Readers /\ Writers' = Writers
    BY <1>4 DEF EnterLock, EnterUnlock, LeaveLock, LeaveUnlock, LockFields, UnlockFields,
                Goto, LockTypes, Readers, Writers, ReadPCs, WritePCs
  <2> QED
    BY <2>1 DEF RWLock!vars
<1>5. CASE CountIn(t)
  <2>1. pc[t] = "getCount"
        /\ pc' = [pc EXCEPT ![t] = IF num_readers = 0 THEN "getFirst" ELSE "getEntered"]
    BY <1>5 DEF CountIn, Goto
  <2>2. t \notin Readers /\ t \notin Writers
    BY <2>1 DEF Readers, Writers, ReadPCs, WritePCs
  <2>3. CASE num_readers = 0
    <3>1. Readers' = Readers /\ Writers' = Writers
      BY <2>1, <2>2, <2>3 DEF LockTypes, Readers, Writers, ReadPCs, WritePCs
    <3> QED
      BY <3>1 DEF RWLock!vars
  <2>4. CASE num_readers # 0
    <3>1. Readers' = Readers \cup {t} /\ Writers' = Writers
      BY <2>1, <2>2, <2>4 DEF LockTypes, Readers, Writers, ReadPCs, WritePCs
    <3>2. Counted = Readers
      BY <2>1, CountedAreReaders DEF FieldsPCs
    <3>3. Readers # {}
      BY <2>4, <3>2, FS_EmptySet DEF LockProtocol
    <3>4. Writers = {}
      BY <3>3 DEF Exclusion
    <3>5. RWLock!StartReading(t)
      BY <2>2, <3>1, <3>4 DEF RWLock!StartReading
    <3> QED
      BY <3>5 DEF RWLock!Next
  <2> QED
    BY <2>3, <2>4
<1>6. CASE FirstReader(t)
  <2>1. /\ pc[t] = "getFirst" /\ pc' = [pc EXCEPT ![t] = "getEntered"]
        /\ write_lock = NoThread
    BY <1>6 DEF FirstReader, LockForWriting, Goto
  <2>2. Readers = {} /\ Writers = {}
    BY <2>1 DEF LockProtocol
  <2>3. Readers' = Readers \cup {t} /\ Writers' = Writers
    BY <2>1, <2>2 DEF LockTypes, Readers, Writers, ReadPCs, WritePCs
  <2>4. RWLock!StartReading(t)
    BY <2>2, <2>3 DEF RWLock!StartReading
  <2> QED
    BY <2>4 DEF RWLock!Next
<1>7. CASE CountOut(t)
  <2>1. pc[t] = "getUncount" /\ pc' = [pc EXCEPT ![t] = "getLeft"]
    BY <1>7 DEF CountOut, Goto
  <2>2. t \in Readers /\ t \notin Writers
    BY <2>1 DEF Readers, Writers, ReadPCs, WritePCs
  <2>3. Readers' = Readers \ {t} /\ Writers' = Writers
    BY <2>1, <2>2 DEF LockTypes, Readers, Writers, ReadPCs, WritePCs
  <2>4. RWLock!StopReading(t)
    BY <2>2, <2>3 DEF RWLock!StopReading
  <2> QED
    BY <2>4 DEF RWLock!Next
<1> QED
  BY <1>1, <1>2, <1>3, <1>4, <1>5, <1>6, <1>7 DEF LockStep

\* The two mutexes and the counter of hashmap.c implement a readers-writer lock:
\* for any number of threads, whichever of them unlocks write_lock.
THEOREM HashMapImplementsReadWriteLock == Spec => ImplementsReadWriteLock
<1>1. Init => RWLock!Init
  BY DEF Init, RWLock!Init, Readers, Writers, ReadPCs, WritePCs
<1>2. LockInv /\ [Next]_vars => [RWLock!Next]_(RWLock!vars)
  <2> SUFFICES ASSUME LockInv, [Next]_vars PROVE [RWLock!Next]_(RWLock!vars)
    OBVIOUS
  <2>1. CASE UNCHANGED <<pc, locks>>
    BY <2>1 DEF RWLock!vars, Readers, Writers
  <2>2. ASSUME NEW t \in Threads, LockStep(t) PROVE [RWLock!Next]_(RWLock!vars)
    BY <2>2, StepsRefine
  <2> QED
    BY <2>1, <2>2, LockSteps
<1> QED
  BY <1>1, <1>2, LockInvariant, PTL DEF Spec, ImplementsReadWriteLock, RWLock!Spec
================================================================================
