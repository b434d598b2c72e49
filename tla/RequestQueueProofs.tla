-------------------------- MODULE RequestQueueProofs --------------------------
(***************************************************************************)
(* Proofs about the request queue, for any sets of threads and items and   *)
(* any bound on the nodes.                                                 *)
(***************************************************************************)
EXTENDS RequestQueueProps, FiniteSetTheorems, SequenceTheorems, TLAPS

\* Every step of the specification, split by operation.
LEMMA StepCases ==
    ASSUME Next
    PROVE  \E t \in Threads :
             \/ \E i \in Items : Enqueue(t, i)
             \/ EnqueueStep(t) \/ Dequeue(t) \/ DequeueStep(t)
             \/ Invalidate(t) \/ InvalidateStep(t)
  BY DEF Next, Threads

\* Every variable starts with its type.
LEMMA InitTyped == Init => TypeOK
<1> SUFFICES ASSUME Init PROVE TypeOK
  OBVIOUS
<1>1. allocated \in 0 .. MaxNodes /\ items \in Nat /\ live \subseteq Nodes
  BY MaxNodesAssumption DEF Init
<1>2. invalid \in BOOLEAN /\ crashed \in BOOLEAN
  BY Zenon DEF Init
<1>3. front \in Nodes \cup {Null} /\ rear \in Nodes \cup {Null}
  BY Zenon DEF Init
<1>4. next \in [Nodes -> Nodes \cup {Null}] /\ item \in [Nodes -> Items \cup {NoItem}]
  BY Zenon DEF Init
<1>5. lock \in Threads \cup {NoThread} /\ pc \in [Threads -> PCs]
  BY DEF Init, PCs
<1>6. arg \in [Threads -> Items \cup {NoItem}] /\ got \in [Threads -> Items \cup {NoItem}]
  BY Zenon DEF Init
<1> QED
  BY <1>1, <1>2, <1>3, <1>4, <1>5, <1>6 DEF TypeOK

\* Every variable keeps its type.
THEOREM TypeCorrect == Spec => []TypeOK
<1>1. Init => TypeOK
  BY InitTyped
<1>2. TypeOK /\ [Next]_vars => TypeOK'
  <2> SUFFICES ASSUME TypeOK, [Next]_vars PROVE TypeOK'
    OBVIOUS
  <2> USE DEF TypeOK, PCs, CriticalPCs, Goto, list
  <2>1. CASE UNCHANGED vars
    BY <2>1 DEF vars
  <2>2. ASSUME NEW t \in Threads, NEW i \in Items, Enqueue(t, i) PROVE TypeOK'
    BY <2>2 DEF Enqueue
  <2>3. ASSUME NEW t \in Threads, EnqueueStep(t) PROVE TypeOK'
    <3>1. CASE EnqueueLock(t)
      BY <3>1 DEF EnqueueLock, LockAt, Acquire
    <3>2. CASE LinkNode(t)
      BY <3>2, MaxNodesAssumption DEF LinkNode, LinkAtRear, Nodes, Null
    <3>3. CASE EnqueueUnlock(t)
      BY <3>3 DEF EnqueueUnlock, UnlockAt, Release
    <3>4. CASE Post(t)
      BY <3>4 DEF Post
    <3> QED
      BY <2>3, <3>1, <3>2, <3>3, <3>4 DEF EnqueueStep
  <2>4. ASSUME NEW t \in Threads, Dequeue(t) PROVE TypeOK'
    BY <2>4 DEF Dequeue
  <2>5. ASSUME NEW t \in Threads, DequeueStep(t) PROVE TypeOK'
    <3>1. CASE Wait(t)
      BY <3>1 DEF Wait
    <3>2. CASE DequeueLock(t)
      BY <3>2 DEF DequeueLock, LockAt, Acquire
    <3>3. CASE TakeNode(t)
      BY <3>3 DEF TakeNode
    <3>4. CASE TakeFault(t)
      BY <3>4 DEF TakeFault
    <3>5. CASE DequeueUnlock(t)
      BY <3>5 DEF DequeueUnlock, UnlockAt, Release
    <3> QED
      BY <2>5, <3>1, <3>2, <3>3, <3>4, <3>5 DEF DequeueStep
  <2>6. ASSUME NEW t \in Threads, Invalidate(t) PROVE TypeOK'
    BY <2>6 DEF Invalidate, LockAt, Acquire
  <2>7. ASSUME NEW t \in Threads, InvalidateStep(t) PROVE TypeOK'
    <3>1. CASE DrainNode(t)
      BY <3>1 DEF DrainNode
    <3>2. CASE MarkInvalid(t)
      BY <3>2 DEF MarkInvalid
    <3>3. CASE InvalidateUnlock(t)
      BY <3>3 DEF InvalidateUnlock, UnlockAt, Release
    <3> QED
      BY <2>7, <3>1, <3>2, <3>3 DEF InvalidateStep
  <2> QED
    BY <2>1, <2>2, <2>3, <2>4, <2>5, <2>6, <2>7, StepCases
<1> QED
  BY <1>1, <1>2, PTL DEF Spec

-----------------------------------------------------------------------------
\* A thread is in a critical section exactly when it holds the mutex, so two
\* threads never manipulate the list together.
THEOREM MutexCorrect == Spec => []MutualExclusion
<1>1. Init => MutualExclusion
  BY ThreadsAssumption DEF Init, MutualExclusion, CriticalPCs
<1>2. TypeOK /\ MutualExclusion /\ [Next]_vars => MutualExclusion'
  <2> SUFFICES ASSUME TypeOK, MutualExclusion, [Next]_vars PROVE MutualExclusion'
    OBVIOUS
  <2> USE ThreadsAssumption DEF TypeOK, MutualExclusion, CriticalPCs, Goto
  <2>1. CASE UNCHANGED vars
    BY <2>1 DEF vars
  <2>2. ASSUME NEW t \in Threads, NEW i \in Items, Enqueue(t, i) PROVE MutualExclusion'
    BY <2>2 DEF Enqueue
  <2>3. ASSUME NEW t \in Threads, EnqueueStep(t) PROVE MutualExclusion'
    BY <2>3 DEF EnqueueStep, EnqueueLock, LinkNode, LinkAtRear, EnqueueUnlock, Post,
                LockAt, UnlockAt, Acquire, Release
  <2>4. ASSUME NEW t \in Threads, Dequeue(t) PROVE MutualExclusion'
    BY <2>4 DEF Dequeue
  <2>5. ASSUME NEW t \in Threads, DequeueStep(t) PROVE MutualExclusion'
    BY <2>5 DEF DequeueStep, Wait, DequeueLock, TakeNode, TakeFault, DequeueUnlock,
                LockAt, UnlockAt, Acquire, Release
  <2>6. ASSUME NEW t \in Threads, Invalidate(t) PROVE MutualExclusion'
    BY <2>6 DEF Invalidate, LockAt, Acquire
  <2>7. ASSUME NEW t \in Threads, InvalidateStep(t) PROVE MutualExclusion'
    BY <2>7 DEF InvalidateStep, DrainNode, MarkInvalid, InvalidateUnlock, UnlockAt, Release
  <2> QED
    BY <2>1, <2>2, <2>3, <2>4, <2>5, <2>6, <2>7, StepCases
<1> QED
  BY <1>1, <1>2, TypeCorrect, PTL DEF Spec

-----------------------------------------------------------------------------
\* Unlinking the front node keeps the list well formed: a lemma for dequeue and
\* for invalidate_queue, which do it alike.
LEMMA UnlinkFront ==
    ASSUME TypeOK, ListShape, front \in live,
           front' = next[front], live' = live \ {front},
           UNCHANGED <<rear, next, allocated>>
    PROVE  ListShape'
<1>1. /\ front \in Nodes /\ front # Null /\ rear \in Nat /\ front \in Nat
      /\ front <= rear /\ live = front .. rear
  BY DEF TypeOK, ListShape, Nodes, Null
<1>2. CASE front = rear
  BY <1>1, <1>2 DEF ListShape, Null
<1>3. CASE front < rear
  <2>1. front' = front + 1
    BY <1>1, <1>3 DEF ListShape
  <2>2. live' = front + 1 .. rear
    BY <1>1, <1>3
  <2> QED
    BY <1>1, <1>3, <2>1, <2>2 DEF ListShape, Null
<1> QED
  BY <1>1, <1>2, <1>3

\* Linking a node at the rear keeps the list well formed.
LEMMA LinkRear ==
    ASSUME TypeOK, ListShape, NEW t \in Threads, LinkNode(t)
    PROVE  ListShape'
<1> DEFINE node == allocated + 1
<1>1. /\ node \in Nodes /\ allocated' = node /\ rear' = node
      /\ live' = live \cup {node} /\ allocated \in Nat
  BY MaxNodesAssumption DEF LinkNode, LinkAtRear, TypeOK
<1>2. CASE front = Null
  <2>1. front' = node /\ next' = [next EXCEPT ![node] = Null]
    BY <1>2 DEF LinkNode, LinkAtRear
  <2>2. live' = node .. node
    BY <1>1, <1>2 DEF ListShape
  <2> QED
    BY <1>1, <2>1, <2>2, MaxNodesAssumption DEF ListShape, TypeOK, Nodes, Null
<1>3. CASE front # Null
  <2>1. front' = front /\ next' = [next EXCEPT ![node] = Null, ![rear] = node]
    BY <1>3 DEF LinkNode, LinkAtRear
  <2>2. /\ live = front .. allocated /\ rear = allocated /\ rear \in Nodes
        /\ front \in Nat \ {0} /\ front <= allocated
    BY <1>3, MaxNodesAssumption DEF ListShape, TypeOK, Nodes, Null
  <2>3. front' # Null /\ front' \in live' /\ rear' = allocated'
    BY <1>1, <1>3, <2>1, <2>2 DEF ListShape
  <2>4. live' = front' .. rear'
    BY <1>1, <2>1, <2>2
  <2>5. next'[rear'] = Null
    BY <1>1, <2>1, <2>2 DEF TypeOK, Nodes
  <2>6. \A n \in front' .. rear' - 1 : next'[n] = n + 1
    <3> TAKE n \in front' .. rear' - 1
    <3>1. n \in Nodes /\ n <= rear /\ n # node /\ n \in Nat
      BY <1>1, <2>1, <2>2, MaxNodesAssumption DEF Nodes
    <3>2. CASE n = rear
      BY <1>1, <2>1, <2>2, <3>1, <3>2 DEF TypeOK
    <3>3. CASE n < rear
      BY <1>1, <1>3, <2>1, <2>2, <3>1, <3>3 DEF TypeOK, ListShape
    <3> QED
      BY <2>2, <3>1, <3>2, <3>3
  <2> QED
    BY <2>3, <2>4, <2>5, <2>6 DEF ListShape
<1> QED
  BY <1>2, <1>3

\* The live nodes are always exactly the list from front to rear.
THEOREM ListCorrect == Spec => []ListShape
<1>1. Init => ListShape
  BY DEF Init, ListShape
<1>2. TypeOK /\ ListShape /\ [Next]_vars => ListShape'
  <2> SUFFICES ASSUME TypeOK, ListShape, [Next]_vars PROVE ListShape'
    OBVIOUS
  <2>1. CASE UNCHANGED list
    BY <2>1 DEF list, ListShape
  <2>2. ASSUME NEW t \in Threads, LinkNode(t) PROVE ListShape'
    BY <2>2, LinkRear
  <2>3. ASSUME NEW t \in Threads, TakeNode(t) \/ DrainNode(t) PROVE ListShape'
    BY <2>3, UnlinkFront DEF TakeNode, DrainNode
  <2>4. UNCHANGED list \/ \E t \in Threads : LinkNode(t) \/ TakeNode(t) \/ DrainNode(t)
    BY StepCases DEF vars, list, Enqueue, EnqueueStep, EnqueueLock, EnqueueUnlock, Post,
         Dequeue, DequeueStep, Wait, DequeueLock, TakeFault, DequeueUnlock,
         Invalidate, InvalidateStep, MarkInvalid, InvalidateUnlock, LockAt, UnlockAt
  <2> QED
    BY <2>1, <2>2, <2>3, <2>4
<1> QED
  BY <1>1, <1>2, TypeCorrect, PTL DEF Spec

-----------------------------------------------------------------------------
(* The tokens of the semaphore *)

LEMMA HoldersFinite ==
    /\ IsFiniteSet(Claiming) /\ Cardinality(Claiming) \in Nat
    /\ IsFiniteSet(Posting) /\ Cardinality(Posting) \in Nat
<1>1. Claiming \in SUBSET Threads /\ Posting \in SUBSET Threads
  BY DEF Claiming, Posting
<1> QED
  BY <1>1, FS_Subset, FS_CardinalityType, ThreadsAssumption

\* How the length of the list changes.
LEMMA LengthType ==
    ASSUME TypeOK, ListShape PROVE Length \in Nat /\ (Length = 0 <=> front = Null)
  BY DEF TypeOK, ListShape, Length, Nodes, Null

LEMMA LengthGrows ==
    ASSUME TypeOK, ListShape, NEW t \in Threads, LinkNode(t)
    PROVE  Length' = Length + 1
<1>1. /\ allocated \in Nat /\ rear' = allocated + 1 /\ allocated + 1 # Null
      /\ front' = IF front = Null THEN allocated + 1 ELSE front
  BY MaxNodesAssumption DEF LinkNode, LinkAtRear, TypeOK, Null
<1>2. front # Null => rear = allocated /\ front \in Nat
  BY DEF ListShape, TypeOK, Nodes
<1> QED
  BY <1>1, <1>2 DEF Length

LEMMA LengthShrinks ==
    ASSUME TypeOK, ListShape, front \in live, front' = next[front], rear' = rear
    PROVE  Length' = Length - 1
<1>1. /\ front # Null /\ front \in Nat /\ rear \in Nat /\ front <= rear
      /\ next[rear] = Null /\ (front < rear => next[front] = front + 1)
  BY DEF TypeOK, ListShape, Nodes, Null
<1> QED
  BY <1>1 DEF Length, Null

\* An invalidation, once begun, is never undone.
LEMMA StaysBroken ==
    ASSUME TypeOK, Next, Intact'
    PROVE  Intact
  BY StepCases DEF Intact, TypeOK, Goto, Enqueue, EnqueueStep, EnqueueLock, EnqueueUnlock,
       Post, LinkNode, LinkAtRear, Dequeue, DequeueStep, Wait, DequeueLock, TakeNode, TakeFault,
       DequeueUnlock, Invalidate, InvalidateStep, DrainNode, MarkInvalid,
       InvalidateUnlock, LockAt, UnlockAt

\* The semaphore agrees with the list until an invalidation begins.
THEOREM TokensCorrect == Spec => []TokenConservation
<1>1. Init => TokenConservation
  <2> SUFFICES ASSUME Init PROVE TokenConservation
    OBVIOUS
  <2>1. Claiming = {} /\ Posting = {}
    BY DEF Init, Claiming, Posting
  <2> QED
    BY <2>1, FS_EmptySet DEF Init, TokenConservation, Length
<1>2. TypeOK /\ ListShape /\ TokenConservation /\ [Next]_vars => TokenConservation'
  <2> SUFFICES ASSUME TypeOK, ListShape, TokenConservation, Next, Intact'
               PROVE  Length' = items' + Cardinality(Claiming') + Cardinality(Posting')
    BY DEF TokenConservation, vars, Intact, Length, Claiming, Posting
  <2>1. /\ Length = items + Cardinality(Claiming) + Cardinality(Posting)
        /\ items \in Nat /\ Length \in Nat
    BY StaysBroken, LengthType DEF TokenConservation, TypeOK
  <2>2. /\ IsFiniteSet(Claiming) /\ Cardinality(Claiming) \in Nat
        /\ IsFiniteSet(Posting) /\ Cardinality(Posting) \in Nat
    BY HoldersFinite
  \* A step that leaves the list, the semaphore and both sets of holders alone.
  <2>3. ASSUME UNCHANGED <<front, rear, items>>, Claiming' = Claiming, Posting' = Posting
        PROVE  Length' = items' + Cardinality(Claiming') + Cardinality(Posting')
    BY <2>1, <2>3 DEF Length
  <2> USE DEF Goto
  <2>4. ASSUME NEW t \in Threads, NEW i \in Items, Enqueue(t, i)
        PROVE  UNCHANGED <<front, rear, items>> /\ Claiming' = Claiming /\ Posting' = Posting
    <3>1. t \notin Claiming /\ t \notin Posting
      BY <2>4 DEF Enqueue, Claiming, Posting
    <3>2. pc' = [pc EXCEPT ![t] = "enqLock"] /\ UNCHANGED <<front, rear, items>>
      BY <2>4 DEF Enqueue, list
    <3> QED
      BY <3>1, <3>2 DEF TypeOK, Claiming, Posting
  <2>5. ASSUME NEW t \in Threads, EnqueueStep(t)
        PROVE  Length' = items' + Cardinality(Claiming') + Cardinality(Posting')
    <3>1. CASE EnqueueLock(t)
      <4>1. t \notin Claiming /\ t \notin Posting
        BY <3>1 DEF EnqueueLock, LockAt, Claiming, Posting
      <4>2. pc' = [pc EXCEPT ![t] = "enqLink"] /\ UNCHANGED <<front, rear, items>>
        BY <3>1 DEF EnqueueLock, LockAt, list
      <4> QED
        BY <2>3, <4>1, <4>2 DEF TypeOK, Claiming, Posting
    <3>2. CASE LinkNode(t)
      <4>1. t \notin Claiming /\ t \notin Posting
        BY <3>2 DEF LinkNode, LinkAtRear, Claiming, Posting
      <4>2. pc' = [pc EXCEPT ![t] = "enqUnlock"] /\ items' = items
        BY <3>2 DEF LinkNode, LinkAtRear
      <4>3. Claiming' = Claiming /\ Posting' = Posting \cup {t}
        BY <4>1, <4>2 DEF TypeOK, Claiming, Posting
      <4>4. Cardinality(Posting \cup {t}) = Cardinality(Posting) + 1
        BY <2>2, <4>1, FS_AddElement
      <4>5. Length' = Length + 1
        BY <3>2, LengthGrows
      <4> QED
        BY <2>1, <2>2, <4>2, <4>3, <4>4, <4>5
    <3>3. CASE EnqueueUnlock(t)
      <4>1. t \notin Claiming /\ t \in Posting
        BY <3>3 DEF EnqueueUnlock, UnlockAt, Claiming, Posting
      <4>2. pc' = [pc EXCEPT ![t] = "enqPost"] /\ UNCHANGED <<front, rear, items>>
        BY <3>3 DEF EnqueueUnlock, UnlockAt, list
      <4> QED
        BY <2>3, <4>1, <4>2 DEF TypeOK, Claiming, Posting
    <3>4. CASE Post(t)
      <4>1. t \notin Claiming /\ t \in Posting
        BY <3>4 DEF Post, Claiming, Posting
      <4>2. /\ pc' = [pc EXCEPT ![t] = "idle"] /\ items' = items + 1
            /\ UNCHANGED <<front, rear>>
        BY <3>4 DEF Post, list
      <4>3. Claiming' = Claiming /\ Posting' = Posting \ {t} /\ Length' = Length
        BY <4>1, <4>2 DEF TypeOK, Claiming, Posting, Length
      <4>4. Cardinality(Posting \ {t}) = Cardinality(Posting) - 1
        BY <2>2, <4>1, FS_RemoveElement
      <4> QED
        BY <2>1, <2>2, <4>2, <4>3, <4>4
    <3> QED
      BY <2>5, <3>1, <3>2, <3>3, <3>4 DEF EnqueueStep
  <2>6. ASSUME NEW t \in Threads, Dequeue(t)
        PROVE  Length' = items' + Cardinality(Claiming') + Cardinality(Posting')
    <3>1. t \notin Claiming /\ t \notin Posting
      BY <2>6 DEF Dequeue, Claiming, Posting
    <3>2. /\ \E to \in {"idle", "deqWait"} : pc' = [pc EXCEPT ![t] = to]
          /\ UNCHANGED <<front, rear, items>>
      BY <2>6 DEF Dequeue, list
    <3>3. Claiming' = Claiming /\ Posting' = Posting
      BY <3>1, <3>2 DEF TypeOK, Claiming, Posting
    <3> QED
      BY <2>3, <3>2, <3>3
  <2>7. ASSUME NEW t \in Threads, DequeueStep(t)
        PROVE  Length' = items' + Cardinality(Claiming') + Cardinality(Posting')
    <3>1. CASE Wait(t)
      <4>1. t \notin Claiming /\ t \notin Posting
        BY <3>1 DEF Wait, Claiming, Posting
      <4>2. /\ pc' = [pc EXCEPT ![t] = "deqLock"] /\ items' = items - 1
            /\ UNCHANGED <<front, rear>>
        BY <3>1 DEF Wait, list
      <4>3. Claiming' = Claiming \cup {t} /\ Posting' = Posting /\ Length' = Length
        BY <4>1, <4>2 DEF TypeOK, Claiming, Posting, Length
      <4>4. Cardinality(Claiming \cup {t}) = Cardinality(Claiming) + 1
        BY <2>2, <4>1, FS_AddElement
      <4> QED
        BY <2>1, <2>2, <4>2, <4>3, <4>4
    <3>2. CASE DequeueLock(t)
      <4>1. t \in Claiming /\ t \notin Posting
        BY <3>2 DEF DequeueLock, LockAt, Claiming, Posting
      <4>2. pc' = [pc EXCEPT ![t] = "deqTake"] /\ UNCHANGED <<front, rear, items>>
        BY <3>2 DEF DequeueLock, LockAt, list
      <4> QED
        BY <2>3, <4>1, <4>2 DEF TypeOK, Claiming, Posting
    <3>3. CASE TakeNode(t)
      <4>1. t \in Claiming /\ t \notin Posting
        BY <3>3 DEF TakeNode, Claiming, Posting
      <4>2. pc' = [pc EXCEPT ![t] = "deqUnlock"] /\ items' = items
        BY <3>3 DEF TakeNode
      <4>3. Claiming' = Claiming \ {t} /\ Posting' = Posting
        BY <4>1, <4>2 DEF TypeOK, Claiming, Posting
      <4>4. Length' = Length - 1
        BY <3>3, LengthShrinks DEF TakeNode
      <4>5. Cardinality(Claiming \ {t}) = Cardinality(Claiming) - 1
        BY <2>2, <4>1, FS_RemoveElement
      <4> QED
        BY <2>1, <2>2, <4>2, <4>3, <4>4, <4>5
    <3>4. CASE TakeFault(t)
      \* The token of t stands for a node, so front is live.
      <4>1. t \in Claiming
        BY <3>4 DEF TakeFault, Claiming
      <4>2. Cardinality(Claiming) # 0
        BY <2>2, <4>1, FS_EmptySet
      <4>3. Length = 0
        BY <3>4, LengthType DEF TakeFault, ListShape
      <4> QED
        BY <2>1, <2>2, <4>2, <4>3
    <3>5. CASE DequeueUnlock(t)
      <4>1. t \notin Claiming /\ t \notin Posting
        BY <3>5 DEF DequeueUnlock, UnlockAt, Claiming, Posting
      <4>2. pc' = [pc EXCEPT ![t] = "idle"] /\ UNCHANGED <<front, rear, items>>
        BY <3>5 DEF DequeueUnlock, UnlockAt, list
      <4> QED
        BY <2>3, <4>1, <4>2 DEF TypeOK, Claiming, Posting
    <3> QED
      BY <2>7, <3>1, <3>2, <3>3, <3>4, <3>5 DEF DequeueStep
  \* Inside invalidate_queue nothing is promised.
  <2>8. ASSUME NEW t \in Threads, Invalidate(t) \/ DrainNode(t) \/ MarkInvalid(t)
        PROVE  FALSE
    BY <2>8 DEF Invalidate, LockAt, DrainNode, MarkInvalid, Intact, TypeOK
  <2>9. ASSUME NEW t \in Threads, InvalidateUnlock(t)
        PROVE  Length' = items' + Cardinality(Claiming') + Cardinality(Posting')
    <3>1. t \notin Claiming /\ t \notin Posting
      BY <2>9 DEF InvalidateUnlock, UnlockAt, Claiming, Posting
    <3>2. pc' = [pc EXCEPT ![t] = "idle"] /\ UNCHANGED <<front, rear, items>>
      BY <2>9 DEF InvalidateUnlock, UnlockAt, list
    <3> QED
      BY <2>3, <3>1, <3>2 DEF TypeOK, Claiming, Posting
  <2> QED
    BY <2>3, <2>4, <2>5, <2>6, <2>7, <2>8, <2>9, StepCases DEF InvalidateStep
<1> QED
  BY <1>1, <1>2, TypeCorrect, ListCorrect, PTL DEF Spec

-----------------------------------------------------------------------------
\* Until an invalidation begins, a consumer that has passed P and holds the
\* mutex finds a node: the dereference of front in dequeue is safe.
THEOREM ClaimsBacked == Spec => []ClaimIsBacked
<1>1. TypeOK /\ ListShape /\ TokenConservation => ClaimIsBacked
  <2> SUFFICES ASSUME TypeOK, ListShape, TokenConservation, Intact,
                      NEW t \in Threads, pc[t] = "deqTake"
               PROVE  front # Null
    BY DEF ClaimIsBacked
  <2>1. Cardinality(Claiming) # 0
    BY HoldersFinite, FS_EmptySet DEF Claiming
  <2>2. Length # 0
    BY <2>1, HoldersFinite DEF TokenConservation, TypeOK
  <2> QED
    BY <2>2, LengthType
<1> QED
  BY <1>1, TypeCorrect, ListCorrect, TokensCorrect, PTL

\* The process dies in dequeue only once an invalidation has begun.
THEOREM FaultsOnlyAfterInvalidation == Spec => []NoFaultBeforeInvalidation
<1>1. Init => NoFaultBeforeInvalidation
  BY DEF Init, NoFaultBeforeInvalidation
<1>2. /\ TypeOK /\ ListShape /\ ClaimIsBacked /\ NoFaultBeforeInvalidation
      /\ [Next]_vars
      => NoFaultBeforeInvalidation'
  <2> SUFFICES ASSUME TypeOK, ListShape, ClaimIsBacked, NoFaultBeforeInvalidation,
                      Next, crashed', Intact'
               PROVE  FALSE
    BY DEF NoFaultBeforeInvalidation, vars, Intact
  <2>1. Intact /\ ~crashed
    BY StaysBroken DEF NoFaultBeforeInvalidation
  <2>2. PICK t \in Threads : TakeFault(t)
    BY <2>1, StepCases DEF Enqueue, EnqueueStep, EnqueueLock, EnqueueUnlock, Post,
       LinkNode, LinkAtRear, Dequeue, DequeueStep, Wait, DequeueLock, TakeNode, DequeueUnlock,
       Invalidate, InvalidateStep, DrainNode, MarkInvalid, InvalidateUnlock,
       LockAt, UnlockAt
  <2>3. pc[t] = "deqTake" /\ front \notin live
    BY <2>2 DEF TakeFault, Goto
  <2> QED
    BY <2>1, <2>3 DEF ClaimIsBacked, ListShape
<1> QED
  BY <1>1, <1>2, TypeCorrect, ListCorrect, ClaimsBacked, PTL DEF Spec

-----------------------------------------------------------------------------
(* queue.c implements the FIFO queue of queue.h *)

Item == Items \cup {NoItem}

\* The nodes from front to rear, read as a sequence.
ContentsFacts ==
    /\ Contents \in Seq(Item)
    /\ Len(Contents) = Length
    /\ \A k \in 1 .. Length : Contents[k] = item[front + k - 1]
    /\ Contents = <<>> <=> front = Null
    /\ Length \in Nat /\ (Length = 0 <=> front = Null)

LEMMA ContentsIsSequence == TypeOK /\ ListShape => ContentsFacts
<1> SUFFICES ASSUME TypeOK, ListShape PROVE ContentsFacts
  OBVIOUS
<1>1. Length \in Nat /\ (Length = 0 <=> front = Null)
  BY LengthType
<1>2. \A k \in 1 .. Length : item[front + k - 1] \in Item
  <2> TAKE k \in 1 .. Length
  <2>1. front \in Nat /\ rear \in Nodes /\ front # Null /\ Length = rear - front + 1
    BY <1>1 DEF TypeOK, ListShape, Length, Nodes, Null
  <2>2. front + k - 1 \in Nodes
    BY <2>1, MaxNodesAssumption DEF Nodes, Null
  <2> QED
    BY <2>2 DEF TypeOK, Item
<1>3. Contents \in Seq(Item) /\ Len(Contents) = Length
  BY <1>1, <1>2 DEF Contents
<1>4. \A k \in 1 .. Length : Contents[k] = item[front + k - 1]
  BY DEF Contents
<1>5. Contents = <<>> <=> Length = 0
  BY <1>1, <1>3, EmptySeq
<1> QED
  BY <1>1, <1>3, <1>4, <1>5 DEF ContentsFacts

\* Every thread offers an item exactly between the call and the link.
ArgPending ==
    \A t \in Threads : arg[t] # NoItem <=> pc[t] \in {"enqLock", "enqLink"}

LEMMA ArgCorrect == Spec => []ArgPending
<1>1. Init => ArgPending
  BY DEF Init, ArgPending
<1>2. TypeOK /\ ArgPending /\ [Next]_vars => ArgPending'
  <2> SUFFICES ASSUME TypeOK, ArgPending, [Next]_vars PROVE ArgPending'
    OBVIOUS
  <2> USE DEF ArgPending, TypeOK, Goto
  <2>1. CASE UNCHANGED vars
    BY <2>1 DEF vars
  <2>2. ASSUME NEW t \in Threads, NEW i \in Items, Enqueue(t, i) PROVE ArgPending'
    BY <2>2, ItemsAssumption DEF Enqueue
  <2>3. ASSUME NEW t \in Threads, EnqueueStep(t) PROVE ArgPending'
    BY <2>3 DEF EnqueueStep, EnqueueLock, LinkNode, LinkAtRear, EnqueueUnlock, Post, LockAt, UnlockAt
  <2>4. ASSUME NEW t \in Threads, Dequeue(t) PROVE ArgPending'
    BY <2>4 DEF Dequeue
  <2>5. ASSUME NEW t \in Threads, DequeueStep(t) PROVE ArgPending'
    BY <2>5 DEF DequeueStep, Wait, DequeueLock, TakeNode, TakeFault, DequeueUnlock,
                LockAt, UnlockAt
  <2>6. ASSUME NEW t \in Threads, Invalidate(t) \/ InvalidateStep(t) PROVE ArgPending'
    BY <2>6 DEF Invalidate, InvalidateStep, DrainNode, MarkInvalid, InvalidateUnlock,
                LockAt, UnlockAt
  <2> QED
    BY <2>1, <2>2, <2>3, <2>4, <2>5, <2>6, StepCases
<1> QED
  BY <1>1, <1>2, TypeCorrect, PTL DEF Spec

\* Linking a node appends its item.
LEMMA LinkAppends ==
    ASSUME TypeOK, ListShape, ContentsFacts, ContentsFacts',
           NEW t \in Threads, LinkNode(t)
    PROVE  Contents' = Append(Contents, arg[t])
<1> DEFINE node == allocated + 1
<1>1. Length' = Length + 1
  BY LengthGrows
<1>2. arg[t] \in Item
  BY DEF TypeOK, Item
<1>3. /\ Append(Contents, arg[t]) \in Seq(Item)
      /\ Len(Append(Contents, arg[t])) = Length + 1
      /\ \A k \in 1 .. Length : Append(Contents, arg[t])[k] = item[front + k - 1]
      /\ Append(Contents, arg[t])[Length + 1] = arg[t]
  BY <1>2, AppendProperties DEF ContentsFacts
<1>4. /\ node \in Nodes /\ item' = [item EXCEPT ![node] = arg[t]]
      /\ front' = IF front = Null THEN node ELSE front
      /\ allocated \in Nat
  BY MaxNodesAssumption DEF LinkNode, LinkAtRear, TypeOK
<1>5. front # Null => rear = allocated /\ front \in Nat /\ Length = rear - front + 1
  BY DEF ListShape, TypeOK, Nodes, Length
<1>6. ASSUME NEW k \in 1 .. Length + 1
      PROVE  item'[front' + k - 1] = Append(Contents, arg[t])[k]
  <2>1. CASE k = Length + 1
    <3>1. front' + k - 1 = node
      BY <1>4, <1>5, <2>1 DEF ContentsFacts
    <3> QED
      BY <1>3, <1>4, <2>1, <3>1 DEF TypeOK
  <2>2. CASE k \in 1 .. Length
    <3>1. front # Null
      BY <2>2 DEF ContentsFacts
    <3>2. front' + k - 1 = front + k - 1 /\ front + k - 1 # node
      BY <1>4, <1>5, <2>2, <3>1 DEF ContentsFacts
    <3>3. item'[front + k - 1] = item[front + k - 1]
      BY <1>4, <3>2 DEF TypeOK
    <3> QED
      BY <1>3, <2>2, <3>2, <3>3
  <2> QED
    BY <2>1, <2>2 DEF ContentsFacts
<1>7. \A k \in 1 .. Len(Contents') : Contents'[k] = Append(Contents, arg[t])[k]
  BY <1>1, <1>6 DEF ContentsFacts
<1>8. Contents' \in Seq(Item) /\ Len(Contents') = Len(Append(Contents, arg[t]))
  BY <1>1, <1>3 DEF ContentsFacts
<1> QED
  BY <1>3, <1>7, <1>8, SeqEqual

\* Unlinking the front node removes the first item.
LEMMA UnlinkRemoves ==
    ASSUME TypeOK, ListShape, ContentsFacts, ContentsFacts', front \in live,
           front' = next[front], UNCHANGED <<rear, item>>
    PROVE  Contents # <<>> /\ Head(Contents) = item[front] /\ Contents' = Tail(Contents)
<1>1. Length' = Length - 1
  BY LengthShrinks
<1>2. /\ front # Null /\ front \in Nat /\ rear \in Nat /\ front <= rear
      /\ Length = rear - front + 1 /\ (front < rear => front' = front + 1)
  BY DEF TypeOK, ListShape, Nodes, Null, Length
<1>3. Contents # <<>> /\ Contents \in Seq(Item) /\ Len(Contents) = Length
  BY <1>2 DEF ContentsFacts
<1>4. Head(Contents) = item[front]
  BY <1>2, <1>3 DEF ContentsFacts
<1>5. /\ Tail(Contents) \in Seq(Item) /\ Len(Tail(Contents)) = Length - 1
      /\ \A k \in 1 .. Length - 1 : Tail(Contents)[k] = Contents[k + 1]
  BY <1>3, HeadTailProperties
<1>6. ASSUME NEW k \in 1 .. Length - 1
      PROVE  Contents'[k] = Tail(Contents)[k]
  <2>1. front' = front + 1 /\ k \in 1 .. Length' /\ k + 1 \in 1 .. Length
    BY <1>1, <1>2
  <2>2. Contents'[k] = item'[front' + k - 1] /\ Contents[k + 1] = item[front + (k + 1) - 1]
    BY <2>1 DEF ContentsFacts
  <2>3. front' + k - 1 = front + (k + 1) - 1
    BY <1>2, <2>1
  <2> QED
    BY <1>5, <2>2, <2>3
<1>7. Contents' \in Seq(Item) /\ Len(Contents') = Length - 1
  BY <1>1 DEF ContentsFacts
<1>8. Contents' = Tail(Contents)
  BY <1>5, <1>6, <1>7, SeqEqual
<1> QED
  BY <1>3, <1>4, <1>8

\* What a step leaves alone, seen through the mapping.
LEMMA SameContents ==
    ASSUME UNCHANGED <<front, rear, item>> PROVE Contents' = Contents
  BY DEF Contents, Length

\* queue.c implements the FIFO queue: every step of the detailed queue is a step
\* of the abstract one or changes nothing there.
THEOREM QueueImplementsFifo == Spec => ImplementsFifo
<1>1. Init => Fifo!Init
  <2> SUFFICES ASSUME Init PROVE Fifo!Init
    OBVIOUS
  <2>1. TypeOK /\ ListShape
    <3>1. front = Null /\ live = {}
      BY DEF Init
    <3> QED
      BY <3>1, InitTyped DEF ListShape
  <2>2. Contents = <<>>
    BY <2>1, ContentsIsSequence DEF Init, ContentsFacts
  <2>3. Asking = {}
    BY DEF Init, Asking
  <2> QED
    BY <2>2, <2>3 DEF Init, Fifo!Init
<1>2. /\ TypeOK /\ TypeOK' /\ ListShape /\ ListShape'
      /\ ContentsFacts /\ ContentsFacts' /\ ArgPending /\ [Next]_vars
      => [Fifo!Next]_(Fifo!vars)
  <2> SUFFICES ASSUME TypeOK, ListShape, ContentsFacts, ContentsFacts', ArgPending,
                      [Next]_vars
               PROVE  Fifo!Next \/ UNCHANGED Fifo!vars
    OBVIOUS
  <2> USE DEF Goto
  <2>1. ASSUME UNCHANGED <<front, rear, item, invalid, arg, got>>, Asking' = Asking
        PROVE  UNCHANGED Fifo!vars
    BY <2>1, SameContents DEF Fifo!vars
  <2>2. CASE UNCHANGED vars
    BY <2>1, <2>2 DEF vars, Asking
  <2>3. ASSUME NEW t \in Threads, NEW i \in Items, Enqueue(t, i) PROVE Fifo!Next
    <3>1. /\ Contents' = Contents /\ arg' = [arg EXCEPT ![t] = i] /\ ~invalid
          /\ UNCHANGED <<invalid, got>>
      BY <2>3, SameContents DEF Enqueue, list
    <3>2. arg[t] = NoItem
      BY <2>3 DEF Enqueue, ArgPending
    <3>3. Asking' = Asking
      BY <2>3 DEF Enqueue, Asking, TypeOK
    <3> QED
      BY <3>1, <3>2, <3>3 DEF Fifo!Next, Fifo!Offer
  <2>4. ASSUME NEW t \in Threads, EnqueueStep(t) PROVE Fifo!Next \/ UNCHANGED Fifo!vars
    <3>1. CASE LinkNode(t)
      <4>1. Contents' = Append(Contents, arg[t])
        BY <3>1, LinkAppends
      <4>2. /\ arg' = [arg EXCEPT ![t] = NoItem] /\ arg[t] # NoItem
            /\ UNCHANGED <<invalid, got>>
        BY <3>1 DEF LinkNode, LinkAtRear, ArgPending
      <4>3. Asking' = Asking
        BY <3>1 DEF LinkNode, LinkAtRear, Asking, TypeOK
      <4> QED
        BY <4>1, <4>2, <4>3 DEF Fifo!Next, Fifo!Add
    <3>2. CASE EnqueueLock(t) \/ EnqueueUnlock(t) \/ Post(t)
      <4>1. UNCHANGED <<front, rear, item, invalid, arg, got>>
        BY <3>2 DEF EnqueueLock, EnqueueUnlock, Post, LockAt, UnlockAt, list
      <4>2. Asking' = Asking
        BY <3>2 DEF EnqueueLock, EnqueueUnlock, Post, LockAt, UnlockAt, Asking, TypeOK
      <4> QED
        BY <2>1, <4>1, <4>2
    <3> QED
      BY <2>4, <3>1, <3>2 DEF EnqueueStep
  <2>5. ASSUME NEW t \in Threads, Dequeue(t) PROVE Fifo!Next
    <3>1. /\ Contents' = Contents /\ got' = [got EXCEPT ![t] = NoItem]
          /\ UNCHANGED <<invalid, arg>>
      BY <2>5, SameContents DEF Dequeue, list
    <3>2. t \notin Asking
      BY <2>5 DEF Dequeue, Asking
    <3>3. Asking' = IF invalid THEN Asking ELSE Asking \cup {t}
      BY <2>5 DEF Dequeue, Asking, TypeOK
    <3>4. CASE invalid
      BY <3>1, <3>2, <3>3, <3>4 DEF Fifo!Next, Fifo!Refuse
    <3>5. CASE ~invalid
      BY <3>1, <3>2, <3>3, <3>5 DEF Fifo!Next, Fifo!Ask
    <3> QED
      BY <3>4, <3>5
  <2>6. ASSUME NEW t \in Threads, DequeueStep(t) PROVE Fifo!Next \/ UNCHANGED Fifo!vars
    <3>1. CASE TakeNode(t)
      <4>1. /\ Contents # <<>> /\ got' = [got EXCEPT ![t] = Head(Contents)]
            /\ Contents' = Tail(Contents) /\ UNCHANGED <<invalid, arg>>
        BY <3>1, UnlinkRemoves DEF TakeNode
      <4>2. t \in Asking /\ Asking' = Asking \ {t}
        BY <3>1 DEF TakeNode, Asking, TypeOK
      <4> QED
        BY <4>1, <4>2 DEF Fifo!Next, Fifo!Remove
    <3>2. CASE Wait(t) \/ DequeueLock(t) \/ TakeFault(t) \/ DequeueUnlock(t)
      <4>1. UNCHANGED <<front, rear, item, invalid, arg, got>>
        BY <3>2 DEF Wait, DequeueLock, TakeFault, DequeueUnlock, LockAt, UnlockAt, list
      <4>2. Asking' = Asking
        BY <3>2 DEF Wait, DequeueLock, TakeFault, DequeueUnlock, LockAt, UnlockAt,
                    Asking, TypeOK
      <4> QED
        BY <2>1, <4>1, <4>2
    <3> QED
      BY <2>6, <3>1, <3>2 DEF DequeueStep
  <2>7. ASSUME NEW t \in Threads, Invalidate(t) \/ InvalidateUnlock(t)
        PROVE  UNCHANGED Fifo!vars
    <3>1. UNCHANGED <<front, rear, item, invalid, arg, got>>
      BY <2>7 DEF Invalidate, InvalidateUnlock, LockAt, UnlockAt, list
    <3>2. Asking' = Asking
      BY <2>7 DEF Invalidate, InvalidateUnlock, LockAt, UnlockAt, Asking, TypeOK
    <3> QED
      BY <2>1, <3>1, <3>2
  <2>8. ASSUME NEW t \in Threads, DrainNode(t) PROVE Fifo!Next
    <3>1. Contents # <<>> /\ Contents' = Tail(Contents) /\ UNCHANGED <<invalid, arg, got>>
      BY <2>8, UnlinkRemoves DEF DrainNode
    <3>2. Asking' = Asking
      BY <2>8 DEF DrainNode, Asking, TypeOK
    <3> QED
      BY <3>1, <3>2 DEF Fifo!Next, Fifo!Destroy
  <2>9. ASSUME NEW t \in Threads, MarkInvalid(t) PROVE Fifo!Next
    <3>1. Contents' = Contents /\ Contents = <<>> /\ invalid' /\ UNCHANGED <<arg, got>>
      BY <2>9, SameContents DEF MarkInvalid, ContentsFacts, list
    <3>2. Asking' = Asking
      BY <2>9 DEF MarkInvalid, Asking, TypeOK
    <3> QED
      BY <3>1, <3>2 DEF Fifo!Next, Fifo!Close
  <2> QED
    BY <2>2, <2>3, <2>4, <2>5, <2>6, <2>7, <2>8, <2>9, StepCases DEF InvalidateStep
<1>3. TypeOK /\ ListShape => ContentsFacts
  BY ContentsIsSequence
<1> QED
  BY <1>1, <1>2, <1>3, TypeCorrect, ListCorrect, ArgCorrect, PTL
     DEF Spec, ImplementsFifo, Fifo!Spec
================================================================================
