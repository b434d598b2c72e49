----------------------------- MODULE CreamProofs -----------------------------
(***************************************************************************)
(* Proofs about the server, for any sets of workers, clients and keys, any *)
(* capacity and any hash function.  What is proved of the request queue    *)
(* and of the data store by themselves is used here: the server's runs are *)
(* runs of both.                                                           *)
(***************************************************************************)
EXTENDS CreamProps, FiniteSetTheorems, TLAPS

\* The queue and the store of the server, with the theorems about them.
RQ == INSTANCE RequestQueueProofs WITH
    Producers <- {Main}, Consumers <- Workers, Invalidators <- {},
    Items <- Clients, NoItem <- NoClient, MaxNodes <- Cardinality(Clients),
    invalid <- queueInvalid, pc <- queuePc

DS == INSTANCE HashMapTableProofs WITH
    Threads <- Workers, MaxCalls <- Cardinality(Workers),
    Operations <- {"force", "get", "clear"},
    invalid <- mapInvalid, pc <- mapPc

-----------------------------------------------------------------------------
(* The server's steps on its queue and its store are theirs *)

LEMMA QueueCalls ==
    ASSUME NEW t, NEW c
    PROVE  /\ request_queue!Enqueue(t, c) => RQ!Enqueue(t, c)
           /\ request_queue!Dequeue(t) => RQ!Dequeue(t)
<1>1. request_queue!Cardinality(request_queue!Linking) = RQ!Cardinality(RQ!Linking)
  BY DEF request_queue!Cardinality, RQ!Cardinality, request_queue!Linking,
     RQ!Linking, request_queue!Threads, RQ!Threads
<1> QED
  BY <1>1
  DEF request_queue!Enqueue, RQ!Enqueue, request_queue!Dequeue, RQ!Dequeue,
     request_queue!Goto, RQ!Goto, request_queue!list, RQ!list

LEMMA QueueSteps ==
    ASSUME NEW t
    PROVE  /\ request_queue!EnqueueStep(t) => RQ!EnqueueStep(t)
           /\ request_queue!DequeueStep(t) => RQ!DequeueStep(t)
<1>1. request_queue!EnqueueStep(t) => RQ!EnqueueStep(t)
  BY DEF
     request_queue!EnqueueStep, RQ!EnqueueStep, request_queue!EnqueueLock,
     RQ!EnqueueLock, request_queue!LinkNode, RQ!LinkNode,
     request_queue!EnqueueUnlock, RQ!EnqueueUnlock, request_queue!Post,
     RQ!Post, request_queue!LinkAtRear, RQ!LinkAtRear, request_queue!Nodes,
     RQ!Nodes, request_queue!Null, RQ!Null, request_queue!LockAt, RQ!LockAt,
     request_queue!UnlockAt, RQ!UnlockAt, request_queue!Acquire, RQ!Acquire,
     request_queue!Release, RQ!Release, request_queue!Goto, RQ!Goto,
     request_queue!list, RQ!list
<1>2. request_queue!DequeueStep(t) => RQ!DequeueStep(t)
  BY DEF
     request_queue!DequeueStep, RQ!DequeueStep, request_queue!Wait, RQ!Wait,
     request_queue!DequeueLock, RQ!DequeueLock, request_queue!TakeNode,
     RQ!TakeNode, request_queue!TakeFault, RQ!TakeFault,
     request_queue!DequeueUnlock, RQ!DequeueUnlock, request_queue!LockAt,
     RQ!LockAt, request_queue!UnlockAt, RQ!UnlockAt, request_queue!Acquire,
     RQ!Acquire, request_queue!Release, RQ!Release, request_queue!Goto,
     RQ!Goto, request_queue!list, RQ!list
<1> QED
  BY <1>1, <1>2

LEMMA StoreCalls ==
    ASSUME NEW t, NEW k
    PROVE  /\ data_store!Put(t, k, TRUE) => DS!Put(t, k, TRUE)
           /\ data_store!Get(t, k) => DS!Get(t, k)
           /\ data_store!ClearMap(t) => DS!ClearMap(t)
  BY DEF
     data_store!Put, DS!Put, data_store!Get, DS!Get, data_store!ClearMap,
     DS!ClearMap, data_store!Call, DS!Call, data_store!Goto, DS!Goto,
     data_store!LockForWriting, DS!LockForWriting, data_store!table, DS!table,
     data_store!locks, DS!locks

LEMMA StoreSteps == ASSUME NEW t PROVE data_store!InCall(t) => DS!InCall(t)
<1> USE DEF
     data_store!Goto, DS!Goto, data_store!Return, DS!Return,
     data_store!LockForWriting, DS!LockForWriting, data_store!table, DS!table,
     data_store!locks, DS!locks, data_store!callers, DS!callers,
     data_store!NoRequest, DS!NoRequest, data_store!NoVal, DS!NoVal
<1>1. data_store!GetStep(t) => DS!GetStep(t)
  BY DEF
     data_store!GetStep, DS!GetStep, data_store!EnterLock, DS!EnterLock,
     data_store!CountIn, DS!CountIn, data_store!FirstReader, DS!FirstReader,
     data_store!EnterUnlock, DS!EnterUnlock, data_store!ReadTable,
     DS!ReadTable, data_store!LeaveLock, DS!LeaveLock, data_store!CountOut,
     DS!CountOut, data_store!LeaveUnlock, DS!LeaveUnlock,
     data_store!LockFields, DS!LockFields, data_store!UnlockFields,
     DS!UnlockFields, data_store!WriteLockLeft, DS!WriteLockLeft,
     data_store!Lookups, DS!Lookups, data_store!StopsAt, DS!StopsAt,
     data_store!Nearest, DS!Nearest, data_store!Probe, DS!Probe,
     data_store!Untouched, DS!Untouched, data_store!Slots, DS!Slots,
     data_store!Garbage, DS!Garbage, data_store!Vals, DS!Vals
<1>2. data_store!WriteStep(t) => DS!WriteStep(t)
  BY DEF
     data_store!WriteStep, DS!WriteStep, data_store!DeleteBody, DS!DeleteBody,
     data_store!ClearBody, DS!ClearBody, data_store!InvalidateBody,
     DS!InvalidateBody, data_store!WriteUnlock, DS!WriteUnlock,
     data_store!Deleted, DS!Deleted, data_store!StopsAt, DS!StopsAt,
     data_store!Nearest, DS!Nearest, data_store!Probe, DS!Probe,
     data_store!Untouched, DS!Untouched, data_store!Slots, DS!Slots
<1>3. data_store!PutStep(t) => DS!PutStep(t)
  BY DEF
     data_store!PutStep, DS!PutStep, data_store!PutLock, DS!PutLock,
     data_store!PutKey, DS!PutKey, data_store!PutVal, DS!PutVal,
     data_store!PutFull, DS!PutFull, data_store!PutDistance, DS!PutDistance,
     data_store!Nearest, DS!Nearest, data_store!Takes, DS!Takes,
     data_store!Probe, DS!Probe, data_store!Slots, DS!Slots
<1>4. data_store!UseAfterFree(t) => DS!UseAfterFree(t)
  BY DEF
     data_store!UseAfterFree, DS!UseAfterFree, data_store!UsePCs, DS!UsePCs
<1> QED
  BY <1>1, <1>2, <1>3, <1>4 DEF data_store!InCall, DS!InCall

-----------------------------------------------------------------------------
(* Main only enqueues, the workers only dequeue *)

EnqueuePCs == {"idle", "enqLock", "enqLink", "enqUnlock", "enqPost"}
DequeuePCs == {"idle", "deqWait", "deqLock", "deqTake", "deqUnlock", "fault"}

Roles ==
    /\ accepted \in Clients \cup {NoClient}
    /\ queuePc \in [{Main} \cup Workers -> EnqueuePCs \cup DequeuePCs]
    /\ queuePc[Main] \in EnqueuePCs
    /\ \A w \in Workers : queuePc[w] \in DequeuePCs

\* The steps of the server that are calls on the queue or steps of such calls.
QueueMove ==
    \/ accepted \in Clients /\ request_queue!Enqueue(Main, accepted)
    \/ request_queue!EnqueueStep(Main)
    \/ \E w \in Workers : request_queue!Dequeue(w) \/ request_queue!DequeueStep(w)

\* The steps that are calls on the store or steps of such calls.
StoreMove ==
    \E w \in Workers :
        \/ \E k \in Keys : data_store!Put(w, k, TRUE) \/ data_store!Get(w, k)
        \/ data_store!ClearMap(w)
        \/ data_store!InCall(w)

\* A step is one of the queue or leaves the queue as it is.
LEMMA QueueMoves ==
    ASSUME Roles, [Next]_vars
    PROVE  QueueMove \/ UNCHANGED queueVars
<1>1. CASE UNCHANGED vars
  BY <1>1 DEF vars
<1>2. ASSUME EnqueueConnection PROVE QueueMove
  BY <1>2 DEF EnqueueConnection, Roles, QueueMove
<1>3. ASSUME NEW t \in {Main} \cup Workers, QueueStep(t) PROVE QueueMove
  <2>1. request_queue!EnqueueStep(t) => queuePc[t] \in EnqueuePCs \ {"idle"}
    BY DEF request_queue!EnqueueStep, request_queue!EnqueueLock, request_queue!LinkNode,
           request_queue!EnqueueUnlock, request_queue!Post, request_queue!LockAt,
           request_queue!UnlockAt, request_queue!Goto, EnqueuePCs
  <2>2. request_queue!DequeueStep(t) => queuePc[t] \in DequeuePCs \ {"idle"}
    BY DEF request_queue!DequeueStep, request_queue!Wait, request_queue!DequeueLock,
           request_queue!TakeNode, request_queue!TakeFault, request_queue!DequeueUnlock,
           request_queue!LockAt, request_queue!UnlockAt, request_queue!Goto, DequeuePCs
  <2>3. t = Main => queuePc[t] \notin DequeuePCs \ {"idle"}
    BY DEF Roles, EnqueuePCs, DequeuePCs
  <2>4. t \in Workers => queuePc[t] \notin EnqueuePCs \ {"idle"}
    BY DEF Roles, EnqueuePCs, DequeuePCs
  <2> QED
    BY <1>3, <2>1, <2>2, <2>3, <2>4 DEF QueueStep, QueueMove
<1>4. ASSUME NEW w \in Workers, CallDequeue(w) PROVE QueueMove
  BY <1>4 DEF CallDequeue, QueueMove
<1>5. ASSUME NEW c \in Clients, ClientAction(c) \/ Accept(c) PROVE UNCHANGED queueVars
  BY <1>5 DEF ClientAction, Connect, Send, HangUp, Reset, ClientStep, Accept
<1>6. ASSUME NEW w \in Workers,
             TakeConnection(w) \/ ParseRequest(w) \/ HandlePut(w) \/ HandleGet(w)
             \/ HandleClear(w) \/ RefusedByStore(w) \/ StoreStep(w) \/ StoreReturns(w)
      PROVE  UNCHANGED queueVars
  BY <1>6 DEF TakeConnection, ParseRequest, HandlePut, HandleGet, HandleClear,
              RefusedByStore, StoreStep, StoreReturns
<1>7. ASSUME NEW w \in Workers, Respond(w) \/ WriteValue(w) \/ CloseAndReturn(w)
      PROVE  UNCHANGED queueVars
  BY <1>7 DEF Respond, WriteValue, CloseAndReturn
<1>8. ASSUME AcceptError \/ \E w \in Workers : WorkerError(w) PROVE UNCHANGED queueVars
  BY <1>8 DEF AcceptError, WorkerError, ReadError, WriteError, Overrun, BadKey, Exit
<1> QED
  BY <1>1, <1>2, <1>3, <1>4, <1>5, <1>6, <1>7, <1>8 DEF Next, MainStep, WorkerStep

\* A step is one of the store or leaves the store as it is.
LEMMA StoreMoves ==
    ASSUME [Next]_vars
    PROVE  StoreMove \/ UNCHANGED mapVars
<1>1. CASE UNCHANGED vars
  BY <1>1 DEF vars
<1>2. ASSUME NEW w \in Workers,
             HandlePut(w) \/ HandleGet(w) \/ HandleClear(w) \/ StoreStep(w)
      PROVE  StoreMove
  BY <1>2 DEF HandlePut, HandleGet, HandleClear, StoreStep, StoreMove
<1>3. ASSUME NEW c \in Clients, ClientAction(c) \/ Accept(c) PROVE UNCHANGED mapVars
  BY <1>3 DEF ClientAction, Connect, Send, HangUp, Reset, ClientStep, Accept
<1>4. ASSUME NEW t, QueueStep(t) \/ EnqueueConnection PROVE UNCHANGED mapVars
  BY <1>4 DEF QueueStep, EnqueueConnection
<1>5. ASSUME NEW w \in Workers,
             CallDequeue(w) \/ TakeConnection(w) \/ ParseRequest(w)
             \/ RefusedByStore(w) \/ StoreReturns(w)
             \/ Respond(w) \/ WriteValue(w) \/ CloseAndReturn(w)
      PROVE  UNCHANGED mapVars
  BY <1>5 DEF CallDequeue, TakeConnection, ParseRequest, RefusedByStore, StoreReturns,
              Respond, WriteValue, CloseAndReturn
<1>6. ASSUME AcceptError \/ \E w \in Workers : WorkerError(w) PROVE UNCHANGED mapVars
  BY <1>6 DEF AcceptError, WorkerError, ReadError, WriteError, Overrun, BadKey, Exit
<1> QED
  BY <1>1, <1>2, <1>3, <1>4, <1>5, <1>6 DEF Next, MainStep, WorkerStep

LEMMA RolesKept == Spec => []Roles
<1>1. Init => Roles
  BY DEF Init, request_queue!Init, request_queue!Threads, Roles, EnqueuePCs, DequeuePCs
<1>2. Roles /\ [Next]_vars => Roles'
  <2> SUFFICES ASSUME Roles, [Next]_vars PROVE Roles'
    OBVIOUS
  <2>1. accepted' \in Clients \cup {NoClient}
    BY DEF Roles, Next, vars, threadVars, MainStep, EnqueueConnection, QueueStep, Accept,
           AcceptError, WorkerStep, WorkerError, CallDequeue, TakeConnection, ParseRequest,
           HandlePut, HandleGet, HandleClear, RefusedByStore, StoreStep, StoreReturns,
           Respond, WriteValue, CloseAndReturn, ReadError, WriteError, Overrun, BadKey, Exit,
           ClientAction, Connect, Send, HangUp, Reset, ClientStep
  <2>2. CASE UNCHANGED queueVars
    BY <2>1, <2>2 DEF queueVars, Roles
  <2>3. ASSUME accepted \in Clients, request_queue!Enqueue(Main, accepted) PROVE Roles'
    BY <2>1, <2>3, MainAssumption
       DEF Roles, EnqueuePCs, DequeuePCs, request_queue!Enqueue, request_queue!Goto
  <2>4. ASSUME request_queue!EnqueueStep(Main) PROVE Roles'
    BY <2>1, <2>4, MainAssumption
       DEF Roles, EnqueuePCs, DequeuePCs, request_queue!EnqueueStep,
           request_queue!EnqueueLock, request_queue!LinkNode, request_queue!EnqueueUnlock,
           request_queue!Post, request_queue!LockAt, request_queue!UnlockAt,
           request_queue!Goto
  <2>5. ASSUME NEW w \in Workers, request_queue!Dequeue(w) \/ request_queue!DequeueStep(w)
        PROVE  Roles'
    BY <2>1, <2>5, MainAssumption
       DEF Roles, EnqueuePCs, DequeuePCs, request_queue!Dequeue, request_queue!DequeueStep,
           request_queue!Wait, request_queue!DequeueLock, request_queue!TakeNode,
           request_queue!TakeFault, request_queue!DequeueUnlock, request_queue!LockAt,
           request_queue!UnlockAt, request_queue!Goto
  <2> QED
    BY <2>2, <2>3, <2>4, <2>5, QueueMoves DEF QueueMove
<1> QED
  BY <1>1, <1>2, PTL DEF Spec

\* Every run of the server is, on the queue's variables, a run of the queue alone:
\* main as its only producer, the workers as its consumers, nobody to invalidate it.
THEOREM ServerRunsQueue == Spec => RQ!Spec
<1>1. Init => RQ!Init
  BY DEF Init, request_queue!Init, RQ!Init, request_queue!Threads, RQ!Threads,
         request_queue!Nodes, RQ!Nodes, request_queue!Null, RQ!Null
<1>2. Roles /\ [Next]_vars => [RQ!Next]_(RQ!vars)
  <2> SUFFICES ASSUME Roles, [Next]_vars PROVE [RQ!Next]_(RQ!vars)
    OBVIOUS
  <2>1. CASE UNCHANGED queueVars
    BY <2>1 DEF queueVars, RQ!vars
  <2>2. CASE QueueMove
    BY <2>2, QueueCalls, QueueSteps DEF QueueMove, RQ!Next
  <2> QED
    BY <2>1, <2>2, QueueMoves
<1> QED
  BY <1>1, <1>2, RolesKept, PTL DEF Spec, RQ!Spec

\* Every run of the server is, on the store's variables, a run of the store alone,
\* whose callers put by force, get and clear, and make one call each.
THEOREM ServerRunsStore == Spec => DS!Spec
<1>1. Init => DS!Init
  BY DEF Init, data_store!Init, DS!Init, data_store!Slots, DS!Slots, data_store!Vals,
         DS!Vals, data_store!EmptySlot, DS!EmptySlot, data_store!NoRequest, DS!NoRequest,
         data_store!NoVal, DS!NoVal
<1>2. [Next]_vars => [DS!Next]_(DS!vars)
  <2> SUFFICES ASSUME [Next]_vars PROVE [DS!Next]_(DS!vars)
    OBVIOUS
  <2>1. CASE UNCHANGED mapVars
    BY <2>1 DEF mapVars, DS!vars
  <2>2. CASE StoreMove
    BY <2>2, StoreCalls, StoreSteps DEF StoreMove, DS!Next, DS!StartCall
  <2> QED
    BY <2>1, <2>2, StoreMoves
<1> QED
  BY <1>1, <1>2, PTL DEF Spec, DS!Spec

-----------------------------------------------------------------------------
(* What is proved of the queue and of the store holds in the server *)

\* The assumptions on the queue's constants.
LEMMA QueueConstants ==
    /\ RQ!IsFiniteSet(RQ!Threads) /\ NoThread \notin RQ!Threads
    /\ IsFiniteSet(RQ!Threads)
    /\ NoClient \notin Clients /\ Cardinality(Clients) \in Nat
<1>1. IsFiniteSet({Main} \cup Workers)
  BY ThreadsAssumption, FS_AddElement
<1>2. RQ!Threads = {Main} \cup Workers
  BY DEF RQ!Threads
<1>3. RQ!IsFiniteSet(RQ!Threads)
  BY <1>1, <1>2 DEF RQ!IsFiniteSet, IsFiniteSet
<1> QED
  BY <1>1, <1>2, <1>3, ThreadsAssumption, ClientsAssumption, FS_CardinalityType

\* The assumptions on the store's constants.
LEMMA StoreConstants ==
    /\ DS!IsFiniteSet(Workers) /\ IsFiniteSet(Workers) /\ NoThread \notin Workers
    /\ NoKey \notin Keys
    /\ Capacity \in Nat \ {0} /\ SizeModulus \in Nat \ {0}
    /\ Home \in [Keys \cup {NoKey} -> DS!Slots]
    /\ Cardinality(Workers) \in Nat
<1>1. DS!IsFiniteSet(Workers)
  BY ThreadsAssumption DEF DS!IsFiniteSet, IsFiniteSet
<1> QED
  BY <1>1, ThreadsAssumption, StoreAssumption, FS_CardinalityType DEF DS!Slots

LEMMA QueueTyped == Spec => []RQ!TypeOK
<1>1. RQ!Spec => []RQ!TypeOK
  BY RQ!TypeCorrect, QueueConstants
<1> QED
  BY <1>1, ServerRunsQueue

LEMMA StoreTyped == Spec => []DS!TypeOK
<1>1. DS!Spec => []DS!TypeOK
  BY DS!MapTypeCorrect, StoreConstants
<1> QED
  BY <1>1, ServerRunsStore

\* Nobody invalidates the queue.
NobodyInvalidates == queueInvalid = FALSE

LEMMA NeverInvalidated == Spec => []NobodyInvalidates
<1>1. Init => NobodyInvalidates
  BY DEF Init, request_queue!Init, NobodyInvalidates
<1>2. Roles /\ NobodyInvalidates /\ [Next]_vars => NobodyInvalidates'
  <2>1. QueueMove => queueInvalid' = queueInvalid
    BY DEF QueueMove, request_queue!Enqueue, request_queue!Dequeue,
           request_queue!EnqueueStep, request_queue!DequeueStep,
           request_queue!EnqueueLock, request_queue!LinkNode,
           request_queue!EnqueueUnlock, request_queue!Post, request_queue!Wait,
           request_queue!DequeueLock, request_queue!TakeNode, request_queue!TakeFault,
           request_queue!DequeueUnlock, request_queue!LockAt, request_queue!UnlockAt
  <2> QED
    BY <2>1, QueueMoves DEF NobodyInvalidates, queueVars
<1> QED
  BY <1>1, <1>2, RolesKept, PTL DEF Spec

\* A put that the store has completed stays visible in the server: the store
\* promises it to callers that delete nothing and put no more than it has slots.
THEOREM StoredIsFoundAgain == Spec => []StoredIsFound
<1>1. Spec => []DS!StoredFound
  <2>1. "delete" \notin {"force", "get", "clear"}
    OBVIOUS
  <2>2. DS!Spec => []DS!StoredFound
    BY <2>1, DS!StoredValuesFound, StoreConstants
  <2> QED
    BY <2>2, ServerRunsStore
<1>2. DS!StoredFound => StoredIsFound
  <2> SUFFICES ASSUME DS!StoredFound,
                      Cardinality({v \in 1 .. calls : keyOf[v] # NoKey}) <= Capacity,
                      NEW v \in Stored, NEW found \in data_store!Lookups(keyOf[v])
               PROVE  found \in 1 .. calls /\ keyOf[found] = keyOf[v]
    BY DEF StoredIsFound
  <2>1. DS!Few
    BY DEF DS!Few, DS!Puts, DS!Cardinality, Cardinality
  <2>2. v \in DS!Stored
    BY DEF Stored, DS!Stored, DS!Puts
  <2>3. found \in DS!Lookups(keyOf[v])
    BY DEF data_store!Lookups, data_store!StopsAt, data_store!Nearest, data_store!Probe,
           data_store!Untouched, data_store!Slots, data_store!Garbage, data_store!Vals,
           data_store!NoVal, DS!Lookups, DS!StopsAt, DS!Nearest, DS!Probe, DS!Untouched,
           DS!Slots, DS!Garbage, DS!Vals, DS!NoVal
  <2> QED
    BY <2>1, <2>2, <2>3 DEF DS!StoredFound
<1> QED
  BY <1>1, <1>2, PTL

-----------------------------------------------------------------------------
(* The inductive invariant of the server *)

\* Where a connection can be, as the places of main and of the workers tell.
PlaceInv ==
    /\ accepted # NoClient => queuePc[Main] = "idle"
    /\ \A w \in Workers :
         /\ pc[w] \in {"start", "dequeue"} <=> connfd[w] = NoClient
         /\ pc[w] # "dequeue" => queuePc[w] = "idle"
         /\ pc[w] = "dequeue" =>
              IF queuePc[w] \in {"deqUnlock", "idle"} THEN got[w] \in Clients
                                                      ELSE got[w] = NoClient
    /\ \A n \in live : item[n] \in Clients

\* A connection is nowhere before it is accepted, and then in one place.
Unseen(c) == client[c] \in {"away", "backlog"}
InOnePlace(c) ==
    IF Unseen(c)
    THEN Owners(c) = {} /\ NodesOf(c) = {}
    ELSE \/ (\E t \in {Main} \cup Workers : Owners(c) = {t}) /\ NodesOf(c) = {}
         \/ Owners(c) = {} /\ \E n \in live : NodesOf(c) = {n}

OwnerInv == \A c \in Clients : InOnePlace(c)

\* The worker that answered a client still has its connection; a client whose
\* header was cut short can send no other.
Gone(c) == client[c] \in {"closed", "served"}

AnswerInv ==
    /\ \A c \in Clients : answer[c] # NoAnswer =>
         /\ IF delivered[c] > 0 THEN answer[c] = ResponseCode(sent[c]) ELSE Gone(c)
         /\ \E w \in Workers : connfd[w] = c /\ pc[w] \in {"writeValue", "close", "done"}
    /\ \A w \in Workers :
         /\ pc[w] \in {"writeValue", "close", "done"} => answer[connfd[w]] # NoAnswer
         /\ pc[w] \in {"readBody", "clear", "inStore", "respond"} =>
              IF delivered[connfd[w]] > 0 THEN rheader[w] = sent[connfd[w]]
                                          ELSE Gone(connfd[w])

-----------------------------------------------------------------------------
(* The server's own variables *)

LEMMA ResponseCodeIn ==
    ASSUME NEW h PROVE ResponseCode(h) \in ResponseCodes /\ ResponseCode(h) # NoAnswer
  BY DEF ResponseCode, ResponseCodes, NoAnswer

LEMMA InitServer == Init => TypeOK
<1> SUFFICES ASSUME Init PROVE TypeOK
  OBVIOUS
<1>1. accepted = NoClient /\ exited = FALSE
  BY DEF Init
<1>2. pc \in [Workers -> WorkerPCs] /\ connfd \in [Workers -> Clients \cup {NoClient}]
  BY DEF Init, WorkerPCs
<1>3. /\ rheader \in [Workers -> Headers \cup {NoHeader}]
      /\ sent \in [Clients -> Headers \cup {NoHeader}]
  BY Zenon DEF Init
<1>4. client \in [Clients -> {"away", "backlog", "up", "closed", "reset", "served"}]
  BY DEF Init
<1>5. delivered \in [Clients -> 0 .. 2] /\ answer \in [Clients -> ResponseCodes \cup {NoAnswer}]
  BY DEF Init
<1> QED
  BY <1>1, <1>2, <1>3, <1>4, <1>5 DEF TypeOK

LEMMA TypesKept == TypeOK /\ PlaceInv /\ RQ!TypeOK /\ [Next]_vars => TypeOK'
<1> SUFFICES ASSUME TypeOK, PlaceInv, RQ!TypeOK, [Next]_vars PROVE TypeOK'
  OBVIOUS
<1> USE DEF Goto, threadVars, clientVars
<1>1. CASE UNCHANGED vars
  BY <1>1 DEF vars, TypeOK
<1>2. ASSUME NEW t, QueueStep(t) \/ StoreStep(t) PROVE TypeOK'
  BY <1>2 DEF QueueStep, StoreStep, TypeOK
<1>3. ASSUME NEW c \in Clients, Connect(c) \/ HangUp(c) \/ Reset(c) PROVE TypeOK'
  BY <1>3 DEF Connect, HangUp, Reset, ClientStep, TypeOK
<1>4. ASSUME NEW c \in Clients, Send(c) PROVE TypeOK'
  <2>1. delivered' \in [Clients -> 0 .. 2]
    BY <1>4 DEF Send, TypeOK
  <2>2. PICK h \in Headers :
          sent' = IF delivered[c] = 0 THEN [sent EXCEPT ![c] = h] ELSE sent
    BY <1>4 DEF Send
  <2>3. sent' \in [Clients -> Headers \cup {NoHeader}]
    BY <2>2 DEF TypeOK
  <2> QED
    BY <1>4, <2>1, <2>3 DEF Send, TypeOK
<1>5. ASSUME NEW c \in Clients, Accept(c) PROVE TypeOK'
  BY <1>5 DEF Accept, TypeOK
<1>6. CASE EnqueueConnection
  BY <1>6 DEF EnqueueConnection, TypeOK
<1>7. ASSUME NEW w \in Workers, CallDequeue(w) PROVE TypeOK'
  BY <1>7 DEF CallDequeue, TypeOK, WorkerPCs
<1>8. ASSUME NEW w \in Workers, TakeConnection(w) PROVE TypeOK'
  <2>1. got[w] \in Clients \cup {NoClient}
    BY DEF RQ!TypeOK, RQ!Threads
  <2> QED
    BY <1>8, <2>1 DEF TakeConnection, TypeOK, WorkerPCs
<1>9. ASSUME NEW w \in Workers, ParseRequest(w) PROVE TypeOK'
  <2>1. PICK h \in IF delivered[connfd[w]] > 0 THEN {sent[connfd[w]]} ELSE Headers :
          /\ pc' = [pc EXCEPT ![w] = AfterHeader(h)]
          /\ rheader' = [rheader EXCEPT ![w] = h]
    BY <1>9 DEF ParseRequest
  <2>2. AfterHeader(h) \in WorkerPCs
    BY DEF AfterHeader, WorkerPCs
  <2>3. pc' \in [Workers -> WorkerPCs]
    BY <2>1, <2>2 DEF TypeOK
  <2>4. connfd[w] \in Clients
    BY <1>9 DEF ParseRequest, PlaceInv, TypeOK
  <2>5. h \in Headers \cup {NoHeader}
    BY <2>1, <2>4 DEF TypeOK
  <2> QED
    BY <1>9, <2>1, <2>3, <2>5 DEF ParseRequest, TypeOK
<1>10. ASSUME NEW w \in Workers, HandlePut(w) \/ HandleGet(w) \/ HandleClear(w) PROVE TypeOK'
  BY <1>10 DEF HandlePut, HandleGet, HandleClear, TypeOK, WorkerPCs
<1>11. ASSUME NEW w \in Workers, RefusedByStore(w) \/ StoreReturns(w) \/ WriteValue(w)
       PROVE  TypeOK'
  BY <1>11 DEF RefusedByStore, StoreReturns, WriteValue, TypeOK, WorkerPCs
<1>12. ASSUME NEW w \in Workers, Respond(w) PROVE TypeOK'
  <2>1. pc' \in [Workers -> WorkerPCs]
    BY <1>12 DEF Respond, TypeOK, WorkerPCs
  <2>2. answer' \in [Clients -> ResponseCodes \cup {NoAnswer}]
    BY <1>12, ResponseCodeIn DEF Respond, TypeOK
  <2> QED
    BY <1>12, <2>1, <2>2 DEF Respond, TypeOK
<1>13. ASSUME NEW w \in Workers, CloseAndReturn(w) PROVE TypeOK'
  BY <1>13 DEF CloseAndReturn, TypeOK, WorkerPCs
<1>14. CASE AcceptError \/ \E w \in Workers : WorkerError(w)
  BY <1>14 DEF AcceptError, WorkerError, ReadError, WriteError, Overrun, BadKey, Exit, TypeOK
<1> QED
  BY <1>1, <1>2, <1>3, <1>4, <1>5, <1>6, <1>7, <1>8, <1>9, <1>10, <1>11, <1>12, <1>13, <1>14
     DEF Next, MainStep, WorkerStep, ClientAction

\* What the queue itself guarantees.
QueueInv == RQ!TypeOK /\ RQ!ListShape /\ RQ!ArgPending

LEMMA QueueInvariant == Spec => []QueueInv
<1>1. RQ!Spec => []RQ!ListShape
  BY RQ!ListCorrect, QueueConstants
<1>2. RQ!Spec => []RQ!ArgPending
  BY RQ!ArgCorrect, QueueConstants
<1> QED
  BY <1>1, <1>2, QueueTyped, ServerRunsQueue, PTL DEF QueueInv

\* The steps of the queue, as the server sees them.
QueueLinks == request_queue!LinkNode(Main)
QueueTakes(w) == request_queue!TakeNode(w)
QueueTurns ==
    /\ UNCHANGED <<arg, got, live, item>>
    /\ queuePc' \in [{Main} \cup Workers -> EnqueuePCs \cup DequeuePCs]
    /\ queuePc'[Main] # "idle" => queuePc[Main] # "idle"
    /\ \A w \in Workers :
         /\ queuePc[w] = "idle" <=> queuePc'[w] = "idle" /\ queuePc[w] # "deqUnlock"
         /\ queuePc'[w] \in {"deqUnlock", "idle"} <=> queuePc[w] \in {"deqUnlock", "idle"}

LEMMA QueueStepCases ==
    ASSUME Roles, QueueInv, NEW t \in {Main} \cup Workers, QueueStep(t)
    PROVE  QueueTurns \/ QueueLinks \/ \E w \in Workers : QueueTakes(w)
<1> USE MainAssumption DEF EnqueuePCs, DequeuePCs, request_queue!Goto, Roles
<1>1. CASE request_queue!EnqueueLock(t) \/ request_queue!EnqueueUnlock(t) \/ request_queue!Post(t)
  <2>1. t = Main
    BY <1>1 DEF request_queue!EnqueueLock, request_queue!EnqueueUnlock, request_queue!Post,
                request_queue!LockAt, request_queue!UnlockAt
  <2> QED
    BY <1>1, <2>1
       DEF request_queue!EnqueueLock, request_queue!EnqueueUnlock, request_queue!Post,
           request_queue!LockAt, request_queue!UnlockAt, request_queue!list, QueueTurns
<1>2. CASE request_queue!LinkNode(t)
  <2>1. t = Main
    BY <1>2 DEF request_queue!LinkNode
  <2> QED
    BY <1>2, <2>1 DEF QueueLinks
<1>3. CASE request_queue!TakeNode(t)
  <2>1. t \in Workers
    BY <1>3 DEF request_queue!TakeNode
  <2> QED
    BY <1>3, <2>1 DEF QueueTakes
<1>4. CASE request_queue!Wait(t) \/ request_queue!DequeueLock(t) \/ request_queue!TakeFault(t)
           \/ request_queue!DequeueUnlock(t)
  <2>1. t \in Workers
    BY <1>4 DEF request_queue!Wait, request_queue!DequeueLock, request_queue!TakeFault,
                request_queue!DequeueUnlock, request_queue!LockAt, request_queue!UnlockAt
  <2> QED
    BY <1>4, <2>1
       DEF request_queue!Wait, request_queue!DequeueLock, request_queue!TakeFault,
           request_queue!DequeueUnlock, request_queue!LockAt, request_queue!UnlockAt,
           request_queue!list, QueueTurns
<1> QED
  BY <1>1, <1>2, <1>3, <1>4
     DEF QueueStep, request_queue!EnqueueStep, request_queue!DequeueStep

\* Linking and taking a node, in the server's terms.
LEMMA LinkEffect ==
    ASSUME Roles, QueueInv, QueueLinks
    PROVE  \E c \in Clients : \E n \in request_queue!Nodes \ live :
             /\ queuePc[Main] = "enqLink" /\ queuePc' = [queuePc EXCEPT ![Main] = "enqUnlock"]
             /\ arg[Main] = c /\ arg' = [arg EXCEPT ![Main] = NoClient]
             /\ live' = live \cup {n} /\ item' = [item EXCEPT ![n] = c]
             /\ got' = got
<1>1. /\ allocated + 1 \in request_queue!Nodes
      /\ queuePc[Main] = "enqLink" /\ queuePc' = [queuePc EXCEPT ![Main] = "enqUnlock"]
      /\ arg' = [arg EXCEPT ![Main] = NoClient] /\ got' = got
      /\ live' = live \cup {allocated + 1}
      /\ item' = [item EXCEPT ![allocated + 1] = arg[Main]]
  BY DEF QueueLinks, request_queue!LinkNode, request_queue!Goto
<1>2. arg[Main] \in Clients
  BY <1>1 DEF QueueInv, RQ!ArgPending, RQ!TypeOK, RQ!Threads
<1>3. allocated + 1 \notin live
  <2>1. Cardinality(Clients) \in Nat
    BY QueueConstants
  <2>2. allocated \in Nat /\ rear \in Nat /\ front \in Nat
    BY <2>1 DEF QueueInv, RQ!TypeOK, RQ!Nodes, RQ!Null
  <2> QED
    BY <2>2 DEF QueueInv, RQ!ListShape
<1> QED
  BY <1>1, <1>2, <1>3

LEMMA TakeEffect ==
    ASSUME Roles, QueueInv, NEW w \in Workers, QueueTakes(w)
    PROVE  /\ queuePc[w] = "deqTake" /\ queuePc' = [queuePc EXCEPT ![w] = "deqUnlock"]
           /\ front \in live /\ live' = live \ {front}
           /\ got' = [got EXCEPT ![w] = item[front]]
           /\ arg' = arg /\ item' = item
  BY DEF QueueTakes, request_queue!TakeNode, request_queue!Goto

\* What a queue step leaves to the rest of the server.
LEMMA QueueStepFrame ==
    ASSUME NEW t, QueueStep(t)
    PROVE  UNCHANGED <<accepted, pc, connfd, rheader, exited, client, delivered, sent, answer>>
  BY DEF QueueStep, threadVars, clientVars

\* Steps of the server that leave the queue, and at most move a worker that is
\* not in dequeue.
LEMMA PlaceKept ==
    ASSUME TypeOK, Roles, Roles', QueueInv, QueueInv', NobodyInvalidates, PlaceInv, [Next]_vars
    PROVE  PlaceInv'
<1> USE DEF Goto
<1>0. /\ queuePc \in [{Main} \cup Workers -> EnqueuePCs \cup DequeuePCs]
      /\ got \in [{Main} \cup Workers -> Clients \cup {NoClient}]
      /\ pc \in [Workers -> WorkerPCs] /\ connfd \in [Workers -> Clients \cup {NoClient}]
      /\ Main \notin Workers /\ NoClient \notin Clients
      /\ live \subseteq request_queue!Nodes
      /\ item \in [request_queue!Nodes -> Clients \cup {NoClient}]
  BY MainAssumption, ClientsAssumption
     DEF Roles, QueueInv, RQ!TypeOK, RQ!Threads, RQ!Nodes, request_queue!Nodes, TypeOK
<1>1. ASSUME UNCHANGED <<accepted, pc, connfd, queueVars>> PROVE PlaceInv'
  BY <1>1 DEF PlaceInv, queueVars
<1>2. CASE UNCHANGED vars
  BY <1>1, <1>2 DEF vars, threadVars
<1>3. ASSUME NEW c \in Clients, ClientAction(c) PROVE PlaceInv'
  BY <1>1, <1>3 DEF ClientAction, Connect, Send, HangUp, Reset, ClientStep, threadVars
<1>4. CASE AcceptError \/ \E w \in Workers : WorkerError(w)
  BY <1>1, <1>4 DEF AcceptError, WorkerError, ReadError, WriteError, Overrun, BadKey, Exit
<1>5. ASSUME NEW w \in Workers, StoreStep(w) PROVE PlaceInv'
  BY <1>1, <1>5 DEF StoreStep, threadVars
<1>6. ASSUME NEW c \in Clients, Accept(c) PROVE PlaceInv'
  BY <1>6 DEF Accept, PlaceInv, queueVars
<1>7. CASE EnqueueConnection
  <2>1. /\ accepted' = NoClient /\ UNCHANGED <<pc, connfd, live, item, got>>
        /\ queuePc' = [queuePc EXCEPT ![Main] = "enqLock"]
    BY <1>7 DEF EnqueueConnection, request_queue!Enqueue, request_queue!Goto,
                request_queue!list
  <2>2. \A w \in Workers : queuePc'[w] = queuePc[w]
    BY <1>0, <2>1
  <2> QED
    BY <2>1, <2>2 DEF PlaceInv
<1>8. ASSUME NEW t \in {Main} \cup Workers, QueueStep(t) PROVE PlaceInv'
  <2>1. UNCHANGED <<accepted, pc, connfd>>
    BY <1>8, QueueStepFrame
  <2>2. CASE QueueTurns
    BY <2>1, <2>2 DEF QueueTurns, PlaceInv
  <2>3. CASE QueueLinks
    <3>1. PICK c \in Clients, n \in request_queue!Nodes \ live :
             /\ queuePc[Main] = "enqLink" /\ queuePc' = [queuePc EXCEPT ![Main] = "enqUnlock"]
             /\ live' = live \cup {n} /\ item' = [item EXCEPT ![n] = c]
             /\ got' = got
      BY <2>3, LinkEffect
    <3>2. \A w \in Workers : queuePc'[w] = queuePc[w]
      BY <1>0, <3>1
    <3>3. \A m \in live' : item'[m] \in Clients
      BY <1>0, <3>1 DEF PlaceInv
    <3> QED
      BY <2>1, <3>1, <3>2, <3>3 DEF PlaceInv
  <2>4. ASSUME NEW w \in Workers, QueueTakes(w) PROVE PlaceInv'
    <3>1. /\ queuePc[w] = "deqTake" /\ queuePc' = [queuePc EXCEPT ![w] = "deqUnlock"]
          /\ front \in live /\ live' = live \ {front}
          /\ got' = [got EXCEPT ![w] = item[front]]
          /\ item' = item
      BY <2>4, TakeEffect
    <3>2. item[front] \in Clients
      BY <3>1 DEF PlaceInv
    <3>3. /\ queuePc'[w] = "deqUnlock" /\ got'[w] \in Clients
          /\ queuePc'[Main] = queuePc[Main]
          /\ \A u \in Workers : u # w => queuePc'[u] = queuePc[u] /\ got'[u] = got[u]
      BY <1>0, <3>1, <3>2
    <3> QED
      BY <2>1, <3>1, <3>3 DEF PlaceInv
  <2> QED
    BY <1>8, <2>2, <2>3, <2>4, QueueStepCases
<1>9. ASSUME NEW w \in Workers, CallDequeue(w) PROVE PlaceInv'
  <2>1. /\ pc[w] = "start" /\ pc' = [pc EXCEPT ![w] = "dequeue"]
        /\ queuePc' = [queuePc EXCEPT ![w] = "deqWait"]
        /\ got' = [got EXCEPT ![w] = NoClient]
        /\ UNCHANGED <<accepted, connfd, live, item>>
    BY <1>9 DEF CallDequeue, request_queue!Dequeue, request_queue!Goto, request_queue!list,
                NobodyInvalidates
  <2>2. /\ pc'[w] = "dequeue" /\ queuePc'[w] = "deqWait" /\ got'[w] = NoClient
        /\ queuePc'[Main] = queuePc[Main]
        /\ \A u \in Workers : u # w =>
             pc'[u] = pc[u] /\ queuePc'[u] = queuePc[u] /\ got'[u] = got[u]
    BY <1>0, <2>1
  <2> QED
    BY <2>1, <2>2 DEF PlaceInv
<1>10. ASSUME NEW w \in Workers, TakeConnection(w) PROVE PlaceInv'
  <2>1. /\ pc[w] = "dequeue" /\ pc' = [pc EXCEPT ![w] = "parse"] /\ queuePc[w] = "idle"
        /\ connfd' = [connfd EXCEPT ![w] = got[w]]
        /\ UNCHANGED <<accepted, queuePc, got, live, item>>
    BY <1>10 DEF TakeConnection, queueVars
  <2>2. /\ pc'[w] = "parse" /\ connfd'[w] = got[w] /\ got[w] \in Clients
        /\ \A u \in Workers : u # w => pc'[u] = pc[u] /\ connfd'[u] = connfd[u]
    BY <1>0, <2>1 DEF PlaceInv
  <2> QED
    BY <1>0, <2>1, <2>2 DEF PlaceInv
<1>11. ASSUME NEW w \in Workers, NEW to, pc[w] \notin {"start", "dequeue"},
              to \notin {"start", "dequeue"}, pc' = [pc EXCEPT ![w] = to],
              UNCHANGED <<accepted, connfd, queueVars>>
       PROVE  PlaceInv'
  <2>1. pc'[w] = to /\ \A u \in Workers : u # w => pc'[u] = pc[u]
    BY <1>0, <1>11
  <2> QED
    BY <1>11, <2>1 DEF PlaceInv, queueVars
<1>12. ASSUME NEW w \in Workers, ParseRequest(w) PROVE PlaceInv'
  <2>1. \A h : AfterHeader(h) \notin {"start", "dequeue"}
    BY DEF AfterHeader
  <2> QED
    BY <1>11, <1>12, <2>1 DEF ParseRequest
<1>13. ASSUME NEW w \in Workers,
              HandlePut(w) \/ HandleGet(w) \/ HandleClear(w) \/ RefusedByStore(w)
              \/ StoreReturns(w)
       PROVE  PlaceInv'
  BY <1>11, <1>13 DEF HandlePut, HandleGet, HandleClear, RefusedByStore, StoreReturns
<1>14. ASSUME NEW w \in Workers, Respond(w) \/ WriteValue(w) \/ CloseAndReturn(w)
       PROVE  PlaceInv'
  BY <1>11, <1>14 DEF Respond, WriteValue, CloseAndReturn
<1> QED
  BY <1>2, <1>3, <1>4, <1>5, <1>6, <1>7, <1>8, <1>9, <1>10, <1>12, <1>13, <1>14
     DEF Next, MainStep, WorkerStep

LEMMA InitPlaces == Init => PlaceInv
  BY DEF Init, request_queue!Init, request_queue!Threads, PlaceInv

\* The server's own variables keep their types, and the connections their places.
LEMMA ServerInvariant == Spec => [](TypeOK /\ PlaceInv)
<1>1. Init => TypeOK /\ PlaceInv
  BY InitServer, InitPlaces
<1>2. /\ TypeOK /\ PlaceInv /\ Roles /\ Roles' /\ QueueInv /\ QueueInv'
      /\ NobodyInvalidates /\ [Next]_vars
      => TypeOK' /\ PlaceInv'
  BY TypesKept, PlaceKept DEF QueueInv
<1> QED
  BY <1>1, <1>2, RolesKept, QueueInvariant, NeverInvalidated, PTL DEF Spec

\* Every variable of the server's threads and clients keeps its type, and every
\* answer is a response code of cream.h:29.
THEOREM ServerTypeCorrect == Spec => []TypeOK
  BY ServerInvariant, PTL

-----------------------------------------------------------------------------
(* Every connection has one owner *)

\* A thread that holds a connection is its only owner, and no node holds it.
LEMMA OwnsAlone ==
    ASSUME OwnerInv, NEW c \in Clients, NEW t \in Owners(c)
    PROVE  ~Unseen(c) /\ Owners(c) = {t} /\ NodesOf(c) = {}
  BY DEF OwnerInv, InOnePlace

LEMMA OwnerFrame ==
    ASSUME OwnerInv, NEW c \in Clients, Unseen(c)' <=> Unseen(c),
           Owners(c)' = Owners(c), NodesOf(c)' = NodesOf(c)
    PROVE  InOnePlace(c)'
<1>1. \A n \in NodesOf(c)' : n \in live'
  BY DEF NodesOf
<1> QED
  BY <1>1 DEF OwnerInv, InOnePlace

\* A step that changes none of the places where a connection can be.
PlacesStay ==
    /\ UNCHANGED <<accepted, arg, got, live, item, connfd>>
    /\ \A w \in Workers : pc'[w] = "dequeue" <=> pc[w] = "dequeue"
    /\ \A c \in Clients : Unseen(c)' <=> Unseen(c)

LEMMA OwnerStays ==
    OwnerInv /\ PlacesStay => OwnerInv'
<1> SUFFICES ASSUME OwnerInv, PlacesStay PROVE OwnerInv'
  OBVIOUS
<1> USE DEF PlacesStay
<1> SUFFICES ASSUME NEW c \in Clients PROVE InOnePlace(c)'
  BY DEF OwnerInv
<1>1. Owners(c)' = Owners(c)
  BY ClientsAssumption DEF Owners
<1>2. NodesOf(c)' = NodesOf(c)
  BY DEF NodesOf
<1> QED
  BY <1>1, <1>2, OwnerFrame

LEMMA OwnerKept ==
    ASSUME TypeOK, Roles, QueueInv, QueueInv', NobodyInvalidates, PlaceInv, OwnerInv, [Next]_vars
    PROVE  OwnerInv'
<1> USE DEF Goto
<1>0. /\ got \in [{Main} \cup Workers -> Clients \cup {NoClient}]
      /\ arg \in [{Main} \cup Workers -> Clients \cup {NoClient}]
      /\ pc \in [Workers -> WorkerPCs] /\ connfd \in [Workers -> Clients \cup {NoClient}]
      /\ Main \notin Workers /\ NoClient \notin Clients
      /\ live \subseteq request_queue!Nodes
      /\ item \in [request_queue!Nodes -> Clients \cup {NoClient}]
      /\ client \in [Clients -> {"away", "backlog", "up", "closed", "reset", "served"}]
      /\ arg[Main] # NoClient <=> queuePc[Main] \in {"enqLock", "enqLink"}
  BY MainAssumption, ClientsAssumption
     DEF QueueInv, RQ!TypeOK, RQ!ArgPending, RQ!Threads, RQ!Nodes, request_queue!Nodes, TypeOK
<1>1. ASSUME UNCHANGED <<accepted, connfd, queueVars, client>>,
             \A w \in Workers : pc'[w] = "dequeue" <=> pc[w] = "dequeue"
      PROVE  OwnerInv'
  BY <1>1, OwnerStays DEF PlacesStay, queueVars, Unseen
<1>2. CASE UNCHANGED vars
  BY <1>1, <1>2 DEF vars, threadVars, clientVars
<1>3. ASSUME NEW d \in Clients, ClientAction(d) PROVE OwnerInv'
  <2>1. UNCHANGED <<arg, got, live, item, connfd, accepted, pc>>
    BY <1>3 DEF ClientAction, Connect, Send, HangUp, Reset, ClientStep, threadVars, queueVars
  <2>2. \A c \in Clients : Unseen(c)' <=> Unseen(c)
    BY <1>0, <1>3 DEF ClientAction, Connect, Send, HangUp, Reset, ClientStep, Unseen
  <2> QED
    BY <2>1, <2>2, OwnerStays DEF PlacesStay
<1>4. CASE AcceptError \/ \E w \in Workers : WorkerError(w)
  BY <1>1, <1>4 DEF AcceptError, WorkerError, ReadError, WriteError, Overrun, BadKey, Exit, clientVars
<1>5. ASSUME NEW w \in Workers, StoreStep(w) PROVE OwnerInv'
  BY <1>1, <1>5 DEF StoreStep, threadVars, clientVars
<1>6. ASSUME NEW d \in Clients, Accept(d) PROVE OwnerInv'
  <2>1. /\ accepted = NoClient /\ accepted' = d /\ arg[Main] = NoClient
        /\ client[d] = "backlog" /\ client'[d] = "up"
        /\ \A c \in Clients : c # d => client'[c] = client[c]
        /\ UNCHANGED <<arg, got, live, item, connfd, pc>>
    BY <1>0, <1>6 DEF Accept, queueVars
  <2> SUFFICES ASSUME NEW c \in Clients PROVE InOnePlace(c)'
    BY DEF OwnerInv
  <2>2. CASE c = d
    <3>1. Owners(c) = {} /\ NodesOf(c) = {}
      BY <2>1, <2>2 DEF OwnerInv, InOnePlace, Unseen
    <3>2. Owners(c)' = {Main} /\ NodesOf(c)' = {}
      BY <2>1, <2>2, <3>1 DEF Owners, NodesOf
    <3> QED
      BY <2>1, <2>2, <3>2 DEF InOnePlace, Unseen
  <2>3. CASE c # d
    <3>1. Owners(c)' = Owners(c) /\ NodesOf(c)' = NodesOf(c)
      BY <1>0, <2>1, <2>3 DEF Owners, NodesOf
    <3> QED
      BY <2>1, <2>3, <3>1, OwnerFrame DEF Unseen
  <2> QED
    BY <2>2, <2>3
<1>7. CASE EnqueueConnection
  <2>1. /\ accepted # NoClient /\ accepted' = NoClient /\ arg[Main] = NoClient
        /\ arg' = [arg EXCEPT ![Main] = accepted]
        /\ UNCHANGED <<pc, connfd, live, item, got, client>>
    BY <1>0, <1>7 DEF EnqueueConnection, request_queue!Enqueue, request_queue!Goto,
                      request_queue!list, clientVars
  <2>2. arg'[Main] = accepted
    BY <1>0, <2>1
  <2>3. \A c \in Clients : Owners(c)' = Owners(c) /\ NodesOf(c)' = NodesOf(c)
    BY <1>0, <2>1, <2>2 DEF Owners, NodesOf
  <2> QED
    BY <2>1, <2>3, OwnerFrame DEF OwnerInv, Unseen
<1>8. ASSUME NEW t \in {Main} \cup Workers, QueueStep(t) PROVE OwnerInv'
  <2>1. UNCHANGED <<accepted, pc, connfd, client>>
    BY <1>8, QueueStepFrame
  <2>2. CASE QueueTurns
    BY <2>1, <2>2, OwnerStays DEF PlacesStay, QueueTurns, Unseen
  <2>3. CASE QueueLinks
    <3>1. PICK d \in Clients, n \in request_queue!Nodes \ live :
             /\ queuePc[Main] = "enqLink"
             /\ arg[Main] = d /\ arg' = [arg EXCEPT ![Main] = NoClient]
             /\ live' = live \cup {n} /\ item' = [item EXCEPT ![n] = d]
             /\ got' = got
      BY <2>3, LinkEffect
    <3>2. accepted = NoClient /\ arg'[Main] = NoClient
      BY <1>0, <3>1 DEF PlaceInv
    <3>3. item'[n] = d /\ \A m \in live : item'[m] = item[m]
      BY <1>0, <3>1
    <3> SUFFICES ASSUME NEW c \in Clients PROVE InOnePlace(c)'
      BY DEF OwnerInv
    <3>4. CASE c = d
      <4>1. Main \in Owners(c)
        BY <3>1, <3>4 DEF Owners
      <4>2. ~Unseen(c) /\ Owners(c) = {Main} /\ NodesOf(c) = {}
        BY <4>1, OwnsAlone
      <4>3. Owners(c)' = {}
        BY <1>0, <2>1, <3>1, <3>2, <4>2 DEF Owners
      <4>4. NodesOf(c)' = {n} /\ n \in live'
        BY <3>1, <3>3, <3>4, <4>2 DEF NodesOf
      <4> QED
        BY <2>1, <4>2, <4>3, <4>4 DEF InOnePlace, Unseen
    <3>5. CASE c # d
      <4>1. Owners(c)' = Owners(c) /\ NodesOf(c)' = NodesOf(c)
        BY <1>0, <2>1, <3>1, <3>2, <3>3, <3>5 DEF Owners, NodesOf
      <4> QED
        BY <2>1, <4>1, OwnerFrame DEF Unseen
    <3> QED
      BY <3>4, <3>5
  <2>4. ASSUME NEW w \in Workers, QueueTakes(w) PROVE OwnerInv'
    <3>1. /\ queuePc[w] = "deqTake"
          /\ front \in live /\ live' = live \ {front}
          /\ got' = [got EXCEPT ![w] = item[front]]
          /\ item' = item /\ arg' = arg
      BY <2>4, TakeEffect
    <3>2. pc[w] = "dequeue" /\ connfd[w] = NoClient /\ got[w] = NoClient
      BY <3>1 DEF PlaceInv
    <3>3. PICK d \in Clients : d = item[front] /\ got'[w] = d
      BY <1>0, <3>1 DEF PlaceInv
    <3>4. \A u \in Workers : u # w => got'[u] = got[u]
      BY <1>0, <3>1
    <3> SUFFICES ASSUME NEW c \in Clients PROVE InOnePlace(c)'
      BY DEF OwnerInv
    <3>5. CASE c = d
      <4>1. front \in NodesOf(c)
        BY <3>1, <3>3, <3>5 DEF NodesOf
      <4>2. ~Unseen(c) /\ NodesOf(c) = {front} /\ Owners(c) = {}
        BY <4>1 DEF OwnerInv, InOnePlace
      <4>3. NodesOf(c)' = {}
        BY <3>1, <4>2 DEF NodesOf
      <4>4. Owners(c)' = {w}
        BY <1>0, <2>1, <3>1, <3>2, <3>3, <3>4, <3>5, <4>2 DEF Owners
      <4> QED
        BY <2>1, <4>2, <4>3, <4>4 DEF InOnePlace, Unseen
    <3>6. CASE c # d
      <4>1. NodesOf(c)' = NodesOf(c)
        BY <3>1, <3>3, <3>6 DEF NodesOf
      <4>2. Owners(c)' = Owners(c)
        BY <1>0, <2>1, <3>1, <3>2, <3>3, <3>4, <3>6 DEF Owners
      <4> QED
        BY <2>1, <4>1, <4>2, OwnerFrame DEF Unseen
    <3> QED
      BY <3>5, <3>6
  <2> QED
    BY <1>8, <2>2, <2>3, <2>4, QueueStepCases
<1>9. ASSUME NEW w \in Workers, CallDequeue(w) PROVE OwnerInv'
  <2>1. /\ pc[w] = "start" /\ pc' = [pc EXCEPT ![w] = "dequeue"]
        /\ got' = [got EXCEPT ![w] = NoClient]
        /\ UNCHANGED <<accepted, connfd, live, item, arg, client>>
    BY <1>9 DEF CallDequeue, request_queue!Dequeue, request_queue!list, clientVars
  <2>2. /\ pc'[w] = "dequeue" /\ got'[w] = NoClient /\ connfd[w] = NoClient
        /\ \A u \in Workers : u # w => pc'[u] = pc[u] /\ got'[u] = got[u]
    BY <1>0, <2>1 DEF PlaceInv
  <2>3. \A c \in Clients : Owners(c)' = Owners(c) /\ NodesOf(c)' = NodesOf(c)
    BY <1>0, <2>1, <2>2 DEF Owners, NodesOf
  <2> QED
    BY <2>1, <2>3, OwnerFrame DEF OwnerInv, Unseen
<1>10. ASSUME NEW w \in Workers, TakeConnection(w) PROVE OwnerInv'
  <2>1. /\ pc[w] = "dequeue" /\ pc' = [pc EXCEPT ![w] = "parse"]
        /\ connfd' = [connfd EXCEPT ![w] = got[w]]
        /\ UNCHANGED <<accepted, got, live, item, arg, client>>
    BY <1>10 DEF TakeConnection, queueVars, clientVars
  <2>2. /\ pc'[w] = "parse" /\ connfd'[w] = got[w] /\ connfd[w] = NoClient
        /\ \A u \in Workers : u # w => pc'[u] = pc[u] /\ connfd'[u] = connfd[u]
    BY <1>0, <2>1 DEF PlaceInv
  <2>3. \A c \in Clients : Owners(c)' = Owners(c) /\ NodesOf(c)' = NodesOf(c)
    BY <1>0, <2>1, <2>2 DEF Owners, NodesOf
  <2> QED
    BY <2>1, <2>3, OwnerFrame DEF OwnerInv, Unseen
<1>11. ASSUME NEW w \in Workers, NEW to, pc[w] # "dequeue", to # "dequeue",
              pc' = [pc EXCEPT ![w] = to]
       PROVE  \A u \in Workers : pc'[u] = "dequeue" <=> pc[u] = "dequeue"
  BY <1>0, <1>11
<1>12. ASSUME NEW w \in Workers, ParseRequest(w) PROVE OwnerInv'
  <2>1. \A h : AfterHeader(h) # "dequeue"
    BY DEF AfterHeader
  <2> QED
    BY <1>1, <1>11, <1>12, <2>1 DEF ParseRequest, clientVars
<1>13. ASSUME NEW w \in Workers,
              HandlePut(w) \/ HandleGet(w) \/ HandleClear(w) \/ RefusedByStore(w)
              \/ StoreReturns(w) \/ Respond(w) \/ WriteValue(w)
       PROVE  OwnerInv'
  BY <1>1, <1>11, <1>13
     DEF HandlePut, HandleGet, HandleClear, RefusedByStore, StoreReturns, Respond, WriteValue,
         clientVars
<1>14. ASSUME NEW w \in Workers, CloseAndReturn(w) PROVE OwnerInv'
  <2>1. /\ pc[w] = "close" /\ pc' = [pc EXCEPT ![w] = "done"]
        /\ client' = [client EXCEPT ![connfd[w]] = "served"]
        /\ UNCHANGED <<accepted, connfd, got, live, item, arg>>
    BY <1>14 DEF CloseAndReturn, queueVars
  <2>2. PICK d \in Clients : d = connfd[w]
    BY <1>0, <2>1 DEF PlaceInv
  <2>3. ~Unseen(d)
    BY <2>2, OwnsAlone DEF Owners
  <2>4. \A c \in Clients : Unseen(c)' <=> Unseen(c)
    BY <1>0, <2>1, <2>2, <2>3 DEF Unseen
  <2>5. \A u \in Workers : pc'[u] = "dequeue" <=> pc[u] = "dequeue"
    BY <1>11, <2>1
  <2> QED
    BY <2>1, <2>4, <2>5, OwnerStays DEF PlacesStay
<1> QED
  BY <1>2, <1>3, <1>4, <1>5, <1>6, <1>7, <1>8, <1>9, <1>10, <1>12, <1>13, <1>14
     DEF Next, MainStep, WorkerStep

LEMMA InitOwners == Init => OwnerInv
<1> SUFFICES ASSUME Init, NEW c \in Clients PROVE InOnePlace(c)
  BY DEF OwnerInv
<1>1. Owners(c) = {} /\ NodesOf(c) = {}
  BY ClientsAssumption DEF Init, request_queue!Init, request_queue!Threads, Owners, NodesOf
<1> QED
  BY <1>1 DEF Init, InOnePlace, Unseen

LEMMA OwnerInvariant == Spec => []OwnerInv
<1>1. Init => OwnerInv
  BY InitOwners
<1>2. /\ TypeOK /\ Roles /\ QueueInv /\ QueueInv' /\ NobodyInvalidates /\ PlaceInv
      /\ OwnerInv /\ [Next]_vars
      => OwnerInv'
  BY OwnerKept
<1> QED
  BY <1>1, <1>2, ServerInvariant, RolesKept, QueueInvariant, NeverInvalidated, PTL DEF Spec

\* From accept to close a connection is in exactly one place: main, the queue or
\* one worker.
THEOREM OneOwnerCorrect == Spec => []OneOwner
<1>1. OwnerInv => OneOwner
  <2> SUFFICES ASSUME OwnerInv, NEW c \in Clients
               PROVE  Cardinality(Owners(c)) + Cardinality(NodesOf(c))
                          = IF client[c] \in {"away", "backlog"} THEN 0 ELSE 1
    BY DEF OneOwner
  <2>1. InOnePlace(c)
    BY DEF OwnerInv
  <2>2. Cardinality({}) = 0 /\ \A x : Cardinality({x}) = 1
    BY FS_EmptySet, FS_Singleton
  <2>3. CASE Unseen(c)
    BY <2>1, <2>2, <2>3 DEF InOnePlace, Unseen
  <2>4. CASE ~Unseen(c) /\ Cardinality(Owners(c)) = 1 /\ Cardinality(NodesOf(c)) = 0
    BY <2>4 DEF Unseen
  <2>5. CASE ~Unseen(c) /\ Cardinality(Owners(c)) = 0 /\ Cardinality(NodesOf(c)) = 1
    BY <2>5 DEF Unseen
  <2> QED
    BY <2>1, <2>2, <2>3, <2>4, <2>5 DEF InOnePlace
<1> QED
  BY <1>1, OwnerInvariant, PTL

-----------------------------------------------------------------------------
(* Every client gets the answer to its own request *)

\* A step in which no client sends or is answered, and no worker starts on a
\* request: the workers may only go on with the one they have.
AnswersStay ==
    /\ UNCHANGED <<delivered, sent, answer, rheader>>
    /\ \A c \in Clients : Gone(c) => Gone(c)'
    /\ \A w \in Workers :
         /\ pc[w] \in {"writeValue", "close", "done"} <=> pc'[w] \in {"writeValue", "close", "done"}
         /\ pc'[w] \in {"readBody", "clear", "inStore", "respond"} =>
              pc[w] \in {"readBody", "clear", "inStore", "respond"}
         /\ pc[w] \notin {"start", "dequeue"} => connfd'[w] = connfd[w]

LEMMA AnswerFrame == TypeOK /\ PlaceInv /\ AnswerInv /\ AnswersStay => AnswerInv'
<1> SUFFICES ASSUME TypeOK, PlaceInv, AnswerInv, AnswersStay PROVE AnswerInv'
  OBVIOUS
<1>0. \A w \in Workers : pc[w] \notin {"start", "dequeue"} => connfd[w] \in Clients
  BY DEF TypeOK, PlaceInv
<1>1. ASSUME NEW c \in Clients, answer'[c] # NoAnswer
      PROVE  /\ IF delivered'[c] > 0 THEN answer'[c] = ResponseCode(sent'[c]) ELSE Gone(c)'
             /\ \E w \in Workers : connfd'[w] = c /\ pc'[w] \in {"writeValue", "close", "done"}
  BY <1>1 DEF AnswerInv, AnswersStay
<1>2. ASSUME NEW w \in Workers, pc'[w] \in {"writeValue", "close", "done"}
      PROVE  answer'[connfd'[w]] # NoAnswer
  BY <1>2 DEF AnswerInv, AnswersStay
<1>3. ASSUME NEW w \in Workers, pc'[w] \in {"readBody", "clear", "inStore", "respond"}
      PROVE  IF delivered'[connfd'[w]] > 0 THEN rheader'[w] = sent'[connfd'[w]]
                                           ELSE Gone(connfd[w])'
  <2>1. /\ pc[w] \in {"readBody", "clear", "inStore", "respond"}
        /\ connfd'[w] = connfd[w] /\ connfd[w] \in Clients
    BY <1>0, <1>3 DEF AnswersStay
  <2> QED
    BY <2>1 DEF AnswerInv, AnswersStay, Gone
<1> QED
  BY <1>1, <1>2, <1>3 DEF AnswerInv, Gone

LEMMA AnswerKept == TypeOK /\ PlaceInv /\ AnswerInv /\ [Next]_vars => AnswerInv'
<1> SUFFICES ASSUME TypeOK, PlaceInv, AnswerInv, [Next]_vars PROVE AnswerInv'
  OBVIOUS
<1> USE DEF Goto
<1>0. /\ pc \in [Workers -> WorkerPCs] /\ connfd \in [Workers -> Clients \cup {NoClient}]
      /\ rheader \in [Workers -> Headers \cup {NoHeader}]
      /\ client \in [Clients -> {"away", "backlog", "up", "closed", "reset", "served"}]
      /\ delivered \in [Clients -> 0 .. 2]
      /\ sent \in [Clients -> Headers \cup {NoHeader}]
      /\ answer \in [Clients -> ResponseCodes \cup {NoAnswer}]
      /\ \A w \in Workers : pc[w] \notin {"start", "dequeue"} => connfd[w] \in Clients
  BY DEF TypeOK, PlaceInv
<1>1. ASSUME UNCHANGED <<pc, connfd, rheader, clientVars>> PROVE AnswerInv'
  <2>1. AnswersStay
    BY <1>1 DEF AnswersStay, clientVars, Gone
  <2> QED
    BY <2>1, AnswerFrame
<1>2. CASE UNCHANGED vars
  BY <1>1, <1>2 DEF vars, threadVars
<1>3. ASSUME NEW t, QueueStep(t) \/ StoreStep(t) PROVE AnswerInv'
  BY <1>1, <1>3 DEF QueueStep, StoreStep, threadVars
<1>4. CASE EnqueueConnection
  BY <1>1, <1>4 DEF EnqueueConnection
<1>5. CASE AcceptError \/ \E w \in Workers : WorkerError(w)
  BY <1>1, <1>5 DEF AcceptError, WorkerError, ReadError, WriteError, Overrun, BadKey, Exit
<1>6. ASSUME NEW d \in Clients, Connect(d) \/ HangUp(d) \/ Reset(d) \/ Accept(d)
      PROVE  AnswerInv'
  <2>1. /\ client[d] \in {"away", "backlog", "up"}
        /\ \A c \in Clients : c # d => client'[c] = client[c]
        /\ UNCHANGED <<pc, connfd, rheader, delivered, sent, answer>>
    BY <1>0, <1>6 DEF Connect, HangUp, Reset, Accept, ClientStep, threadVars
  <2>2. AnswersStay
    BY <2>1 DEF AnswersStay, Gone
  <2> QED
    BY <2>2, AnswerFrame
<1>7. ASSUME NEW d \in Clients, Send(d) PROVE AnswerInv'
  <2>1. /\ ~Gone(d)
        /\ delivered' = [delivered EXCEPT ![d] = @ + 1]
        /\ delivered[d] > 0 => sent' = sent
        /\ \A c \in Clients : c # d => sent'[c] = sent[c]
        /\ UNCHANGED <<pc, connfd, rheader, client, answer>>
    BY <1>0, <1>7 DEF Send, Gone, threadVars
  <2>2. \A c \in Clients : c # d => delivered'[c] = delivered[c]
    BY <1>0, <2>1
  <2>3. delivered[d] > 0 => delivered'[d] > 0 /\ sent'[d] = sent[d]
    BY <1>0, <2>1
  <2>4. ASSUME NEW c \in Clients, answer'[c] # NoAnswer
        PROVE  /\ IF delivered'[c] > 0 THEN answer'[c] = ResponseCode(sent'[c]) ELSE Gone(c)'
               /\ \E w \in Workers : connfd'[w] = c /\ pc'[w] \in {"writeValue", "close", "done"}
    <3>1. CASE c = d
      BY <2>1, <2>3, <2>4, <3>1 DEF AnswerInv
    <3>2. CASE c # d
      BY <2>1, <2>2, <2>4, <3>2 DEF AnswerInv, Gone
    <3> QED
      BY <3>1, <3>2
  <2>5. ASSUME NEW w \in Workers, pc'[w] \in {"readBody", "clear", "inStore", "respond"}
        PROVE  IF delivered'[connfd'[w]] > 0 THEN rheader'[w] = sent'[connfd'[w]]
                                             ELSE Gone(connfd[w])'
    <3>1. connfd'[w] = connfd[w] /\ connfd[w] \in Clients /\ pc'[w] = pc[w]
      BY <1>0, <2>1, <2>5
    <3>2. CASE connfd[w] = d
      BY <2>1, <2>3, <2>5, <3>1, <3>2 DEF AnswerInv
    <3>3. CASE connfd[w] # d
      BY <2>1, <2>2, <2>5, <3>1, <3>3 DEF AnswerInv, Gone
    <3> QED
      BY <3>2, <3>3
  <2>6. \A w \in Workers : pc'[w] \in {"writeValue", "close", "done"} =>
                             answer'[connfd'[w]] # NoAnswer
    BY <2>1 DEF AnswerInv
  <2> QED
    BY <2>4, <2>5, <2>6 DEF AnswerInv, Gone
\* A worker goes on with its own request, or has none yet.
<1>8. ASSUME NEW w \in Workers, NEW to, pc' = [pc EXCEPT ![w] = to],
             \/ pc[w] \in {"readBody", "clear", "inStore"} /\ to \in {"inStore", "respond"}
             \/ pc[w] \in {"writeValue", "close"} /\ to \in {"close", "done"}
             \/ pc[w] \in {"start", "dequeue"} /\ to \in {"dequeue", "parse"},
             \A u \in Workers : pc[u] \notin {"start", "dequeue"} => connfd'[u] = connfd[u],
             UNCHANGED <<rheader, delivered, sent, answer>>,
             \A c \in Clients : Gone(c) => Gone(c)'
      PROVE  AnswerInv'
  <2>1. pc'[w] = to /\ \A u \in Workers : u # w => pc'[u] = pc[u]
    BY <1>0, <1>8
  <2>2. AnswersStay
    BY <1>8, <2>1 DEF AnswersStay
  <2> QED
    BY <2>2, AnswerFrame
<1>9. ASSUME NEW w \in Workers, CallDequeue(w) PROVE AnswerInv'
  <2>1. \A c \in Clients : Gone(c) => Gone(c)'
    BY <1>9 DEF CallDequeue, clientVars, Gone
  <2> QED
    BY <1>8, <1>9, <2>1 DEF CallDequeue, clientVars
<1>10. ASSUME NEW w \in Workers, TakeConnection(w) PROVE AnswerInv'
  <2>1. /\ pc[w] = "dequeue" /\ pc' = [pc EXCEPT ![w] = "parse"]
        /\ connfd' = [connfd EXCEPT ![w] = got[w]]
        /\ UNCHANGED <<rheader, delivered, sent, answer>>
    BY <1>10 DEF TakeConnection, clientVars
  <2>2. \A u \in Workers : pc[u] \notin {"start", "dequeue"} => connfd'[u] = connfd[u]
    BY <1>0, <2>1
  <2>3. \A c \in Clients : Gone(c) => Gone(c)'
    BY <1>10 DEF TakeConnection, clientVars, Gone
  <2> QED
    BY <1>8, <2>1, <2>2, <2>3
<1>11. ASSUME NEW w \in Workers, ParseRequest(w) PROVE AnswerInv'
  <2> DEFINE d == connfd[w]
  <2>1. d \in Clients /\ Readable(d, 1) /\ pc[w] = "parse"
    BY <1>0, <1>11 DEF ParseRequest
  <2>2. PICK h \in IF delivered[d] > 0 THEN {sent[d]} ELSE Headers :
          pc' = [pc EXCEPT ![w] = AfterHeader(h)] /\ rheader' = [rheader EXCEPT ![w] = h]
    BY <1>11 DEF ParseRequest
  <2>3. IF delivered[d] > 0 THEN h = sent[d] ELSE Gone(d)
    BY <1>0, <2>1, <2>2 DEF Readable, Gone
  <2>4. UNCHANGED <<connfd, client, delivered, sent, answer>>
    BY <1>11 DEF ParseRequest, clientVars
  <2>5. /\ pc'[w] \notin {"writeValue", "close", "done"}
        /\ rheader'[w] = h
        /\ \A u \in Workers : u # w => pc'[u] = pc[u] /\ rheader'[u] = rheader[u]
    BY <1>0, <2>2 DEF AfterHeader
  <2>6. ASSUME NEW c \in Clients, answer'[c] # NoAnswer
        PROVE  /\ IF delivered'[c] > 0 THEN answer'[c] = ResponseCode(sent'[c]) ELSE Gone(c)'
               /\ \E u \in Workers : connfd'[u] = c /\ pc'[u] \in {"writeValue", "close", "done"}
    <3>1. PICK u \in Workers : connfd[u] = c /\ pc[u] \in {"writeValue", "close", "done"}
      BY <2>4, <2>6 DEF AnswerInv
    <3>2. u # w
      BY <2>1, <3>1
    <3> QED
      BY <2>4, <2>5, <2>6, <3>1, <3>2 DEF AnswerInv, Gone
  <2>7. ASSUME NEW u \in Workers, pc'[u] \in {"readBody", "clear", "inStore", "respond"}
        PROVE  IF delivered'[connfd'[u]] > 0 THEN rheader'[u] = sent'[connfd'[u]]
                                             ELSE Gone(connfd[u])'
    <3>1. CASE u = w
      BY <2>3, <2>4, <2>5, <3>1 DEF Gone
    <3>2. CASE u # w
      BY <2>4, <2>5, <2>7, <3>2 DEF AnswerInv, Gone
    <3> QED
      BY <3>1, <3>2
  <2>8. \A u \in Workers : pc'[u] \in {"writeValue", "close", "done"} =>
                             answer'[connfd'[u]] # NoAnswer
    BY <2>4, <2>5 DEF AnswerInv
  <2> QED
    BY <2>6, <2>7, <2>8 DEF AnswerInv, Gone
<1>12. ASSUME NEW w \in Workers,
              HandlePut(w) \/ HandleGet(w) \/ HandleClear(w) \/ RefusedByStore(w)
              \/ StoreReturns(w) \/ WriteValue(w)
       PROVE  AnswerInv'
  <2> DEFINE to == IF HandlePut(w) \/ HandleGet(w) \/ HandleClear(w) THEN "inStore"
                   ELSE IF WriteValue(w) THEN "close" ELSE "respond"
  <2>1. /\ pc' = [pc EXCEPT ![w] = to]
        /\ \/ pc[w] \in {"readBody", "clear", "inStore"} /\ to \in {"inStore", "respond"}
           \/ pc[w] \in {"writeValue", "close"} /\ to \in {"close", "done"}
    BY <1>12 DEF HandlePut, HandleGet, HandleClear, RefusedByStore, StoreReturns, WriteValue
  <2>2. UNCHANGED <<connfd, rheader, client, delivered, sent, answer>>
    BY <1>12 DEF HandlePut, HandleGet, HandleClear, RefusedByStore, StoreReturns, WriteValue,
                 clientVars
  <2>3. \A c \in Clients : Gone(c) => Gone(c)'
    BY <2>2 DEF Gone
  <2> HIDE DEF to
  <2> QED
    BY <1>8, <2>1, <2>2, <2>3
<1>13. ASSUME NEW w \in Workers, Respond(w) PROVE AnswerInv'
  <2> DEFINE d == connfd[w]
             h == rheader[w]
  <2>1. /\ pc[w] = "respond" /\ d \in Clients
        /\ \E to \in {"writeValue", "close"} : pc' = [pc EXCEPT ![w] = to]
        /\ answer' = [answer EXCEPT ![d] = ResponseCode(h)]
        /\ UNCHANGED <<connfd, rheader, client, delivered, sent>>
    BY <1>0, <1>13 DEF Respond
  <2>2. /\ pc'[w] \in {"writeValue", "close"}
        /\ \A u \in Workers : u # w => pc'[u] = pc[u]
    BY <1>0, <2>1
  <2>3. /\ answer'[d] = ResponseCode(h) /\ answer'[d] # NoAnswer
        /\ \A c \in Clients : c # d => answer'[c] = answer[c]
    BY <1>0, <2>1, ResponseCodeIn
  <2>4. IF delivered[d] > 0 THEN h = sent[d] ELSE Gone(d)
    BY <2>1 DEF AnswerInv
  <2>5. ASSUME NEW c \in Clients, answer'[c] # NoAnswer
        PROVE  /\ IF delivered'[c] > 0 THEN answer'[c] = ResponseCode(sent'[c]) ELSE Gone(c)'
               /\ \E u \in Workers : connfd'[u] = c /\ pc'[u] \in {"writeValue", "close", "done"}
    <3>1. CASE c = d
      BY <2>1, <2>2, <2>3, <2>4, <3>1 DEF Gone
    <3>2. CASE c # d
      <4>1. PICK u \in Workers : connfd[u] = c /\ pc[u] \in {"writeValue", "close", "done"}
        BY <2>3, <2>5, <3>2 DEF AnswerInv
      <4>2. pc'[u] = pc[u]
        BY <2>2, <3>2, <4>1
      <4> QED
        BY <2>1, <2>3, <2>5, <3>2, <4>1, <4>2 DEF AnswerInv, Gone
    <3> QED
      BY <3>1, <3>2
  <2>6. ASSUME NEW u \in Workers, pc'[u] \in {"writeValue", "close", "done"}
        PROVE  answer'[connfd'[u]] # NoAnswer
    <3>1. CASE connfd[u] = d
      BY <2>1, <2>3, <3>1
    <3>2. CASE connfd[u] # d
      <4>1. u # w /\ pc[u] \in {"writeValue", "close", "done"}
        BY <2>2, <2>6, <3>2
      <4>2. connfd[u] \in Clients
        BY <1>0, <4>1
      <4> QED
        BY <2>1, <2>3, <3>2, <4>1, <4>2 DEF AnswerInv
    <3> QED
      BY <3>1, <3>2
  <2>7. ASSUME NEW u \in Workers, pc'[u] \in {"readBody", "clear", "inStore", "respond"}
        PROVE  IF delivered'[connfd'[u]] > 0 THEN rheader'[u] = sent'[connfd'[u]]
                                             ELSE Gone(connfd[u])'
    <3>1. pc'[u] = pc[u]
      BY <2>2, <2>7
    <3> QED
      BY <2>1, <2>7, <3>1 DEF AnswerInv, Gone
  <2> QED
    BY <2>5, <2>6, <2>7 DEF AnswerInv, Gone
<1>14. ASSUME NEW w \in Workers, CloseAndReturn(w) PROVE AnswerInv'
  <2>1. /\ pc[w] = "close" /\ pc' = [pc EXCEPT ![w] = "done"]
        /\ client' = [client EXCEPT ![connfd[w]] = "served"]
        /\ UNCHANGED <<connfd, rheader, delivered, sent, answer>>
    BY <1>14 DEF CloseAndReturn
  <2>2. \A c \in Clients : Gone(c) => Gone(c)'
    BY <1>0, <2>1 DEF Gone
  <2> QED
    BY <1>8, <2>1, <2>2
<1> QED
  BY <1>2, <1>3, <1>4, <1>5, <1>6, <1>7, <1>9, <1>10, <1>11, <1>12, <1>13, <1>14
     DEF Next, MainStep, WorkerStep, ClientAction

LEMMA AnswerInvariant == Spec => []AnswerInv
<1>1. Init => AnswerInv
  BY DEF Init, AnswerInv
<1>2. TypeOK /\ PlaceInv /\ AnswerInv /\ [Next]_vars => AnswerInv'
  BY AnswerKept
<1> QED
  BY <1>1, <1>2, ServerInvariant, PTL DEF Spec

\* A client is answered before its worker closes the connection and at most
\* once, with the code that its own request calls for.
THEOREM AnswersMatchCorrect == Spec => []AnswersMatch
<1>1. PlaceInv /\ TypeOK /\ OwnerInv /\ AnswerInv => AnswersMatch
  <2> SUFFICES ASSUME PlaceInv, TypeOK, OwnerInv, AnswerInv PROVE AnswersMatch
    OBVIOUS
  <2>1. ASSUME NEW c \in Clients, answer[c] # NoAnswer, delivered[c] > 0
        PROVE  answer[c] = ResponseCode(sent[c])
    BY <2>1 DEF AnswerInv
  <2>2. ASSUME NEW w \in Workers, pc[w] \in {"writeValue", "close", "done"}
        PROVE  answer[connfd[w]] # NoAnswer
    BY <2>2 DEF AnswerInv
  <2>3. ASSUME NEW w \in Workers,
               pc[w] \in {"parse", "readBody", "clear", "inStore", "respond"},
               answer[connfd[w]] # NoAnswer
        PROVE  FALSE
    <3>1. PICK c \in Clients : connfd[w] = c
      BY <2>3 DEF PlaceInv, TypeOK
    <3>2. PICK u \in Workers : connfd[u] = c /\ pc[u] \in {"writeValue", "close", "done"}
      BY <2>3, <3>1 DEF AnswerInv
    <3>3. u \in Owners(c) /\ w \in Owners(c)
      BY <3>1, <3>2 DEF Owners
    <3>4. Owners(c) = {u}
      BY <3>3, OwnsAlone
    <3> QED
      BY <2>3, <3>2, <3>3, <3>4
  <2> QED
    BY <2>1, <2>2, <2>3 DEF AnswersMatch
<1> QED
  BY <1>1, ServerInvariant, OwnerInvariant, AnswerInvariant, PTL
=============================================================================
