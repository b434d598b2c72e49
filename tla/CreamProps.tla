------------------------------ MODULE CreamProps ------------------------------
(***************************************************************************)
(* What must hold of the server of cream.c.                                *)
(***************************************************************************)
EXTENDS Cream

WorkerPCs == {"start", "dequeue", "parse", "readBody", "clear", "inStore",
              "respond", "writeValue", "close", "done"}

\* The server's own variables have their types (cream.c:71-76, cream.h:16-29).
TypeOK ==
    /\ accepted \in Clients \cup {NoClient}
    /\ pc \in [Workers -> WorkerPCs]
    /\ connfd \in [Workers -> Clients \cup {NoClient}]
    /\ rheader \in [Workers -> Headers \cup {NoHeader}]
    /\ exited \in BOOLEAN
    /\ client \in [Clients -> {"away", "backlog", "up", "closed", "reset", "served"}]
    /\ delivered \in [Clients -> 0 .. 2]
    /\ sent \in [Clients -> Headers \cup {NoHeader}]
    /\ answer \in [Clients -> ResponseCodes \cup {NoAnswer}]

\* The threads that have the connection c in hand, inside enqueue and dequeue
\* too, and the queue's nodes that hold it.
Owners(c) ==
    {t \in {Main} : accepted = c \/ arg[t] = c} \cup
    {w \in Workers : connfd[w] = c \/ (got[w] = c /\ pc[w] = "dequeue")}

NodesOf(c) == {n \in live : item[n] = c}

\* Across main, the queue and the workers (cream.c:64-66,74) an accepted
\* connection is in exactly one place and reaches exactly one worker: none is
\* dropped, handed to two workers or queued twice.
OneOwner ==
    \A c \in Clients :
        Cardinality(Owners(c)) + Cardinality(NodesOf(c))
            = IF client[c] \in {"away", "backlog"} THEN 0 ELSE 1

\* A connection is answered before the worker closes it and at most once, and
\* with the code that its own request calls for: the answer of one client never
\* depends on what another one asked.
AnswersMatch ==
    /\ \A c \in Clients :
         answer[c] # NoAnswer /\ delivered[c] > 0 => answer[c] = ResponseCode(sent[c])
    /\ \A w \in Workers :
         /\ pc[w] \in {"writeValue", "close", "done"} => answer[connfd[w]] # NoAnswer
         /\ pc[w] \in {"parse", "readBody", "clear", "inStore", "respond"} =>
              answer[connfd[w]] = NoAnswer

\* The values whose put has been completed.
Stored == {v \in 1 .. calls : /\ keyOf[v] # NoKey
                              /\ \A w \in Workers : req[w].val # v \/ mapPc[w] = "writeUnlock"}

\* A put that the store has completed stays visible to every later search, whatever
\* the workers interleave (cream.c:115,131): unless more entries were put than the
\* store holds, or the store was cleared, a search for the key of a stored value
\* finds a value of that key.  This is not said of every PUT that is answered OK:
\* handle_put answers so too when nothing was stored (cream.c:119).
StoredIsFound ==
    /\ Cardinality({v \in 1 .. calls : keyOf[v] # NoKey}) <= Capacity
    /\ \A w \in Workers : rheader[w].code # "CLEAR"
    =>
        \A v \in Stored :
            \A found \in data_store!Lookups(keyOf[v]) :
                found \in 1 .. calls /\ keyOf[found] = keyOf[v]

-----------------------------------------------------------------------------
\* As long as a worker has not yet taken a connection, every connection made is
\* answered, unless the process ends: accept, the semaphore, the two locks of
\* the store and the reads from slow clients never leave one waiting.
AnsweredWhileWorkersLast ==
    \A c \in Clients :
        client[c] = "backlog" ~>
            answer[c] # NoAnswer \/ exited \/ \A w \in Workers : pc[w] = "done"
===============================================================================
