-------------------------------- MODULE Cream --------------------------------
(***************************************************************************)
(* The server cream (src/hw5/src/cream.c): the main thread accepts          *)
(* connections and enqueues them; each worker dequeues a connection, reads  *)
(* one request from it, runs the request's handler against the data store,  *)
(* answers, closes the connection and returns.  The request queue and the   *)
(* data store are the modules RequestQueue and HashMap themselves, step by  *)
(* step, so the threads interleave inside enqueue, dequeue, put and get.    *)
(*                                                                          *)
(* A client connects once; it sends the header and then the body of one     *)
(* request, and may close or reset the connection at any time.  The bytes   *)
(* of a request are abstracted to its code and to its two sizes: refused by *)
(* the handler, or accepted and at most the 16 bytes of the map_key_t and   *)
(* the map_val_t that the body is read over, or accepted and longer.  A     *)
(* body longer than that overruns the heap, and nothing is modelled of the  *)
(* process from then on.  A shorter one becomes the pointer and the length  *)
(* of a key, so which key the store sees is left open, and the hash         *)
(* function, which follows the pointer inside put and get, may kill the     *)
(* process; the memory it points to is taken not to change between calls.   *)
(***************************************************************************)
EXTENDS Naturals, Sequences, FiniteSets

CONSTANTS
    Main, Workers,          \* the threads
    NoThread,
    Clients,                \* the connections that are ever made
    NoClient,
    Impatient,              \* the clients that may leave before they are answered
    RequestCodes,           \* what the clients ask for,
    RequestSizes,           \* with keys and values of what sizes
    Keys, NoKey, Capacity, Home, SizeModulus    \* see HashMap

ASSUME MainAssumption == Main \notin Workers
ASSUME RequestsAssumption ==
    /\ RequestCodes \subseteq {"PUT", "GET", "EVICT", "CLEAR", "OTHER"}
    /\ RequestSizes \subseteq {"refused", "fit", "overrun"}
ASSUME ThreadsAssumption ==
    IsFiniteSet(Workers) /\ NoThread \notin Workers \cup {Main}
ASSUME ClientsAssumption == IsFiniteSet(Clients) /\ NoClient \notin Clients
ASSUME StoreAssumption ==
    /\ NoKey \notin Keys
    /\ Capacity \in Nat \ {0} /\ SizeModulus \in Nat \ {0}
    /\ Home \in [Keys \cup {NoKey} -> 0 .. Capacity - 1]

VARIABLES
    \* request_queue
    front, rear, next, item, live, allocated, items, lock, queueInvalid,
    queuePc, arg, got, crashed,
    \* data_store
    slots, size, freed, mapInvalid, num_readers, fields_lock, write_lock,
    mapPc, req, ptr, result, calls, keyOf, undefined,
    \* the threads
    accepted,       \* the connection main has accepted and not yet enqueued
    pc,             \* where each worker is
    connfd,         \* the connection each worker serves
    rheader,        \* the request header each worker has parsed
    exited,         \* the process has ended, or has overrun its heap
    \* the clients
    client,         \* state of each connection, as the server can see it
    delivered,      \* what has arrived: 0 nothing, 1 the header, 2 the body too
    sent,           \* the header each client sends
    answer          \* the response code each client has been sent

queueVars == <<front, rear, next, item, live, allocated, items, lock,
               queueInvalid, queuePc, arg, got, crashed>>
mapVars   == <<slots, size, freed, mapInvalid, num_readers, fields_lock,
               write_lock, mapPc, req, ptr, result, calls, keyOf, undefined>>
threadVars == <<accepted, pc, connfd, rheader, exited>>
clientVars == <<client, delivered, sent, answer>>
vars == <<queueVars, mapVars, threadVars, clientVars>>

request_queue == INSTANCE RequestQueue WITH
    Producers <- {Main}, Consumers <- Workers, Invalidators <- {},
    Items <- Clients, NoItem <- NoClient, MaxNodes <- Cardinality(Clients),
    invalid <- queueInvalid, pc <- queuePc

\* A worker makes at most one call on the data store.
data_store == INSTANCE HashMap WITH
    Threads <- Workers, MaxCalls <- Cardinality(Workers),
    Operations <- {"force", "get", "clear"},
    invalid <- mapInvalid, pc <- mapPc

\* The requests, by request code and sizes (cream.h:10-22); other codes are all
\* answered alike, and the sizes matter to PUT and GET only.
Headers       == {h \in [code : RequestCodes, sizes : RequestSizes] :
                    h.sizes # "refused" => h.code \in {"PUT", "GET"}}
NoHeader      == [code |-> "OTHER", sizes |-> "refused"]
ResponseCodes == {"OK", "UNSUPPORTED", "BAD_REQUEST", "NOT_FOUND"}
NoAnswer      == "none"

Init ==
    /\ request_queue!Init
    /\ data_store!Init
    /\ accepted = NoClient
    /\ pc = [w \in Workers |-> "start"]
    /\ connfd = [w \in Workers |-> NoClient]
    /\ rheader = [w \in Workers |-> NoHeader]
    /\ exited = FALSE
    /\ client = [c \in Clients |-> "away"]
    /\ delivered = [c \in Clients |-> 0]
    /\ sent = [c \in Clients |-> NoHeader]
    /\ answer = [c \in Clients |-> NoAnswer]

-----------------------------------------------------------------------------
(* The clients *)

ClientStep(c, from, to) ==
    /\ ~exited
    /\ client[c] = from
    /\ client' = [client EXCEPT ![c] = to]
    /\ UNCHANGED <<queueVars, mapVars, threadVars, answer>>

\* The connection is in the listening socket's backlog.
Connect(c) == ClientStep(c, "away", "backlog") /\ UNCHANGED <<delivered, sent>>

\* The header arrives whole, then the body whole.
Send(c) ==
    /\ ~exited
    /\ client[c] \in {"backlog", "up"} /\ delivered[c] < 2
    /\ delivered' = [delivered EXCEPT ![c] = @ + 1]
    /\ \E h \in Headers :
         sent' = IF delivered[c] = 0 THEN [sent EXCEPT ![c] = h] ELSE sent
    /\ UNCHANGED <<queueVars, mapVars, threadVars, client, answer>>

\* The client closes its side (what it sent can still be read), or resets it.
HangUp(c) == c \in Impatient /\ ClientStep(c, "up", "closed") /\ UNCHANGED <<delivered, sent>>
Reset(c)  == c \in Impatient /\ ClientStep(c, "up", "reset") /\ UNCHANGED <<delivered, sent>>

-----------------------------------------------------------------------------
(* int main(int argc, char *argv[]): the loop of lines 62-67 *)

Accept(c) ==
    /\ ~exited
    /\ accepted = NoClient /\ queuePc[Main] = "idle"
    /\ client[c] = "backlog"
    /\ client' = [client EXCEPT ![c] = "up"]
    /\ accepted' = c
    /\ UNCHANGED <<queueVars, mapVars, pc, connfd, rheader, exited,
                   delivered, sent, answer>>

\* Faulty variant: main enqueues the same connection again and again.
EnqueueAgain ==
    /\ ~exited
    /\ accepted # NoClient
    /\ request_queue!Enqueue(Main, accepted)
    /\ UNCHANGED <<mapVars, threadVars, clientVars>>

EnqueueConnection ==
    /\ ~exited
    /\ accepted # NoClient
    /\ request_queue!Enqueue(Main, accepted)
    /\ accepted' = NoClient
    /\ UNCHANGED <<mapVars, pc, connfd, rheader, exited, clientVars>>

-----------------------------------------------------------------------------
(* void *thread(void *vargp) *)

Goto(w, from, to) ==
    /\ ~exited
    /\ pc[w] = from
    /\ pc' = [pc EXCEPT ![w] = to]

\* unix_error, a signal or an invalid access: the whole process ends.
Exit ==
    /\ ~exited
    /\ exited' = TRUE
    /\ UNCHANGED <<queueVars, mapVars, accepted, pc, connfd, rheader, clientVars>>

CallDequeue(w) ==
    /\ Goto(w, "start", "dequeue")
    /\ request_queue!Dequeue(w)
    /\ UNCHANGED <<mapVars, accepted, connfd, rheader, exited, clientVars>>

TakeConnection(w) ==
    /\ queuePc[w] = "idle"
    /\ Goto(w, "dequeue", "parse")
    /\ connfd' = [connfd EXCEPT ![w] = got[w]]
    /\ UNCHANGED <<queueVars, mapVars, accepted, rheader, exited, clientVars>>

\* Rio_readn returns when enough has arrived or the client has closed, and
\* nobody looks at how much it has read.
Readable(c, n) == (client[c] = "up" /\ delivered[c] >= n) \/ client[c] = "closed"

AfterHeader(h) ==
    IF h.sizes # "refused" THEN "readBody" ELSE IF h.code = "CLEAR" THEN "clear" ELSE "respond"

\* parse_request, and the choice of the handler.  A header cut short leaves
\* rheader uninitialised.
ParseRequest(w) ==
    LET c == connfd[w] IN
    /\ pc[w] = "parse" /\ Readable(c, 1)
    /\ \E h \in IF delivered[c] > 0 THEN {sent[c]} ELSE Headers :
         /\ Goto(w, "parse", AfterHeader(h))
         /\ rheader' = [rheader EXCEPT ![w] = h]
    /\ UNCHANGED <<queueVars, mapVars, accepted, connfd, exited, clientVars>>

\* The body has arrived: at most as many bytes as there is room for, or more.  A
\* client that has closed before its body leaves the key, and the value, as malloc
\* gave them.
BodyFits(w)     == /\ Readable(connfd[w], 2)
                   /\ rheader[w].sizes = "overrun" => delivered[connfd[w]] < 2
BodyOverruns(w) == /\ Readable(connfd[w], 2)
                   /\ rheader[w].sizes = "overrun" /\ delivered[connfd[w]] = 2

HandlePut(w) ==
    /\ Goto(w, "readBody", "inStore")
    /\ rheader[w].code = "PUT" /\ BodyFits(w)
    /\ \E k \in Keys : data_store!Put(w, k, TRUE)
    /\ UNCHANGED <<queueVars, accepted, connfd, rheader, exited, clientVars>>

HandleGet(w) ==
    /\ Goto(w, "readBody", "inStore")
    /\ rheader[w].code = "GET" /\ BodyFits(w)
    /\ \E k \in Keys : data_store!Get(w, k)
    /\ UNCHANGED <<queueVars, accepted, connfd, rheader, exited, clientVars>>

\* Faulty variant: the handler gives up without writing a response.
RefusedUnanswered(w) ==
    /\ Goto(w, "readBody", "close")
    /\ BodyFits(w)
    /\ UNCHANGED <<queueVars, mapVars, accepted, connfd, rheader, exited, clientVars>>

\* The bytes form a NULL key (or, for put, a NULL value): EINVAL, no effect.
RefusedByStore(w) ==
    /\ Goto(w, "readBody", "respond")
    /\ BodyFits(w)
    /\ UNCHANGED <<queueVars, mapVars, accepted, connfd, rheader, exited, clientVars>>

HandleClear(w) ==
    /\ Goto(w, "clear", "inStore")
    /\ data_store!ClearMap(w)
    /\ UNCHANGED <<queueVars, accepted, connfd, rheader, exited, clientVars>>

StoreReturns(w) ==
    /\ mapPc[w] = "idle"
    /\ Goto(w, "inStore", "respond")
    /\ UNCHANGED <<queueVars, mapVars, accepted, connfd, rheader, exited, clientVars>>

\* Faulty variant: handle_put sets a code only on its error paths, and sends what
\* its stack held after a put that worked.
ResponseCodeUnset(h) ==
    CASE h.code = "OTHER"                    -> "UNSUPPORTED"
      [] h.code \in {"PUT", "GET"} /\ h.sizes = "refused" -> "BAD_REQUEST"
      [] h.code = "PUT"                      -> "uninitialised"
      [] OTHER                               -> "OK"

\* handle_put answers OK whatever happened, handle_get OK if the size was valid,
\* whether the key was found or not: its NOT_FOUND is behind the return.
ResponseCode(h) ==
    CASE h.code = "OTHER"                      -> "UNSUPPORTED"
      [] h.code = "GET" /\ h.sizes = "refused" -> "BAD_REQUEST"
      [] OTHER                                 -> "OK"

\* A write to a client that has closed may still succeed.
Respond(w) ==
    LET c == connfd[w]
        h == rheader[w] IN
    /\ Goto(w, "respond", IF h.code = "GET" /\ h.sizes # "refused" THEN "writeValue" ELSE "close")
    /\ client[c] \in {"up", "closed"}
    /\ answer' = [answer EXCEPT ![c] = ResponseCode(h)]
    /\ UNCHANGED <<queueVars, mapVars, accepted, connfd, rheader, exited,
                   client, delivered, sent>>

WriteValue(w) ==
    /\ Goto(w, "writeValue", "close")
    /\ client[connfd[w]] \in {"up", "closed"}
    /\ UNCHANGED <<queueVars, mapVars, accepted, connfd, rheader, exited, clientVars>>

\* Close(connfd), and the worker returns: the loop never comes round.
CloseAndReturn(w) ==
    /\ Goto(w, "close", "done")
    /\ client' = [client EXCEPT ![connfd[w]] = "served"]
    /\ UNCHANGED <<queueVars, mapVars, accepted, connfd, rheader, exited,
                   delivered, sent, answer>>

-----------------------------------------------------------------------------
(* What ends the process *)

AcceptError == accepted = NoClient /\ queuePc[Main] = "idle" /\ Exit

ReadError(w) ==
    pc[w] \in {"parse", "readBody"} /\ client[connfd[w]] = "reset" /\ Exit

WriteError(w) ==
    /\ pc[w] \in {"respond", "writeValue"}
    /\ client[connfd[w]] \in {"closed", "reset"}
    /\ Exit

\* More bytes than a map_key_t or a map_val_t has are read over it.
Overrun(w) == pc[w] = "readBody" /\ BodyOverruns(w) /\ Exit

\* put and get hash the bytes that the client's pointer leads to, inside the locks.
BadKey(w) == mapPc[w] \in {"putKey", "getProbe"} /\ Exit

-----------------------------------------------------------------------------
QueueStep(t) ==
    /\ ~exited
    /\ request_queue!EnqueueStep(t) \/ request_queue!DequeueStep(t)
    /\ UNCHANGED <<mapVars, threadVars, clientVars>>

StoreStep(w) ==
    /\ ~exited
    /\ data_store!InCall(w)
    /\ UNCHANGED <<queueVars, threadVars, clientVars>>

MainStep == EnqueueConnection \/ QueueStep(Main) \/ \E c \in Clients : Accept(c)

WorkerStep(w) ==
    \/ CallDequeue(w) \/ QueueStep(w) \/ TakeConnection(w) \/ ParseRequest(w)
    \/ HandlePut(w) \/ HandleGet(w) \/ HandleClear(w) \/ RefusedByStore(w)
    \/ StoreStep(w) \/ StoreReturns(w)
    \/ Respond(w) \/ WriteValue(w) \/ CloseAndReturn(w)

WorkerError(w) == ReadError(w) \/ WriteError(w) \/ Overrun(w) \/ BadKey(w)

ClientAction(c) == Connect(c) \/ Send(c) \/ HangUp(c) \/ Reset(c)

Next ==
    \/ MainStep \/ AcceptError
    \/ \E w \in Workers : WorkerStep(w) \/ WorkerError(w)
    \/ \E c \in Clients : ClientAction(c)

Spec == Init /\ [][Next]_vars

\* The threads are scheduled; a connected client sends all of its request or
\* goes away.  A reset connection is noticed by the next read or write.
Fairness ==
    /\ WF_vars(MainStep)
    /\ \A w \in Workers : WF_vars(WorkerStep(w) \/ WorkerError(w))
    /\ \A c \in Clients : WF_vars(Send(c) \/ HangUp(c) \/ Reset(c))

FairSpec == Spec /\ Fairness
=============================================================================
