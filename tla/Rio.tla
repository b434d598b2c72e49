---------------------------------- MODULE Rio ----------------------------------
(***************************************************************************)
(* The robust I/O functions of cream (src/hw5/src/cream.c, 254-447) on one *)
(* connection: rio_readn and rio_writen, which the server calls, and the   *)
(* buffered rio_readnb and rio_readlineb beside them.  read() and write()  *)
(* move as many bytes as they like, fail with EINTR, or fail for good, and *)
(* then the wrapper (Rio_readn ...) ends the process.                      *)
(*                                                                         *)
(* A byte is its position in what its sender sent, so that a byte that is  *)
(* lost, repeated or out of place shows.  An action is one read() or       *)
(* write(), or one copy out of rio_buf.                                    *)
(***************************************************************************)
EXTENDS Integers, Sequences

CONSTANTS
    Length,         \* the bytes the peer can send
    Newlines,       \* the positions of the newlines among them
    RIO_BUFSIZE,
    Sizes,          \* the sizes asked for
    Interrupts,     \* bound on the calls that fail with EINTR
    Room            \* bound on the bytes written

ASSUME LengthAssumption == Length \in Nat /\ Newlines \subseteq 1 .. Length
ASSUME SizesAssumption  == Sizes \subseteq Nat \ {0} /\ RIO_BUFSIZE \in Nat \ {0}
ASSUME BoundAssumption  == Interrupts \in Nat /\ Room \in Nat

VARIABLES
    buffered,       \* the connection is read through rp
    arrived,        \* bytes the peer has sent
    closed,         \* the peer has closed, or will send no more
    taken,          \* bytes read() has given
    rp,             \* rio_t
    call,           \* the call that is running: op, n, nleft, what bufp passed
    result,         \* what the last call returned
    delivered,      \* history: bytes returned by calls
    wire,           \* the bytes written
    interrupts, exited

peer == <<arrived, closed>>
vars == <<buffered, peer, taken, rp, call, result, delivered, wire, interrupts, exited>>

Operations == {"rio_readn", "rio_writen", "rio_readnb", "rio_readlineb"}
NoCall     == [op |-> "none", n |-> 0, nleft |-> 0, data |-> <<>>]

\* The positions from first on, k of them.
Span(first, k) == [i \in 1 .. k |-> first + i - 1]

Init ==
    /\ buffered \in BOOLEAN
    /\ arrived = 0 /\ closed = FALSE
    /\ taken = 0
    /\ rp = [rio_cnt |-> 0, rio_bufptr |-> 1, rio_buf |-> <<>>]
    /\ call = NoCall
    /\ result = NoCall
    /\ delivered = 0
    /\ wire = <<>>
    /\ interrupts = 0
    /\ exited = FALSE

-----------------------------------------------------------------------------
(* The peer *)

Arrive ==
    /\ ~closed /\ arrived < Length
    /\ arrived' = arrived + 1
    /\ UNCHANGED <<buffered, closed, taken, rp, call, result, delivered, wire, interrupts, exited>>

Close ==
    /\ ~closed
    /\ closed' = TRUE
    /\ UNCHANGED <<buffered, arrived, taken, rp, call, result, delivered, wire, interrupts, exited>>

-----------------------------------------------------------------------------
(* Calls *)

\* The loop of rio_readlineb runs at most maxlen - 1 times.
Call(op, n) ==
    /\ ~exited /\ call.op = "none"
    /\ op # "rio_writen" => buffered = (op # "rio_readn")
    /\ op = "rio_writen" => Len(wire) + n <= Room
    /\ call' = [op |-> op, n |-> n, nleft |-> IF op = "rio_readlineb" THEN n - 1 ELSE n,
                data |-> <<>>]
    /\ UNCHANGED <<buffered, peer, taken, rp, result, delivered, wire, interrupts, exited>>

Running(ops) == ~exited /\ call.op \in ops

\* The call returns the bytes of data.
Return(data) ==
    /\ result' = [call EXCEPT !.data = data, !.nleft = 0]
    /\ delivered' = IF call.op = "rio_writen" THEN delivered ELSE delivered + Len(data)
    /\ call' = NoCall

\* It has all it needs, or goes on.
GoOn(data, nleft) ==
    IF nleft = 0 THEN Return(data)
    ELSE /\ call' = [call EXCEPT !.data = data, !.nleft = nleft]
         /\ UNCHANGED <<result, delivered>>

\* A call of a size that leaves nothing to do.
Nothing ==
    /\ Running({"rio_readlineb"}) /\ call.nleft = 0
    /\ Return(<<>>)
    /\ UNCHANGED <<buffered, peer, taken, rp, wire, interrupts, exited>>

\* What read(fd, buf, n) can give besides an error: bytes, or 0 at the end.
ReadCounts(n) ==
    IF taken < arrived THEN {k \in 1 .. n : k <= arrived - taken}
    ELSE IF closed THEN {0} ELSE {}

\* EINTR: the loop of the function that called read() or write() tries again.
Interrupt ==
    /\ Running(Operations) /\ interrupts < Interrupts
    /\ call.op \in {"rio_readnb", "rio_readlineb"} => rp.rio_cnt <= 0 /\ call.nleft > 0
    /\ interrupts' = interrupts + 1
    /\ rp' = IF call.op \in {"rio_readnb", "rio_readlineb"} THEN [rp EXCEPT !.rio_cnt = -1] ELSE rp
    /\ UNCHANGED <<buffered, peer, taken, call, result, delivered, wire, exited>>

\* Any other error ends the process (unix_error).
Error ==
    /\ Running(Operations)
    /\ call.op \in {"rio_readnb", "rio_readlineb"} => rp.rio_cnt <= 0 /\ call.nleft > 0
    /\ exited' = TRUE
    /\ UNCHANGED <<buffered, peer, taken, rp, call, result, delivered, wire, interrupts>>

-----------------------------------------------------------------------------
(* rio_readn and rio_writen *)

\* Faulty variant: the first read() that gives anything is taken for all.
ReadOnce ==
    /\ Running({"rio_readn"})
    /\ \E k \in ReadCounts(call.nleft) :
          taken' = taken + k /\ Return(call.data \o Span(taken + 1, k))
    /\ UNCHANGED <<buffered, peer, rp, wire, interrupts, exited>>

ReadN ==
    /\ Running({"rio_readn"})
    /\ \E k \in ReadCounts(call.nleft) :
          /\ taken' = taken + k
          /\ IF k = 0 THEN Return(call.data)
             ELSE GoOn(call.data \o Span(taken + 1, k), call.nleft - k)
    /\ UNCHANGED <<buffered, peer, rp, wire, interrupts, exited>>

\* Faulty variant: bufp stays, each write() begins at the start of the buffer.
WriteFromStart ==
    /\ Running({"rio_writen"})
    /\ \E k \in 1 .. call.nleft :
          /\ wire' = wire \o Span(1, k)
          /\ GoOn(call.data \o Span(Len(call.data) + 1, k), call.nleft - k)
    /\ UNCHANGED <<buffered, peer, taken, rp, interrupts, exited>>

WriteN ==
    /\ Running({"rio_writen"})
    /\ \E k \in 1 .. call.nleft :
          LET next == Span(Len(call.data) + 1, k)
          IN  wire' = wire \o next /\ GoOn(call.data \o next, call.nleft - k)
    /\ UNCHANGED <<buffered, peer, taken, rp, interrupts, exited>>

-----------------------------------------------------------------------------
(* rio_read, and the loops of rio_readnb and rio_readlineb around it *)

Reading == Running({"rio_readnb", "rio_readlineb"}) /\ call.nleft > 0

\* Faulty variant: the end of the stream is taken for an interruption.
RefillRetriesEnd ==
    /\ Reading /\ rp.rio_cnt <= 0
    /\ \E k \in ReadCounts(RIO_BUFSIZE) \ {0} :
          /\ taken' = taken + k
          /\ rp' = [rio_cnt |-> k, rio_bufptr |-> 1, rio_buf |-> Span(taken + 1, k)]
    /\ UNCHANGED <<buffered, peer, call, result, delivered, wire, interrupts, exited>>

\* rio_buf is filled again; at the end of the stream the loop around ends too.
Refill ==
    /\ Reading /\ rp.rio_cnt <= 0
    /\ \E k \in ReadCounts(RIO_BUFSIZE) :
          /\ taken' = taken + k
          /\ IF k = 0
             THEN rp' = [rp EXCEPT !.rio_cnt = 0] /\ Return(call.data)
             ELSE /\ rp' = [rio_cnt |-> k, rio_bufptr |-> 1, rio_buf |-> Span(taken + 1, k)]
                  /\ UNCHANGED <<call, result, delivered>>
    /\ UNCHANGED <<buffered, peer, wire, interrupts, exited>>

\* Faulty variant: whatever is in the buffer is copied.
WantedAll == RIO_BUFSIZE

\* What rio_readlineb asks rio_read for is one byte.
Wanted == IF call.op = "rio_readlineb" THEN 1 ELSE call.nleft

\* Faulty variant: rio_bufptr stays.
CopyInPlace ==
    /\ Reading /\ rp.rio_cnt > 0
    /\ LET cnt == IF rp.rio_cnt < Wanted THEN rp.rio_cnt ELSE Wanted
           part == SubSeq(rp.rio_buf, rp.rio_bufptr, rp.rio_bufptr + cnt - 1)
       IN  /\ rp' = [rp EXCEPT !.rio_cnt = @ - cnt]
           /\ IF call.op = "rio_readlineb" /\ part[1] \in Newlines
              THEN Return(call.data \o part)
              ELSE GoOn(call.data \o part, call.nleft - cnt)
    /\ UNCHANGED <<buffered, peer, taken, wire, interrupts, exited>>

\* Faulty variant: rio_readlineb goes on after a newline.
CopyOn ==
    /\ Reading /\ rp.rio_cnt > 0
    /\ LET cnt == IF rp.rio_cnt < Wanted THEN rp.rio_cnt ELSE Wanted
           part == SubSeq(rp.rio_buf, rp.rio_bufptr, rp.rio_bufptr + cnt - 1)
       IN  /\ rp' = [rp EXCEPT !.rio_cnt = @ - cnt, !.rio_bufptr = @ + cnt]
           /\ GoOn(call.data \o part, call.nleft - cnt)
    /\ UNCHANGED <<buffered, peer, taken, wire, interrupts, exited>>

\* rio_read copies what it has of what is asked for; rio_readlineb stops at a
\* newline.
Copy ==
    /\ Reading /\ rp.rio_cnt > 0
    /\ LET cnt == IF rp.rio_cnt < Wanted THEN rp.rio_cnt ELSE Wanted
           part == SubSeq(rp.rio_buf, rp.rio_bufptr, rp.rio_bufptr + cnt - 1)
       IN  /\ rp' = [rp EXCEPT !.rio_cnt = @ - cnt, !.rio_bufptr = @ + cnt]
           /\ IF call.op = "rio_readlineb" /\ part[1] \in Newlines
              THEN Return(call.data \o part)
              ELSE GoOn(call.data \o part, call.nleft - cnt)
    /\ UNCHANGED <<buffered, peer, taken, wire, interrupts, exited>>

-----------------------------------------------------------------------------

Step == ReadN \/ WriteN \/ Refill \/ Copy \/ Nothing

Next ==
    \/ Arrive \/ Close
    \/ \E op \in Operations, n \in Sizes : Call(op, n)
    \/ Step \/ Interrupt \/ Error

\* A call that can go on does, and the peer does not keep silent for ever.
Spec == Init /\ [][Next]_vars /\ WF_vars(Step) /\ WF_vars(Close)
=============================================================================
