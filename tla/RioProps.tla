-------------------------------- MODULE RioProps --------------------------------
(* What the callers of the robust I/O functions rely on.                       *)
EXTENDS Rio

TypeOK ==
    /\ buffered \in BOOLEAN /\ closed \in BOOLEAN /\ exited \in BOOLEAN
    /\ arrived \in 0 .. Length /\ taken \in 0 .. arrived /\ delivered \in 0 .. taken
    /\ rp.rio_cnt \in -1 .. RIO_BUFSIZE /\ rp.rio_bufptr \in 1 .. RIO_BUFSIZE + 1
    /\ \A c \in {call, result} :
          /\ c.op \in Operations \cup {"none"} /\ c.n \in Sizes \cup {0}
          /\ c.nleft \in 0 .. c.n /\ Len(c.data) <= c.n - c.nleft
    /\ Len(wire) <= Room
    /\ interrupts \in 0 .. Interrupts

-----------------------------------------------------------------------------

Unread == IF rp.rio_cnt <= 0 THEN <<>>
          ELSE SubSeq(rp.rio_buf, rp.rio_bufptr, rp.rio_bufptr + rp.rio_cnt - 1)

\* Whatever read() gives at a time, and however often it is interrupted, the
\* calls return the bytes of the stream in order: what they returned, what the
\* running one has, and what waits in rio_buf is all that was read, once.
NothingLost ==
    LET mine == IF call.op \in {"rio_writen", "none"} THEN <<>> ELSE call.data
    IN  mine \o Unread = Span(delivered + 1, taken - delivered)

\* A call for n bytes that returns fewer has met the end of the stream, and all
\* that was sent has been returned: the short count is not a short read().
ShortMeansEnd ==
    (result.op \in {"rio_readn", "rio_readnb"} /\ Len(result.data) < result.n) =>
        closed /\ delivered = arrived

\* A line ends with the first newline, where the buffer is full, or where the
\* stream ends; nothing behind its newline is taken with it.
LinesAreWhole ==
    result.op = "rio_readlineb" =>
        /\ Len(result.data) <= result.n - 1
        /\ \A i \in 1 .. Len(result.data) - 1 : result.data[i] \notin Newlines
        /\ \/ Len(result.data) = result.n - 1
           \/ Len(result.data) > 0 /\ result.data[Len(result.data)] \in Newlines
           \/ closed /\ delivered = arrived

\* rio_writen returns once its buffer is on the wire, all of it and in order.
WrittenWhole ==
    LET n == Len(IF call.op = "rio_writen" THEN call.data
                 ELSE IF result.op = "rio_writen" THEN result.data ELSE <<>>)
    IN  /\ n <= Len(wire) /\ SubSeq(wire, Len(wire) - n + 1, Len(wire)) = Span(1, n)
        /\ (result.op = "rio_writen" => Len(result.data) = result.n)

\* Every call returns or ends the process: an interruption does not keep it.
CallsReturn == call.op # "none" ~> (call.op = "none" \/ exited)
=============================================================================
