------------------------------- MODULE RioProofs -------------------------------
(***************************************************************************)
(* What the callers of the robust I/O functions rely on holds for a stream *)
(* of any length, any sizes and any size of rio_buf.  The inductive        *)
(* invariant says where every byte that read() gave is, position by        *)
(* position, and what is left of the running call.                         *)
(***************************************************************************)
EXTENDS RioProps, SequenceTheorems, TLAPS

Records == [op : Operations \cup {"none"}, n : Nat, nleft : Nat, data : Seq(Nat)]

Types ==
    /\ buffered \in BOOLEAN /\ closed \in BOOLEAN /\ exited \in BOOLEAN
    /\ arrived \in Nat /\ arrived <= Length
    /\ taken \in Nat /\ taken <= arrived /\ delivered \in Nat
    /\ rp \in [rio_cnt : Int, rio_bufptr : Nat, rio_buf : Seq(Nat)]
    /\ call \in Records /\ result \in Records
    /\ wire \in Seq(Nat)
    /\ interrupts \in 0 .. Interrupts

\* The running call: what it has and what it wants add up to what it was asked.
Account ==
    /\ call.op = "none" => call = NoCall
    /\ call.op # "none" => call.n \in Sizes
    /\ call.op \in Operations \ {"rio_readlineb"} =>
          call.nleft > 0 /\ Len(call.data) + call.nleft = call.n
    /\ call.op = "rio_readlineb" =>
          /\ Len(call.data) + call.nleft = call.n - 1
          /\ call.nleft = 0 => call.data = <<>>

\* The last call.
Returned ==
    /\ result.op = "none" => result = NoCall
    /\ result.op # "none" =>
          result.n \in Sizes /\ result.nleft = 0 /\ Len(result.data) <= result.n

\* rio_buf: what is unread stands at its end.
Buffer ==
    /\ rp.rio_cnt >= -1 /\ rp.rio_cnt <= RIO_BUFSIZE
    /\ rp.rio_bufptr >= 1 /\ rp.rio_bufptr <= RIO_BUFSIZE + 1
    /\ Len(rp.rio_buf) <= RIO_BUFSIZE
    /\ rp.rio_cnt > 0 => rp.rio_bufptr + rp.rio_cnt = Len(rp.rio_buf) + 1
    /\ call.op \in {"rio_readnb", "rio_readlineb"} => buffered
    /\ call.op = "rio_readn" => ~buffered
    /\ ~buffered => rp.rio_cnt = 0

Mine    == IF call.op \in {"rio_writen", "none"} THEN <<>> ELSE call.data
Waiting == IF rp.rio_cnt <= 0 THEN 0 ELSE rp.rio_cnt

\* The bytes read() gave and no call has returned: with the running call, then
\* in rio_buf.
Stream ==
    /\ Len(Mine) + Waiting = taken - delivered
    /\ \A i \in 1 .. Len(Mine) : Mine[i] = delivered + i
    /\ \A i \in 1 .. Waiting : rp.rio_buf[rp.rio_bufptr + i - 1] = delivered + Len(Mine) + i

\* A line that is being read has no newline yet.
Line ==
    /\ call.op = "rio_readlineb" => \A i \in 1 .. Len(call.data) : call.data[i] \notin Newlines
    /\ LinesAreWhole

\* The last n bytes on the wire are a buffer's first n.
Ending(n) ==
    n <= Len(wire) /\ \A i \in 1 .. n : wire[Len(wire) - n + i] = i

Written ==
    /\ Len(wire) <= Room
    /\ call.op = "rio_writen" => Len(wire) + call.nleft <= Room /\ Ending(Len(call.data))
    /\ call.op # "rio_writen" /\ result.op = "rio_writen" => Ending(Len(result.data))
    /\ result.op = "rio_writen" => Len(result.data) = result.n

IInv == Types /\ Account /\ Returned /\ Buffer /\ Stream /\ Line /\ ShortMeansEnd /\ Written

-----------------------------------------------------------------------------
(* Sequences *)

LEMMA SpanIs ==
    ASSUME NEW first \in Nat, NEW k \in Nat
    PROVE  /\ Span(first, k) \in Seq(Nat) /\ Len(Span(first, k)) = k
           /\ \A i \in 1 .. k : Span(first, k)[i] = first + i - 1
<1>1. \A i \in 1 .. k : first + i - 1 \in Nat
  OBVIOUS
<1>. QED
  BY <1>1 DEF Span

\* Appending k bytes to what a call has.
LEMMA Appended ==
    ASSUME NEW s \in Seq(Nat), NEW t \in Seq(Nat)
    PROVE  /\ s \o t \in Seq(Nat)
           /\ Len(s \o t) = Len(s) + Len(t)
           /\ \A i \in 1 .. Len(s) : (s \o t)[i] = s[i]
           /\ \A i \in 1 .. Len(t) : (s \o t)[Len(s) + i] = t[i]
<1>1. /\ s \o t \in Seq(Nat) /\ Len(s \o t) = Len(s) + Len(t)
      /\ \A i \in 1 .. Len(s) + Len(t) : (s \o t)[i] = IF i <= Len(s) THEN s[i] ELSE t[i - Len(s)]
  BY ConcatProperties
<1>2. Len(s) \in Nat /\ Len(t) \in Nat
  OBVIOUS
<1>. QED
  BY <1>1, <1>2

\* What a call has, and the bytes of the stream that follow it.
LEMMA Extended ==
    ASSUME NEW s \in Seq(Nat), NEW t \in Seq(Nat), NEW d \in Nat,
           \A i \in 1 .. Len(s) : s[i] = d + i,
           \A i \in 1 .. Len(t) : t[i] = d + Len(s) + i
    PROVE  /\ s \o t \in Seq(Nat) /\ Len(s \o t) = Len(s) + Len(t)
           /\ \A i \in 1 .. Len(s \o t) : (s \o t)[i] = d + i
<1>1. /\ s \o t \in Seq(Nat) /\ Len(s \o t) = Len(s) + Len(t)
      /\ \A i \in 1 .. Len(s) : (s \o t)[i] = s[i]
      /\ \A i \in 1 .. Len(t) : (s \o t)[Len(s) + i] = t[i]
  BY Appended
<1>. DEFINE st == s \o t
<1>2. Len(s) \in Nat /\ Len(t) \in Nat
  OBVIOUS
<1>3. /\ st \in Seq(Nat) /\ Len(st) = Len(s) + Len(t)
      /\ \A i \in 1 .. Len(s) : st[i] = s[i]
      /\ \A i \in 1 .. Len(t) : st[Len(s) + i] = t[i]
  BY <1>1
<1>. HIDE DEF st
<1>4. ASSUME NEW i \in Nat, 1 <= i, i <= Len(st) PROVE st[i] = d + i
  <2>1. CASE i <= Len(s)
    BY <1>2, <1>3, <1>4, <2>1
  <2>2. CASE i > Len(s)
    <3>. DEFINE j == i - Len(s)
    <3>1. j \in Nat /\ 1 <= j /\ j <= Len(t) /\ i = Len(s) + j
      BY <1>2, <1>3, <1>4, <2>2
    <3>. HIDE DEF j
    <3>2. st[Len(s) + j] = d + Len(s) + j
      BY <1>3, <3>1
    <3>. QED
      BY <1>2, <3>1, <3>2
  <2>. QED
    BY <1>2, <1>4, <2>1, <2>2
<1>5. \A i \in 1 .. Len(st) : st[i] = d + i
  BY <1>2, <1>3, <1>4
<1>. QED
  BY <1>1, <1>5 DEF st

\* The part of rio_buf that is copied.
LEMMA PartIs ==
    ASSUME NEW b \in Seq(Nat), NEW p \in Nat \ {0}, NEW cnt \in Nat, p + cnt <= Len(b) + 1
    PROVE  /\ SubSeq(b, p, p + cnt - 1) \in Seq(Nat)
           /\ Len(SubSeq(b, p, p + cnt - 1)) = cnt
           /\ \A i \in 1 .. cnt : SubSeq(b, p, p + cnt - 1)[i] = b[p + i - 1]
<1>1. p + cnt - 1 \in Int /\ p \in Int /\ \A i \in p .. p + cnt - 1 : b[i] \in Nat
  OBVIOUS
<1>2. /\ SubSeq(b, p, p + cnt - 1) \in Seq(Nat)
      /\ Len(SubSeq(b, p, p + cnt - 1)) = IF p <= p + cnt - 1 THEN (p + cnt - 1) - p + 1 ELSE 0
      /\ \A i \in 1 .. (p + cnt - 1) - p + 1 : SubSeq(b, p, p + cnt - 1)[i] = b[p + i - 1]
  BY <1>1, SubSeqProperties
<1>. QED
  BY <1>2

-----------------------------------------------------------------------------
(* How a call ends and goes on *)

LEMMA NoCallIs == NoCall \in Records /\ Len(NoCall.data) = 0
<1>1. <<>> \in Seq(Nat) /\ Len(<<>>) = 0
  OBVIOUS
<1>. QED
  BY <1>1 DEF NoCall, Records

LEMMA Returning ==
    ASSUME Types, Account, call.op # "none", NEW data \in Seq(Nat), Return(data)
    PROVE  /\ call' = NoCall /\ call' \in Records
           /\ result' \in Records
           /\ result'.op = call.op /\ result'.n = call.n /\ result'.nleft = 0 /\ result'.data = data
           /\ delivered' = IF call.op = "rio_writen" THEN delivered ELSE delivered + Len(data)
           /\ delivered' \in Nat
<1>1. call' = NoCall /\ call' \in Records
  BY NoCallIs DEF Return
<1>2. /\ result' \in Records
      /\ result'.op = call.op /\ result'.n = call.n /\ result'.nleft = 0 /\ result'.data = data
  BY DEF Types, Return, Records
<1>3. /\ delivered' = IF call.op = "rio_writen" THEN delivered ELSE delivered + Len(data)
      /\ delivered' \in Nat
  BY DEF Types, Return
<1>. QED
  BY <1>1, <1>2, <1>3

LEMMA GoingOn ==
    ASSUME Types, Account, NEW data \in Seq(Nat), NEW nleft \in Nat \ {0}, GoOn(data, nleft)
    PROVE  /\ call' \in Records
           /\ call'.op = call.op /\ call'.n = call.n /\ call'.nleft = nleft /\ call'.data = data
           /\ UNCHANGED <<result, delivered>>
  BY DEF Types, Account, GoOn, Records

-----------------------------------------------------------------------------
(* Every step preserves the invariant *)

USE LengthAssumption, SizesAssumption, BoundAssumption

LEMMA InitIInv == Init => IInv
<1>. SUFFICES ASSUME Init PROVE IInv
  OBVIOUS
<1>1. Types /\ Account /\ Returned /\ Buffer
  <2>1. rp \in [rio_cnt : Int, rio_bufptr : Nat, rio_buf : Seq(Nat)]
    BY DEF Init
  <2>2. Types
    <3>1. wire \in Seq(Nat)
      BY DEF Init
    <3>2. call \in Records /\ result \in Records
      BY NoCallIs DEF Init
    <3>3. buffered \in BOOLEAN /\ closed \in BOOLEAN /\ exited \in BOOLEAN
      BY Zenon DEF Init
    <3>4. /\ arrived \in Nat /\ arrived <= Length /\ taken \in Nat /\ taken <= arrived
          /\ delivered \in Nat /\ interrupts \in 0 .. Interrupts
      BY DEF Init
    <3>. QED
      BY <2>1, <3>1, <3>2, <3>3, <3>4 DEF Types
  <2>3. call.op = "none" /\ call.op \notin Operations
    BY DEF Init, NoCall, Operations
  <2>4. Account /\ Returned
    BY <2>3, NoCallIs DEF Init, Account, Returned
  <2>5. Buffer
    BY <2>3 DEF Init, Buffer, Operations
  <2>. QED
    BY <2>2, <2>4, <2>5
<1>2. Stream /\ Line /\ ShortMeansEnd /\ Written
  BY DEF Init, Stream, Mine, Waiting, Line, LinesAreWhole, ShortMeansEnd, Written, NoCall
<1>. QED
  BY <1>1, <1>2 DEF IInv

\* What was said of the last call stays true as long as the stream does not grow
\* past its end.
LEMMA ResultKept ==
    ASSUME IInv, UNCHANGED <<result, delivered>>, closed => closed' /\ arrived' = arrived
    PROVE  Returned' /\ ShortMeansEnd' /\ LinesAreWhole'
  BY DEF IInv, Returned, ShortMeansEnd, Line, LinesAreWhole

\* The steps of the peer.
LEMMA PeerSteps == ASSUME IInv, Arrive \/ Close PROVE IInv'
<1>. UNCHANGED <<buffered, taken, rp, call, result, delivered, wire, interrupts, exited>>
  BY DEF Arrive, Close
<1>1. Types'
  <2>1. closed' \in BOOLEAN
    BY Zenon DEF IInv, Types, Arrive, Close
  <2>2. arrived' \in Nat /\ arrived' <= Length /\ arrived <= arrived'
    BY DEF IInv, Types, Arrive, Close
  <2>. QED
    BY <2>1, <2>2 DEF IInv, Types
<1>2. Account' /\ Buffer' /\ Stream' /\ Written'
  BY DEF IInv, Account, Buffer, Stream, Mine, Waiting, Written, Ending
<1>3. Returned' /\ ShortMeansEnd' /\ LinesAreWhole'
  BY ResultKept DEF Arrive, Close
<1>4. Line'
  BY <1>3 DEF IInv, Line
<1>. QED
  BY <1>1, <1>2, <1>3, <1>4 DEF IInv

LEMMA ErrorStep == ASSUME IInv, Error PROVE IInv'
<1>. /\ UNCHANGED <<buffered, peer, taken, rp, call, result, delivered, wire, interrupts>>
     /\ exited' = TRUE
  BY DEF Error
<1>1. Types'
  BY DEF IInv, Types, peer
<1>2. Account' /\ Buffer' /\ Stream' /\ Written'
  BY DEF IInv, Account, Buffer, Stream, Mine, Waiting, Written, Ending
<1>3. Returned' /\ ShortMeansEnd' /\ LinesAreWhole'
  BY ResultKept DEF peer
<1>4. Line'
  BY <1>3 DEF IInv, Line
<1>. QED
  BY <1>1, <1>2, <1>3, <1>4 DEF IInv

\* An interruption leaves nothing but a negative rio_cnt where there was no byte.
LEMMA InterruptStep == ASSUME IInv, Interrupt PROVE IInv'
<1>. UNCHANGED <<buffered, peer, taken, call, result, delivered, wire, exited>>
  BY DEF Interrupt
<1>0. \/ rp' = rp
      \/ /\ call.op \in {"rio_readnb", "rio_readlineb"} /\ rp.rio_cnt <= 0
         /\ rp' = [rp EXCEPT !.rio_cnt = -1]
  BY DEF Interrupt
<1>1. Types'
  <2>1. rp' \in [rio_cnt : Int, rio_bufptr : Nat, rio_buf : Seq(Nat)]
    BY SMTT(30), <1>0 DEF IInv, Types
  <2>2. interrupts' \in 0 .. Interrupts
    BY DEF IInv, Types, Interrupt
  <2>. QED
    BY <2>1, <2>2 DEF IInv, Types, peer
<1>2. Account' /\ Written'
  BY DEF IInv, Account, Written, Ending
<1>3. Buffer'
  <2>1. CASE rp' = rp
    BY <2>1 DEF IInv, Buffer
  <2>2. CASE call.op \in {"rio_readnb", "rio_readlineb"} /\ rp' = [rp EXCEPT !.rio_cnt = -1]
    <3>1. rp'.rio_cnt = -1 /\ rp'.rio_bufptr = rp.rio_bufptr /\ rp'.rio_buf = rp.rio_buf
      BY <2>2 DEF IInv, Types
    <3>. QED
      BY <2>2, <3>1 DEF IInv, Buffer
  <2>. QED
    BY <1>0, <2>1, <2>2
<1>4. Stream'
  <2>1. Waiting' = Waiting /\ Mine' = Mine
    BY <1>0 DEF IInv, Types, Waiting, Mine
  <2>2. Waiting > 0 => rp' = rp
    BY <1>0 DEF Waiting
  <2>3. Waiting \in Nat
    BY DEF IInv, Types, Waiting
  <2>4. CASE rp' = rp
    BY <2>1, <2>4 DEF IInv, Stream
  <2>5. CASE Waiting = 0
    BY <2>1, <2>5 DEF IInv, Stream
  <2>. QED
    BY <2>2, <2>3, <2>4, <2>5
<1>5. Returned' /\ ShortMeansEnd' /\ LinesAreWhole'
  BY ResultKept DEF peer
<1>6. Line'
  BY <1>5 DEF IInv, Line
<1>. QED
  BY <1>1, <1>2, <1>3, <1>4, <1>5, <1>6 DEF IInv

LEMMA CallStep == ASSUME IInv, NEW op \in Operations, NEW n \in Sizes, Call(op, n) PROVE IInv'
<1>. UNCHANGED <<buffered, peer, taken, rp, result, delivered, wire, interrupts, exited>>
  BY DEF Call
<1>0. /\ call.op = "none" /\ call'.op = op /\ call'.n = n /\ call'.data = <<>>
      /\ call'.nleft = IF op = "rio_readlineb" THEN n - 1 ELSE n
  BY DEF Call
<1>1. n \in Nat \ {0} /\ <<>> \in Seq(Nat) /\ Len(<<>>) = 0
  OBVIOUS
<1>2. Types'
  <2>1. call' \in Records
    BY <1>1 DEF Call, Records
  <2>. QED
    BY <2>1 DEF IInv, Types, peer
<1>3. Account'
  BY <1>0, <1>1 DEF Account, Operations
<1>4. Buffer'
  BY <1>0 DEF IInv, Types, Buffer, Call
<1>5. Stream'
  <2>1. Mine = <<>> /\ Mine' = <<>> /\ Waiting' = Waiting
    BY <1>0 DEF Mine, Waiting
  <2>. QED
    BY <2>1 DEF IInv, Stream
<1>6. Written'
  <2>1. op = "rio_writen" => Len(wire) + call'.nleft <= Room
    BY <1>0 DEF Call
  <2>2. Ending(0)
    BY DEF IInv, Types, Ending
  <2>3. Ending(Len(call.data))'
    BY <1>0, <1>1, <2>2 DEF Ending
  <2>4. result.op = "rio_writen" => Ending(Len(result.data)) /\ Len(result.data) = result.n
    BY <1>0 DEF IInv, Written
  <2>5. Ending(Len(result.data))' <=> Ending(Len(result.data))
    BY DEF Ending
  <2>. QED
    BY <1>0, <2>1, <2>3, <2>4, <2>5 DEF IInv, Written
<1>7. Returned' /\ ShortMeansEnd' /\ LinesAreWhole'
  BY ResultKept DEF peer
<1>8. Line'
  BY <1>0, <1>1, <1>7 DEF Line
<1>. QED
  BY <1>2, <1>3, <1>4, <1>5, <1>6, <1>7, <1>8 DEF IInv

-----------------------------------------------------------------------------
(* Reading *)

Readers == {"rio_readn", "rio_readnb", "rio_readlineb"}

\* A reading call that returns data.
LEMMA ReadEnds ==
    ASSUME IInv, call.op \in Readers, NEW data \in Seq(Nat), Len(data) <= call.n, Return(data),
           UNCHANGED wire
    PROVE  /\ Account' /\ Returned' /\ Written'
           /\ call' \in Records /\ call'.op = "none" /\ Mine' = <<>>
           /\ result' \in Records
           /\ result'.op = call.op /\ result'.n = call.n /\ result'.data = data
           /\ delivered' = delivered + Len(data) /\ delivered' \in Nat
<1>1. call.op # "none" /\ call.op # "rio_writen" /\ call.op \in Operations
  BY DEF Readers, Operations
<1>2. /\ call' = NoCall /\ call' \in Records /\ result' \in Records
      /\ result'.op = call.op /\ result'.n = call.n /\ result'.nleft = 0 /\ result'.data = data
      /\ delivered' = delivered + Len(data) /\ delivered' \in Nat
  BY <1>1, Returning DEF IInv
<1>3. call'.op = "none" /\ "none" \notin Operations
  BY <1>2 DEF NoCall, Operations
<1>4. Account'
  BY <1>2, <1>3 DEF Account, Operations
<1>5. Returned'
  BY <1>1, <1>2, <1>3 DEF IInv, Account, Returned, Operations
<1>6. Written'
  BY <1>1, <1>2, <1>3 DEF IInv, Written, Operations
<1>7. Mine' = <<>>
  BY <1>3 DEF Mine
<1>. QED
  BY <1>2, <1>3, <1>4, <1>5, <1>6, <1>7

\* A reading call that goes on.
LEMMA ReadGoesOn ==
    ASSUME IInv, call.op \in Readers, NEW data \in Seq(Nat), NEW nleft \in Nat \ {0},
           GoOn(data, nleft), Len(data) + nleft = Len(call.data) + call.nleft,
           UNCHANGED wire
    PROVE  /\ Account' /\ Returned' /\ Written'
           /\ call' \in Records /\ call'.op = call.op /\ call'.data = data /\ Mine' = data
           /\ UNCHANGED <<result, delivered>>
<1>1. call.op # "none" /\ call.op # "rio_writen" /\ call.op \in Operations
  BY DEF Readers, Operations
<1>2. /\ call' \in Records
      /\ call'.op = call.op /\ call'.n = call.n /\ call'.nleft = nleft /\ call'.data = data
      /\ UNCHANGED <<result, delivered>>
  BY GoingOn DEF IInv
<1>3. Account'
  <2>1. call'.op # "none" /\ call'.n \in Sizes
    BY <1>1, <1>2 DEF IInv, Account
  <2>2. CASE call.op = "rio_readlineb"
    BY <1>2, <2>1, <2>2 DEF IInv, Account
  <2>3. CASE call.op # "rio_readlineb"
    BY <1>1, <1>2, <2>1, <2>3 DEF IInv, Account
  <2>. QED
    BY <2>2, <2>3
<1>4. Returned'
  BY <1>2 DEF IInv, Returned
<1>5. Written'
  BY <1>1, <1>2 DEF IInv, Written, Ending
<1>6. Mine' = data
  BY <1>1, <1>2 DEF Mine
<1>. QED
  BY <1>2, <1>3, <1>4, <1>5, <1>6

\* What read() can give.
LEMMA Counts ==
    ASSUME IInv, NEW n \in Nat, NEW k \in ReadCounts(n)
    PROVE  /\ k \in Nat /\ k <= n /\ k <= arrived - taken
           /\ k = 0 => closed /\ taken = arrived
<1>1. arrived \in Nat /\ taken \in Nat /\ taken <= arrived
  BY DEF IInv, Types
<1>2. CASE taken < arrived
  BY <1>1, <1>2 DEF ReadCounts
<1>3. CASE ~(taken < arrived)
  BY <1>1, <1>3 DEF ReadCounts
<1>. QED
  BY <1>2, <1>3

LEMMA NothingStep == ASSUME IInv, Nothing PROVE IInv'
<1>. UNCHANGED <<buffered, peer, taken, rp, wire, interrupts, exited>>
  BY DEF Nothing
<1>1. call.op = "rio_readlineb" /\ call.nleft = 0 /\ Return(<<>>)
  BY DEF Nothing, Running
<1>2. /\ call.op \in Readers /\ call.data = <<>> /\ call.n = 1
      /\ <<>> \in Seq(Nat) /\ Len(<<>>) = 0
  BY <1>1, SizesAssumption DEF IInv, Types, Records, Account, Readers
<1>3. /\ Account' /\ Returned' /\ Written'
      /\ call' \in Records /\ call'.op = "none" /\ Mine' = <<>>
      /\ result' \in Records
      /\ result'.op = call.op /\ result'.n = call.n /\ result'.data = <<>>
      /\ delivered' = delivered + Len(<<>>) /\ delivered' \in Nat
  <2>1. Len(<<>>) <= call.n
    BY <1>2
  <2>2. wire' = wire
    OBVIOUS
  <2>. HIDE DEF IInv
  <2>. QED
    BY <1>1, <1>2, <2>1, <2>2, ReadEnds
<1>4. Types'
  BY <1>3 DEF IInv, Types, peer
<1>5. Buffer'
  BY <1>3 DEF IInv, Buffer
<1>6. Stream'
  <2>1. Mine = <<>> /\ delivered' = delivered /\ Waiting' = Waiting
    BY <1>1, <1>2, <1>3 DEF Mine, Waiting, IInv, Types
  <2>. QED
    BY <1>3, <2>1 DEF IInv, Stream
<1>7. Line'
  BY <1>1, <1>2, <1>3 DEF Line, LinesAreWhole
<1>8. ShortMeansEnd'
  BY <1>1, <1>3 DEF ShortMeansEnd
<1>. QED
  BY <1>3, <1>4, <1>5, <1>6, <1>7, <1>8 DEF IInv

LEMMA ReadNStep == ASSUME IInv, ReadN PROVE IInv'
<1>. UNCHANGED <<buffered, peer, rp, wire, interrupts, exited>>
  BY DEF ReadN
<1>. PICK k \in ReadCounts(call.nleft) :
        /\ taken' = taken + k
        /\ IF k = 0 THEN Return(call.data)
           ELSE GoOn(call.data \o Span(taken + 1, k), call.nleft - k)
  BY DEF ReadN
<1>. DEFINE data == call.data \o Span(taken + 1, k)
<1>1. /\ call.op = "rio_readn" /\ call.op \in Readers /\ call \in Records
      /\ Len(call.data) + call.nleft = call.n
  BY DEF ReadN, Running, IInv, Types, Account, Operations, Readers
<1>2. /\ call.nleft \in Nat /\ call.n \in Nat /\ call.data \in Seq(Nat) /\ Len(call.data) \in Nat
      /\ taken \in Nat /\ delivered \in Nat /\ arrived \in Nat
  BY <1>1 DEF Records, IInv, Types
<1>3. /\ k \in Nat /\ k <= call.nleft /\ k <= arrived - taken
      /\ k = 0 => closed /\ taken = arrived
  BY <1>2, Counts
<1>4. Waiting = 0 /\ Waiting' = 0 /\ Mine = call.data /\ rp.rio_cnt = 0
  BY <1>1 DEF IInv, Buffer, Waiting, Mine
<1>5. Len(call.data) = taken - delivered /\ \A i \in 1 .. Len(call.data) : call.data[i] = delivered + i
  BY <1>4, <1>2 DEF IInv, Stream
<1>6. closed' = closed /\ arrived' = arrived
  BY DEF peer
<1>7. taken' \in Nat /\ taken' <= arrived
  BY <1>2, <1>3
<1>8. CASE k = 0
  <2>1. /\ Account' /\ Returned' /\ Written'
        /\ call' \in Records /\ call'.op = "none" /\ Mine' = <<>>
        /\ result' \in Records
        /\ result'.op = call.op /\ result'.n = call.n /\ result'.data = call.data
        /\ delivered' = delivered + Len(call.data) /\ delivered' \in Nat
    <3>1. Return(call.data)
      BY <1>8
    <3>2. Len(call.data) <= call.n
      BY <1>1, <1>2
    <3>3. wire' = wire
      OBVIOUS
    <3>. HIDE DEF IInv
    <3>. QED
      BY <1>1, <1>2, <3>1, <3>2, <3>3, ReadEnds
  <2>2. Types'
    BY <1>6, <1>7, <2>1 DEF IInv, Types
  <2>3. Buffer'
    BY <2>1 DEF IInv, Buffer
  <2>4. Stream'
    BY <1>2, <1>4, <1>5, <1>8, <2>1 DEF Stream
  <2>5. Line'
    BY <1>1, <2>1 DEF Line, LinesAreWhole
  <2>6. ShortMeansEnd'
    BY <1>2, <1>3, <1>5, <1>6, <1>8, <2>1 DEF ShortMeansEnd
  <2>. QED
    BY <2>1, <2>2, <2>3, <2>4, <2>5, <2>6 DEF IInv
<1>9. /\ data \in Seq(Nat) /\ Len(data) = Len(call.data) + k
      /\ \A i \in 1 .. Len(data) : data[i] = delivered + i
  <2>. DEFINE t == Span(taken + 1, k)
  <2>1. /\ t \in Seq(Nat) /\ Len(t) = k
        /\ \A i \in 1 .. k : t[i] = taken + 1 + i - 1
    BY <1>2, <1>3, SpanIs
  <2>. HIDE DEF t
  <2>2. \A i \in 1 .. Len(t) : t[i] = delivered + Len(call.data) + i
    BY <1>2, <1>5, <2>1
  <2>3. /\ call.data \o t \in Seq(Nat) /\ Len(call.data \o t) = Len(call.data) + Len(t)
        /\ \A i \in 1 .. Len(call.data \o t) : (call.data \o t)[i] = delivered + i
    BY <1>2, <1>5, <2>1, <2>2, Extended
  <2>. QED
    BY <2>1, <2>3 DEF t
<1>. HIDE DEF data
<1>10. CASE k # 0 /\ call.nleft - k = 0
  <2>1. /\ Account' /\ Returned' /\ Written'
        /\ call' \in Records /\ call'.op = "none" /\ Mine' = <<>>
        /\ result' \in Records
        /\ result'.op = call.op /\ result'.n = call.n /\ result'.data = data
        /\ delivered' = delivered + Len(data) /\ delivered' \in Nat
    <3>1. Return(data)
      BY <1>10 DEF GoOn, data
    <3>2. Len(data) <= call.n
      <4>1. k = call.nleft /\ Len(data) = Len(call.data) + k
        BY <1>2, <1>3, <1>9, <1>10
      <4>. QED
        BY <1>1, <1>2, <4>1
    <3>. QED
      BY <1>1, <1>9, <3>1, <3>2, ReadEnds
  <2>2. Types'
    BY <1>6, <1>7, <2>1 DEF IInv, Types
  <2>3. Buffer'
    BY <2>1 DEF IInv, Buffer
  <2>4. Stream'
    BY <1>2, <1>3, <1>4, <1>5, <1>9, <2>1 DEF Stream
  <2>5. Line'
    BY <1>1, <2>1 DEF Line, LinesAreWhole
  <2>6. ShortMeansEnd'
    BY SMTT(30), <1>1, <1>2, <1>3, <1>9, <1>10, <2>1 DEF ShortMeansEnd
  <2>. QED
    BY <2>1, <2>2, <2>3, <2>4, <2>5, <2>6 DEF IInv
<1>11. CASE k # 0 /\ call.nleft - k # 0
  <2>1. /\ Account' /\ Returned' /\ Written'
        /\ call' \in Records /\ call'.op = call.op /\ call'.data = data /\ Mine' = data
        /\ UNCHANGED <<result, delivered>>
    <3>1. GoOn(data, call.nleft - k) /\ call.nleft - k \in Nat \ {0}
      BY <1>2, <1>3, <1>11 DEF data
    <3>2. Len(data) + (call.nleft - k) = Len(call.data) + call.nleft
      BY <1>2, <1>3, <1>9
    <3>. QED
      BY <1>1, <1>9, <3>1, <3>2, ReadGoesOn
  <2>2. Types'
    BY <1>6, <1>7, <2>1 DEF IInv, Types
  <2>3. Buffer'
    BY <2>1 DEF IInv, Buffer
  <2>4. Stream'
    BY <1>2, <1>3, <1>4, <1>5, <1>9, <2>1 DEF Stream
  <2>5. ShortMeansEnd' /\ LinesAreWhole'
    BY <1>6, <2>1, ResultKept
  <2>6. Line'
    BY <1>1, <2>1, <2>5 DEF Line
  <2>. QED
    BY <2>1, <2>2, <2>3, <2>4, <2>5, <2>6 DEF IInv
<1>. QED
  BY <1>8, <1>10, <1>11

-----------------------------------------------------------------------------
(* Writing *)

\* The wire, and what one write() adds to it.
LEMMA Lengthened ==
    ASSUME NEW w \in Seq(Nat), NEW t \in Seq(Nat), NEW n \in Nat, n <= Len(w),
           \A i \in 1 .. n : w[Len(w) - n + i] = i,
           \A i \in 1 .. Len(t) : t[i] = n + i
    PROVE  /\ w \o t \in Seq(Nat) /\ Len(w \o t) = Len(w) + Len(t)
           /\ \A i \in 1 .. n + Len(t) : (w \o t)[Len(w) - n + i] = i
<1>. DEFINE wt == w \o t
<1>1. Len(w) \in Nat /\ Len(t) \in Nat
  OBVIOUS
<1>2. /\ wt \in Seq(Nat) /\ Len(wt) = Len(w) + Len(t)
      /\ \A i \in 1 .. Len(w) : wt[i] = w[i]
      /\ \A i \in 1 .. Len(t) : wt[Len(w) + i] = t[i]
  BY Appended
<1>. HIDE DEF wt
<1>3. ASSUME NEW i \in Nat, 1 <= i, i <= n + Len(t) PROVE wt[Len(w) - n + i] = i
  <2>1. CASE i <= n
    <3>1. Len(w) - n + i \in 1 .. Len(w)
      BY <1>1, <1>3, <2>1
    <3>2. wt[Len(w) - n + i] = w[Len(w) - n + i]
      BY <1>2, <3>1
    <3>3. w[Len(w) - n + i] = i
      BY <1>3, <2>1
    <3>. QED
      BY <3>2, <3>3
  <2>2. CASE i > n
    <3>. DEFINE j == i - n
    <3>1. j \in Nat /\ 1 <= j /\ j <= Len(t) /\ Len(w) - n + i = Len(w) + j /\ n + j = i
      BY <1>1, <1>3, <2>2
    <3>. HIDE DEF j
    <3>2. wt[Len(w) + j] = t[j] /\ t[j] = n + j
      BY <1>2, <3>1
    <3>. QED
      BY <3>1, <3>2
  <2>. QED
    BY <1>3, <2>1, <2>2
<1>4. \A i \in 1 .. n + Len(t) : wt[Len(w) - n + i] = i
  BY <1>1, <1>3
<1>. QED
  BY <1>2, <1>4 DEF wt

LEMMA WriteNStep == ASSUME IInv, WriteN PROVE IInv'
<1>. UNCHANGED <<buffered, peer, taken, rp, interrupts, exited>>
  BY DEF WriteN
<1>. PICK k \in 1 .. call.nleft :
        /\ wire' = wire \o Span(Len(call.data) + 1, k)
        /\ GoOn(call.data \o Span(Len(call.data) + 1, k), call.nleft - k)
  BY DEF WriteN
<1>. DEFINE t == Span(Len(call.data) + 1, k)
            data == call.data \o t
<1>1. /\ call.op = "rio_writen" /\ call.op # "none" /\ call \in Records /\ call.n \in Sizes
      /\ Len(call.data) + call.nleft = call.n
  BY DEF WriteN, Running, IInv, Types, Account, Operations
<1>2. /\ call.nleft \in Nat /\ call.n \in Nat /\ call.data \in Seq(Nat) /\ Len(call.data) \in Nat
      /\ wire \in Seq(Nat) /\ Len(wire) \in Nat /\ k \in Nat /\ 0 < k /\ k <= call.nleft
  BY <1>1 DEF Records, IInv, Types
<1>3. /\ t \in Seq(Nat) /\ Len(t) = k
      /\ \A i \in 1 .. k : t[i] = Len(call.data) + 1 + i - 1
  <2>1. Len(call.data) + 1 \in Nat
    BY <1>2
  <2>. QED
    BY <1>2, <2>1, SpanIs
<1>4. wire' = wire \o t /\ GoOn(data, call.nleft - k)
  OBVIOUS
<1>. HIDE DEF t
<1>5. data \in Seq(Nat) /\ Len(data) \in Nat /\ Len(data) = Len(call.data) + k
  BY <1>2, <1>3, Appended
<1>. HIDE DEF data
<1>6. Mine = <<>>
  BY <1>1 DEF Mine
<1>7. Ending(Len(call.data)) /\ Len(wire) + call.nleft <= Room
  BY <1>1 DEF IInv, Written
<1>8. \A i \in 1 .. Len(t) : t[i] = Len(call.data) + i
  BY <1>2, <1>3
<1>9. /\ wire' \in Seq(Nat) /\ Len(wire') = Len(wire) + k
      /\ \A i \in 1 .. Len(data) : wire'[Len(wire) - Len(call.data) + i] = i
  <2>1. /\ Len(call.data) <= Len(wire)
        /\ \A i \in 1 .. Len(call.data) : wire[Len(wire) - Len(call.data) + i] = i
    BY <1>7 DEF Ending
  <2>2. /\ wire \o t \in Seq(Nat) /\ Len(wire \o t) = Len(wire) + Len(t)
        /\ \A i \in 1 .. Len(call.data) + Len(t) :
              (wire \o t)[Len(wire) - Len(call.data) + i] = i
    BY <1>2, <1>3, <1>8, <2>1, Lengthened
  <2>. QED
    BY <1>3, <1>4, <1>5, <2>2
<1>10. /\ Len(data) <= Len(wire')
       /\ \A i \in 1 .. Len(data) : wire'[Len(wire') - Len(data) + i] = i
  <2>1. Len(call.data) <= Len(wire)
    BY <1>7 DEF Ending
  <2>2. Len(wire') - Len(data) = Len(wire) - Len(call.data)
    <3>1. Len(data) = Len(call.data) + k /\ Len(wire') = Len(wire) + k
      BY <1>5, <1>9
    <3>. QED
      BY <1>2, <3>1
  <2>3. Len(data) <= Len(wire')
    <3>1. Len(data) = Len(call.data) + k /\ Len(wire') = Len(wire) + k
      BY <1>5, <1>9
    <3>. QED
      BY <1>2, <2>1, <3>1
  <2>. QED
    BY <1>9, <2>2, <2>3
<1>11. CASE call.nleft - k = 0
  <2>1. Return(data)
    BY <1>4, <1>11 DEF GoOn
  <2>2. /\ call' = NoCall /\ call' \in Records /\ result' \in Records
        /\ result'.op = "rio_writen" /\ result'.n = call.n /\ result'.nleft = 0
        /\ result'.data = data /\ delivered' = delivered
    BY <1>1, <1>5, <2>1, Returning DEF IInv
  <2>3. call'.op = "none" /\ "none" \notin Operations
    BY <2>2 DEF NoCall, Operations
  <2>4. Len(data) = call.n
    <3>1. Len(data) = Len(call.data) + k /\ k = call.nleft
      BY <1>2, <1>5, <1>11
    <3>. QED
      BY <1>1, <3>1
  <2>5. Types'
    BY <1>9, <2>2 DEF IInv, Types, peer
  <2>6. Account'
    BY <2>2, <2>3 DEF Account, Operations
  <2>7. Returned'
    BY <1>1, <1>2, <2>2, <2>4 DEF Returned
  <2>8. Buffer'
    BY <2>3 DEF IInv, Buffer, Operations
  <2>9. Stream'
    <3>1. Mine' = <<>> /\ Waiting' = Waiting
      BY <2>3 DEF Mine, Waiting
    <3>. QED
      BY <1>6, <2>2, <3>1 DEF IInv, Stream
  <2>10. Line' /\ ShortMeansEnd'
    BY <2>2, <2>3 DEF Line, LinesAreWhole, ShortMeansEnd
  <2>11. Written'
    <3>1. Len(wire') <= Room
      BY <1>2, <1>7, <1>9, BoundAssumption
    <3>2. Ending(Len(result.data))'
      BY <1>10, <2>2 DEF Ending
    <3>. QED
      BY <2>2, <2>3, <2>4, <3>1, <3>2 DEF Written
  <2>. QED
    BY <2>5, <2>6, <2>7, <2>8, <2>9, <2>10, <2>11 DEF IInv
<1>12. CASE call.nleft - k # 0
  <2>1. GoOn(data, call.nleft - k) /\ call.nleft - k \in Nat \ {0}
    BY <1>2, <1>4, <1>12
  <2>2. /\ call' \in Records
        /\ call'.op = call.op /\ call'.n = call.n /\ call'.nleft = call.nleft - k
        /\ call'.data = data /\ result' = result /\ delivered' = delivered
    BY <1>5, <2>1, GoingOn DEF IInv
  <2>3. Types'
    BY <1>9, <2>2 DEF IInv, Types, peer
  <2>4. Account'
    <3>1. Len(call'.data) = Len(call.data) + k /\ call'.nleft > 0 /\ call'.n \in Sizes
      BY <1>1, <1>2, <1>5, <2>1, <2>2
    <3>2. Len(call'.data) + call'.nleft = call'.n
      BY <1>1, <1>2, <2>2, <3>1
    <3>. QED
      BY <1>1, <2>2, <3>1, <3>2 DEF Account
  <2>5. Returned' /\ ShortMeansEnd' /\ LinesAreWhole'
    BY <2>2, ResultKept DEF peer
  <2>6. Buffer'
    BY <1>1, <2>2 DEF IInv, Buffer
  <2>7. Stream'
    <3>1. Mine' = <<>> /\ Waiting' = Waiting
      BY <1>1, <2>2 DEF Mine, Waiting
    <3>. QED
      BY <1>6, <2>2, <3>1 DEF IInv, Stream
  <2>8. Line'
    BY <1>1, <2>2, <2>5 DEF Line
  <2>9. Written'
    <3>1. Len(wire') <= Room /\ Len(wire') + call'.nleft <= Room
      BY <1>2, <1>7, <1>9, <2>2, BoundAssumption
    <3>2. Ending(Len(call.data))'
      BY <1>10, <2>2 DEF Ending
    <3>3. result'.op = "rio_writen" => Len(result'.data) = result'.n
      BY <2>2 DEF IInv, Written
    <3>. QED
      BY <1>1, <2>2, <3>1, <3>2, <3>3 DEF Written
  <2>. QED
    BY <2>3, <2>4, <2>5, <2>6, <2>7, <2>8, <2>9 DEF IInv
<1>. QED
  BY <1>11, <1>12

-----------------------------------------------------------------------------
(* The buffer *)

\* What the loops of rio_readnb and rio_readlineb have when they go around.
LEMMA Looping ==
    ASSUME IInv, Reading
    PROVE  /\ call.op \in Readers /\ call.op \in {"rio_readnb", "rio_readlineb"} /\ buffered
           /\ call.op # "rio_writen" /\ call.op # "none"
           /\ call.data \in Seq(Nat) /\ Len(call.data) \in Nat
           /\ call.n \in Nat /\ call.n > 0 /\ call.nleft \in Nat /\ call.nleft > 0
           /\ Len(call.data) + call.nleft
                 = IF call.op = "rio_readlineb" THEN call.n - 1 ELSE call.n
           /\ Len(call.data) <= call.n
           /\ Mine = call.data
           /\ arrived \in Nat /\ taken \in Nat /\ delivered \in Nat /\ taken <= arrived
<1>1. call.op \in {"rio_readnb", "rio_readlineb"} /\ call.nleft > 0
  BY DEF Reading, Running
<1>2. call.op \in Readers /\ call.op # "rio_writen" /\ call.op # "none" /\ call.op \in Operations
  BY <1>1 DEF Readers, Operations
<1>3. /\ call.data \in Seq(Nat) /\ Len(call.data) \in Nat
      /\ call.n \in Nat /\ call.nleft \in Nat /\ call.n \in Sizes
  BY <1>2 DEF IInv, Types, Records, Account
<1>4. Len(call.data) + call.nleft = IF call.op = "rio_readlineb" THEN call.n - 1 ELSE call.n
  BY <1>1, <1>2 DEF IInv, Account
<1>5. Mine = call.data /\ buffered
  BY <1>1, <1>2 DEF Mine, IInv, Buffer
<1>6. arrived \in Nat /\ taken \in Nat /\ delivered \in Nat /\ taken <= arrived
  BY DEF IInv, Types
<1>7. call.n > 0 /\ Len(call.data) <= call.n
  BY <1>1, <1>3, <1>4, SizesAssumption
<1>. QED
  BY <1>1, <1>2, <1>3, <1>4, <1>5, <1>6, <1>7

LEMMA RefillStep == ASSUME IInv, Refill PROVE IInv'
<1>. UNCHANGED <<buffered, peer, wire, interrupts, exited>>
  BY DEF Refill
<1>. PICK k \in ReadCounts(RIO_BUFSIZE) :
        /\ taken' = taken + k
        /\ IF k = 0
           THEN rp' = [rp EXCEPT !.rio_cnt = 0] /\ Return(call.data)
           ELSE /\ rp' = [rio_cnt |-> k, rio_bufptr |-> 1, rio_buf |-> Span(taken + 1, k)]
                /\ UNCHANGED <<call, result, delivered>>
  BY DEF Refill
<1>1. Reading /\ rp.rio_cnt <= 0
  BY DEF Refill
<1>2. /\ call.op \in Readers /\ call.op \in {"rio_readnb", "rio_readlineb"} /\ buffered
      /\ call.op # "rio_writen" /\ call.op # "none"
      /\ call.data \in Seq(Nat) /\ Len(call.data) \in Nat
      /\ call.n \in Nat /\ call.n > 0 /\ call.nleft \in Nat /\ call.nleft > 0
      /\ Len(call.data) + call.nleft
            = IF call.op = "rio_readlineb" THEN call.n - 1 ELSE call.n
      /\ Len(call.data) <= call.n
      /\ Mine = call.data
      /\ arrived \in Nat /\ taken \in Nat /\ delivered \in Nat /\ taken <= arrived
  BY <1>1, Looping
<1>3. /\ k \in Nat /\ k <= RIO_BUFSIZE /\ k <= arrived - taken
      /\ k = 0 => closed /\ taken = arrived
  BY Counts
<1>4. Waiting = 0 /\ Len(call.data) = taken - delivered
      /\ \A i \in 1 .. Len(call.data) : call.data[i] = delivered + i
  <2>1. Waiting = 0
    BY <1>1 DEF Waiting
  <2>. QED
    BY <1>2, <2>1 DEF IInv, Stream
<1>5. closed' = closed /\ arrived' = arrived
  BY DEF peer
<1>6. taken' \in Nat /\ taken' <= arrived
  BY <1>2, <1>3
<1>7. CASE k = 0
  <2>1. /\ Account' /\ Returned' /\ Written'
        /\ call' \in Records /\ call'.op = "none" /\ Mine' = <<>>
        /\ result' \in Records
        /\ result'.op = call.op /\ result'.n = call.n /\ result'.data = call.data
        /\ delivered' = delivered + Len(call.data) /\ delivered' \in Nat
    <3>1. Return(call.data) /\ wire' = wire
      BY <1>7
    <3>. HIDE DEF IInv
    <3>. QED
      BY <1>2, <3>1, ReadEnds
  <2>2. /\ rp' \in [rio_cnt : Int, rio_bufptr : Nat, rio_buf : Seq(Nat)] /\ rp'.rio_cnt = 0
        /\ rp'.rio_bufptr = rp.rio_bufptr /\ rp'.rio_buf = rp.rio_buf
    BY <1>7 DEF IInv, Types
  <2>3. Types'
    BY <1>5, <1>6, <2>1, <2>2 DEF IInv, Types
  <2>4. Buffer'
    BY <1>2, <2>1, <2>2, SizesAssumption DEF IInv, Buffer
  <2>5. delivered' = taken /\ taken' = taken /\ closed /\ taken = arrived
    BY <1>2, <1>3, <1>4, <1>7, <2>1
  <2>6. Stream'
    <3>1. Waiting' = 0
      BY <2>2 DEF Waiting
    <3>. QED
      BY <1>2, <2>1, <2>5, <3>1 DEF Stream
  <2>7. Line'
    <3>1. CASE call.op = "rio_readlineb"
      <4>1. Len(call.data) <= call.n - 1
        BY <1>2, <3>1
      <4>2. \A i \in 1 .. Len(call.data) : call.data[i] \notin Newlines
        BY <3>1 DEF IInv, Line
      <4>3. \A i \in 1 .. Len(call.data) - 1 : call.data[i] \notin Newlines
        BY <1>2, <4>2
      <4>4. LinesAreWhole'
        BY <1>5, <2>1, <2>5, <4>1, <4>3 DEF LinesAreWhole
      <4>. QED
        BY <2>1, <4>4 DEF Line
    <3>2. CASE call.op # "rio_readlineb"
      BY <2>1, <3>2 DEF Line, LinesAreWhole
    <3>. QED
      BY <3>1, <3>2
  <2>8. ShortMeansEnd'
    BY <1>5, <2>1, <2>5 DEF ShortMeansEnd
  <2>. QED
    BY <2>1, <2>3, <2>4, <2>6, <2>7, <2>8 DEF IInv
<1>8. CASE k # 0
  <2>. DEFINE b == Span(taken + 1, k)
  <2>1. /\ b \in Seq(Nat) /\ Len(b) = k
        /\ \A i \in 1 .. k : b[i] = taken + 1 + i - 1
    <3>1. taken + 1 \in Nat
      BY <1>2
    <3>. QED
      BY <1>3, <3>1, SpanIs
  <2>2. rp' = [rio_cnt |-> k, rio_bufptr |-> 1, rio_buf |-> b] /\ UNCHANGED <<call, result, delivered>>
    BY <1>8
  <2>. HIDE DEF b
  <2>3. /\ rp' \in [rio_cnt : Int, rio_bufptr : Nat, rio_buf : Seq(Nat)]
        /\ rp'.rio_cnt = k /\ rp'.rio_bufptr = 1 /\ rp'.rio_buf = b
    BY <1>3, <2>1, <2>2
  <2>4. Types'
    BY <1>5, <1>6, <2>2, <2>3 DEF IInv, Types
  <2>5. Account' /\ Written'
    BY <2>2 DEF IInv, Account, Written, Ending
  <2>6. Returned' /\ ShortMeansEnd' /\ LinesAreWhole'
    BY <2>2, ResultKept DEF peer
  <2>7. Line'
    BY <2>2, <2>6 DEF IInv, Line
  <2>8. Buffer'
    <3>1. /\ call' = call /\ buffered' = buffered
      BY <2>2
    <3>2. /\ rp'.rio_cnt >= -1 /\ rp'.rio_cnt <= RIO_BUFSIZE
          /\ rp'.rio_bufptr >= 1 /\ rp'.rio_bufptr <= RIO_BUFSIZE + 1
          /\ Len(rp'.rio_buf) <= RIO_BUFSIZE
          /\ rp'.rio_bufptr + rp'.rio_cnt = Len(rp'.rio_buf) + 1
      BY <1>3, <2>1, <2>3, SizesAssumption
    <3>3. buffered' /\ call'.op # "rio_readn"
      BY <1>2, <3>1
    <3>. QED
      BY <3>2, <3>3 DEF Buffer
  <2>9. Stream'
    <3>1. Waiting' = k /\ Mine' = call.data
      BY <1>2, <1>3, <1>8, <2>2, <2>3 DEF Waiting, Mine
    <3>2. Len(call.data) + k = taken' - delivered'
      BY <1>2, <1>3, <1>4, <2>2
    <3>3. \A i \in 1 .. k : b[1 + i - 1] = delivered + Len(call.data) + i
      <4>1. ASSUME NEW i \in 1 .. k PROVE b[1 + i - 1] = delivered + Len(call.data) + i
        <5>1. 1 + i - 1 = i /\ b[i] = taken + 1 + i - 1
          BY <1>3, <2>1
        <5>. QED
          BY <1>2, <1>4, <5>1
      <4>. QED
        BY <4>1
    <3>. QED
      BY <1>4, <2>2, <2>3, <3>1, <3>2, <3>3 DEF Stream
  <2>. QED
    BY <2>4, <2>5, <2>6, <2>7, <2>8, <2>9 DEF IInv
<1>. QED
  BY <1>7, <1>8

LEMMA CopyStep == ASSUME IInv, Copy PROVE IInv'
<1>. UNCHANGED <<buffered, peer, taken, wire, interrupts, exited>>
  BY DEF Copy
<1>. DEFINE cnt  == IF rp.rio_cnt < Wanted THEN rp.rio_cnt ELSE Wanted
            part == SubSeq(rp.rio_buf, rp.rio_bufptr, rp.rio_bufptr + cnt - 1)
            data == call.data \o part
            line == call.op = "rio_readlineb" /\ part[1] \in Newlines
<1>1. /\ Reading /\ rp.rio_cnt > 0
      /\ rp' = [rp EXCEPT !.rio_cnt = @ - cnt, !.rio_bufptr = @ + cnt]
      /\ IF line THEN Return(data) ELSE GoOn(data, call.nleft - cnt)
  BY DEF Copy
<1>2. /\ call.op \in Readers /\ call.op \in {"rio_readnb", "rio_readlineb"} /\ buffered
      /\ call.op # "rio_writen" /\ call.op # "none"
      /\ call.data \in Seq(Nat) /\ Len(call.data) \in Nat
      /\ call.n \in Nat /\ call.n > 0 /\ call.nleft \in Nat /\ call.nleft > 0
      /\ Len(call.data) + call.nleft
            = IF call.op = "rio_readlineb" THEN call.n - 1 ELSE call.n
      /\ Len(call.data) <= call.n
      /\ Mine = call.data
      /\ arrived \in Nat /\ taken \in Nat /\ delivered \in Nat /\ taken <= arrived
  BY <1>1, Looping
<1>3. /\ rp.rio_cnt \in Nat /\ rp.rio_cnt > 0 /\ rp.rio_cnt <= RIO_BUFSIZE
      /\ rp.rio_bufptr \in Nat \ {0} /\ rp.rio_buf \in Seq(Nat) /\ Len(rp.rio_buf) \in Nat
      /\ Len(rp.rio_buf) <= RIO_BUFSIZE
      /\ rp.rio_bufptr + rp.rio_cnt = Len(rp.rio_buf) + 1
  <2>1. rp \in [rio_cnt : Int, rio_bufptr : Nat, rio_buf : Seq(Nat)]
    BY DEF IInv, Types
  <2>2. /\ rp.rio_cnt \in Int /\ rp.rio_bufptr \in Nat /\ rp.rio_buf \in Seq(Nat)
        /\ Len(rp.rio_buf) \in Nat
    BY <2>1
  <2>3. /\ rp.rio_cnt > 0 /\ rp.rio_cnt <= RIO_BUFSIZE /\ rp.rio_bufptr >= 1
        /\ Len(rp.rio_buf) <= RIO_BUFSIZE
        /\ rp.rio_bufptr + rp.rio_cnt = Len(rp.rio_buf) + 1
    BY <1>1 DEF IInv, Buffer
  <2>. QED
    BY <2>2, <2>3
<1>4. /\ cnt \in Nat /\ 0 < cnt /\ cnt <= rp.rio_cnt /\ cnt <= call.nleft
      /\ call.op = "rio_readlineb" => cnt = 1
  BY <1>2, <1>3 DEF Wanted
<1>. HIDE DEF cnt
<1>5. /\ part \in Seq(Nat) /\ Len(part) = cnt
      /\ \A i \in 1 .. cnt : part[i] = rp.rio_buf[rp.rio_bufptr + i - 1]
  <2>. DEFINE b == rp.rio_buf
              p == rp.rio_bufptr
  <2>1. b \in Seq(Nat) /\ p \in Nat \ {0} /\ cnt \in Nat /\ p + cnt <= Len(b) + 1
    BY <1>3, <1>4
  <2>2. part = SubSeq(b, p, p + cnt - 1)
    OBVIOUS
  <2>. HIDE DEF b, p, part
  <2>3. /\ part \in Seq(Nat) /\ Len(part) = cnt
        /\ \A i \in 1 .. cnt : part[i] = b[p + i - 1]
    BY <2>1, <2>2, PartIs
  <2>. QED
    BY <2>3 DEF b, p
<1>. HIDE DEF part
<1>6. /\ Waiting = rp.rio_cnt /\ Len(call.data) + Waiting = taken - delivered
      /\ \A i \in 1 .. Len(call.data) : call.data[i] = delivered + i
      /\ \A i \in 1 .. Waiting : rp.rio_buf[rp.rio_bufptr + i - 1] = delivered + Len(call.data) + i
  BY <1>2, <1>3 DEF IInv, Stream, Waiting
<1>7. /\ data \in Seq(Nat) /\ Len(data) = Len(call.data) + cnt
      /\ \A i \in 1 .. Len(data) : data[i] = delivered + i
  <2>1. \A i \in 1 .. Len(part) : part[i] = delivered + Len(call.data) + i
    <3>1. ASSUME NEW i \in 1 .. cnt PROVE part[i] = delivered + Len(call.data) + i
      <4>1. i \in 1 .. Waiting
        BY <1>3, <1>4, <1>6
      <4>. QED
        BY <1>5, <1>6, <4>1
    <3>. QED
      BY <1>5, <3>1
  <2>. QED
    BY <1>2, <1>5, <1>6, <2>1, Extended
<1>8. /\ \A i \in 1 .. Len(call.data) : data[i] = call.data[i]
      /\ data[Len(call.data) + 1] = part[1]
  <2>1. 1 \in 1 .. Len(part)
    BY <1>4, <1>5
  <2>. QED
    BY <1>2, <1>5, <2>1, Appended
<1>. HIDE DEF data
<1>9. /\ rp' \in [rio_cnt : Int, rio_bufptr : Nat, rio_buf : Seq(Nat)]
      /\ rp'.rio_cnt = rp.rio_cnt - cnt /\ rp'.rio_bufptr = rp.rio_bufptr + cnt
      /\ rp'.rio_buf = rp.rio_buf
  <2>1. rp \in [rio_cnt : Int, rio_bufptr : Nat, rio_buf : Seq(Nat)]
    BY DEF IInv, Types
  <2>. QED
    <3>1. rp.rio_cnt - cnt \in Int /\ rp.rio_bufptr + cnt \in Nat
      BY <1>3, <1>4
    <3>. QED
      BY <1>1, <2>1, <3>1
<1>10. closed' = closed /\ arrived' = arrived
  BY DEF peer
<1>11. Waiting' = rp.rio_cnt - cnt
  BY <1>3, <1>4, <1>9 DEF Waiting
<1>12. \A i \in 1 .. rp.rio_cnt - cnt :
          rp.rio_buf[rp.rio_bufptr + cnt + i - 1] = delivered + Len(data) + i
  <2>1. ASSUME NEW i \in Nat, 1 <= i, i <= rp.rio_cnt - cnt
        PROVE  rp.rio_buf[rp.rio_bufptr + cnt + i - 1] = delivered + Len(data) + i
    <3>1. cnt + i \in 1 .. Waiting /\ rp.rio_bufptr + cnt + i - 1 = rp.rio_bufptr + (cnt + i) - 1
      <4>1. Waiting = rp.rio_cnt
        BY <1>6
      <4>. QED
        BY <1>3, <1>4, <2>1, <4>1
    <3>2. rp.rio_buf[rp.rio_bufptr + (cnt + i) - 1] = delivered + Len(call.data) + (cnt + i)
      BY <1>6, <3>1
    <3>3. Len(data) = Len(call.data) + cnt
      BY <1>7
    <3>4. delivered + Len(call.data) + (cnt + i) = delivered + Len(data) + i
      <4>1. delivered \in Nat /\ Len(call.data) \in Nat
        BY <1>2
      <4>. QED
        <5>. DEFINE l == Len(call.data)
                    m == Len(data)
        <5>1. l \in Nat /\ m = l + cnt /\ cnt \in Nat /\ i \in Nat /\ delivered \in Nat
          BY <1>4, <2>1, <3>3, <4>1
        <5>. HIDE DEF l, m
        <5>2. delivered + l + (cnt + i) = delivered + m + i
          BY <5>1
        <5>. QED
          BY <5>2 DEF l, m
    <3>. QED
      BY <3>1, <3>2, <3>4
  <2>. QED
    BY <1>3, <1>4, <2>1
<1>13. call.op = "rio_readlineb" => \A i \in 1 .. Len(call.data) : data[i] \notin Newlines
  BY <1>8 DEF IInv, Line
<1>14. Len(data) \in Nat /\ Len(data) <= Len(call.data) + call.nleft
  <2>1. Len(data) = Len(call.data) + cnt
    BY <1>7
  <2>. QED
    BY <1>2, <1>4, <2>1
<1>15. /\ rp'.rio_cnt >= -1 /\ rp'.rio_cnt <= RIO_BUFSIZE
       /\ rp'.rio_bufptr >= 1 /\ rp'.rio_bufptr <= RIO_BUFSIZE + 1
       /\ Len(rp'.rio_buf) <= RIO_BUFSIZE
       /\ rp'.rio_bufptr + rp'.rio_cnt = Len(rp'.rio_buf) + 1
       /\ buffered' /\ call.op # "rio_readn"
  <2>1. buffered' /\ call.op # "rio_readn"
    BY <1>2
  <2>2. /\ rp'.rio_cnt = rp.rio_cnt - cnt /\ rp'.rio_bufptr = rp.rio_bufptr + cnt
        /\ Len(rp'.rio_buf) = Len(rp.rio_buf)
    BY <1>9
  <2>3. rp.rio_cnt - cnt >= -1 /\ rp.rio_cnt - cnt <= RIO_BUFSIZE
    BY <1>3, <1>4, SizesAssumption
  <2>4. /\ rp.rio_bufptr + cnt >= 1 /\ rp.rio_bufptr + cnt <= RIO_BUFSIZE + 1
        /\ (rp.rio_bufptr + cnt) + (rp.rio_cnt - cnt) = Len(rp.rio_buf) + 1
    BY <1>3, <1>4, SizesAssumption
  <2>5. Len(rp'.rio_buf) <= RIO_BUFSIZE
    BY <1>3, <2>2
  <2>. QED
    BY <2>1, <2>2, <2>3, <2>4, <2>5
<1>16. /\ Waiting' = taken' - (delivered + (Len(call.data) + cnt))
       /\ (Len(call.data) + cnt) + Waiting' = taken' - delivered
  <2>1. taken' = taken /\ Waiting' = Waiting - cnt /\ Len(call.data) + Waiting = taken - delivered
        /\ Waiting \in Nat
    BY <1>3, <1>6, <1>11
  <2>2. taken \in Nat /\ delivered \in Nat /\ Len(call.data) \in Nat /\ cnt \in Nat
    BY <1>2, <1>4
  <2>. QED
    BY <2>1, <2>2
<1>17. ASSUME Return(data), line \/ call.nleft - cnt = 0 PROVE IInv'
  <2>1. /\ Account' /\ Returned' /\ Written'
        /\ call' \in Records /\ call'.op = "none" /\ Mine' = <<>>
        /\ result' \in Records
        /\ result'.op = call.op /\ result'.n = call.n /\ result'.data = data
        /\ delivered' = delivered + Len(data) /\ delivered' \in Nat
    <3>1. data \in Seq(Nat) /\ Len(data) <= call.n /\ wire' = wire
      BY <1>2, <1>7, <1>14
    <3>. HIDE DEF IInv
    <3>. QED
      BY <1>2, <1>17, <3>1, ReadEnds
  <2>2. Types'
    BY <1>2, <1>9, <1>10, <2>1 DEF IInv, Types
  <2>3. Buffer'
    BY <1>15, <2>1 DEF Buffer
  <2>4. Stream'
    <3>1. Len(data) = Len(call.data) + cnt
      BY <1>7
    <3>2. Waiting' = taken' - delivered'
      BY <1>16, <2>1, <3>1
    <3>3. \A i \in 1 .. Waiting' : rp'.rio_buf[rp'.rio_bufptr + i - 1] = delivered' + i
      BY <1>9, <1>11, <1>12, <2>1
    <3>4. Len(Mine') = 0 /\ Waiting' \in Nat
      BY <1>3, <1>4, <1>11, <2>1
    <3>5. Len(Mine') + Waiting' = taken' - delivered'
      BY <3>2, <3>4
    <3>6. delivered' + Len(Mine') = delivered'
      BY <2>1, <3>4
    <3>. QED
      BY <3>3, <3>4, <3>5, <3>6 DEF Stream
  <2>5. Line'
    <3>1. CASE call.op = "rio_readlineb"
      <4>1. cnt = 1 /\ Len(data) = Len(call.data) + 1
        BY <1>4, <1>7, <3>1
      <4>2. Len(data) <= call.n - 1
        BY <1>2, <1>14, <3>1
      <4>3. \A i \in 1 .. Len(data) - 1 : data[i] \notin Newlines
        BY <1>2, <1>13, <3>1, <4>1
      <4>4. Len(data) = call.n - 1 \/ (Len(data) > 0 /\ data[Len(data)] \in Newlines)
        <5>1. CASE line
          BY <1>2, <1>8, <4>1, <5>1
        <5>2. CASE call.nleft - cnt = 0
          BY <1>2, <3>1, <4>1, <5>2
        <5>. QED
          BY <1>17, <5>1, <5>2
      <4>. QED
        BY <2>1, <4>2, <4>3, <4>4 DEF Line, LinesAreWhole
    <3>2. CASE call.op # "rio_readlineb"
      BY <2>1, <3>2 DEF Line, LinesAreWhole
    <3>. QED
      BY <3>1, <3>2
  <2>6. ShortMeansEnd'
    <3>1. CASE call.op = "rio_readnb"
      <4>1. Len(data) = Len(call.data) + cnt /\ call.nleft - cnt = 0
        BY <1>7, <1>17, <3>1
      <4>2. Len(data) = call.n
        BY <1>2, <1>4, <3>1, <4>1
      <4>. QED
        BY <2>1, <4>2 DEF ShortMeansEnd
    <3>2. CASE call.op = "rio_readlineb"
      BY <2>1, <3>2 DEF ShortMeansEnd
    <3>. QED
      BY <1>2, <3>1, <3>2
  <2>. QED
    BY <2>1, <2>2, <2>3, <2>4, <2>5, <2>6 DEF IInv
<1>18. CASE line
  BY <1>1, <1>17, <1>18
<1>19. CASE ~line /\ call.nleft - cnt = 0
  <2>1. Return(data)
    BY <1>1, <1>19 DEF GoOn
  <2>. QED
    BY <1>17, <1>19, <2>1
<1>20. CASE ~line /\ call.nleft - cnt # 0
  <2>1. /\ Account' /\ Returned' /\ Written'
        /\ call' \in Records /\ call'.op = call.op /\ call'.data = data /\ Mine' = data
        /\ UNCHANGED <<result, delivered>>
    <3>1. GoOn(data, call.nleft - cnt) /\ call.nleft - cnt \in Nat \ {0}
      BY <1>1, <1>2, <1>4, <1>20
    <3>2. Len(data) + (call.nleft - cnt) = Len(call.data) + call.nleft
      <4>1. Len(data) = Len(call.data) + cnt
        BY <1>7
      <4>. QED
        BY <1>2, <1>4, <4>1
    <3>3. data \in Seq(Nat) /\ wire' = wire
      BY <1>7
    <3>. HIDE DEF IInv
    <3>. QED
      BY <1>2, <3>1, <3>2, <3>3, ReadGoesOn
  <2>2. Types'
    BY <1>9, <1>10, <2>1 DEF IInv, Types
  <2>3. Buffer'
    BY <1>15, <2>1 DEF Buffer
  <2>4. Stream'
    <3>1. Len(data) = Len(call.data) + cnt
      BY <1>7
    <3>2. Len(data) + Waiting' = taken' - delivered'
      BY <1>16, <2>1, <3>1
    <3>3. \A i \in 1 .. Waiting' :
             rp'.rio_buf[rp'.rio_bufptr + i - 1] = delivered' + Len(data) + i
      BY <1>9, <1>11, <1>12, <2>1
    <3>4. \A i \in 1 .. Len(data) : data[i] = delivered' + i
      BY <1>7, <2>1
    <3>. QED
      BY <2>1, <3>2, <3>3, <3>4 DEF Stream
  <2>5. ShortMeansEnd' /\ LinesAreWhole'
    BY <1>10, <2>1, ResultKept
  <2>6. Line'
    <3>1. CASE call.op = "rio_readlineb"
      <4>1. Len(data) = Len(call.data) + 1 /\ data[Len(call.data) + 1] \notin Newlines
        BY <1>4, <1>7, <1>8, <1>20, <3>1
      <4>2. \A i \in 1 .. Len(data) : data[i] \notin Newlines
        BY <1>2, <1>13, <3>1, <4>1
      <4>. QED
        BY <2>1, <2>5, <4>2 DEF Line
    <3>2. CASE call.op # "rio_readlineb"
      BY <2>1, <2>5, <3>2 DEF Line
    <3>. QED
      BY <3>1, <3>2
  <2>. QED
    BY <2>1, <2>2, <2>3, <2>4, <2>5, <2>6 DEF IInv
<1>. QED
  BY <1>18, <1>19, <1>20

-----------------------------------------------------------------------------
(* The theorems *)

LEMMA NextIInv == IInv /\ [Next]_vars => IInv'
<1>. SUFFICES ASSUME IInv, [Next]_vars PROVE IInv'
  OBVIOUS
<1>1. CASE Arrive \/ Close
  BY <1>1, PeerSteps
<1>2. ASSUME NEW op \in Operations, NEW n \in Sizes, Call(op, n) PROVE IInv'
  BY <1>2, CallStep
<1>3. CASE ReadN
  BY <1>3, ReadNStep
<1>4. CASE WriteN
  BY <1>4, WriteNStep
<1>5. CASE Refill
  BY <1>5, RefillStep
<1>6. CASE Copy
  BY <1>6, CopyStep
<1>7. CASE Nothing
  BY <1>7, NothingStep
<1>8. CASE Interrupt
  BY <1>8, InterruptStep
<1>9. CASE Error
  BY <1>9, ErrorStep
<1>10. CASE UNCHANGED vars
  <2>1. UNCHANGED <<buffered, arrived, closed, taken, rp, call, result, delivered, wire, interrupts,
                    exited>>
    BY <1>10 DEF vars, peer
  <2>2. Types' /\ Account' /\ Returned' /\ Buffer'
    BY <2>1 DEF IInv, Types, Account, Returned, Buffer
  <2>3. Stream' /\ Line' /\ ShortMeansEnd' /\ Written'
    BY <2>1 DEF IInv, Stream, Mine, Waiting, Line, LinesAreWhole, ShortMeansEnd, Written, Ending
  <2>. QED
    BY <2>2, <2>3 DEF IInv
<1>. QED
  BY <1>1, <1>2, <1>3, <1>4, <1>5, <1>6, <1>7, <1>8, <1>9, <1>10 DEF Next, Step

THEOREM Invariance == Spec => []IInv
  BY InitIInv, NextIInv, PTL DEF Spec

\* The state stays within its types, and no call is given more than it asked
\* for, nor delivered reaches past what read() gave.
THEOREM RioTypeOK == Spec => []TypeOK
<1>1. ASSUME IInv PROVE TypeOK
  <2>1. delivered \in 0 .. taken
    <3>1. Len(Mine) \in Nat /\ Waiting \in Nat
      BY <1>1 DEF IInv, Types, Records, Mine, Waiting
    <3>2. Len(Mine) + Waiting = taken - delivered /\ taken \in Nat /\ delivered \in Nat
      BY <1>1 DEF IInv, Stream, Types
    <3>. QED
      BY <3>1, <3>2
  <2>2. arrived \in 0 .. Length /\ taken \in 0 .. arrived /\ interrupts \in 0 .. Interrupts
    BY <1>1 DEF IInv, Types
  <2>3. rp.rio_cnt \in -1 .. RIO_BUFSIZE /\ rp.rio_bufptr \in 1 .. RIO_BUFSIZE + 1
    BY <1>1, SizesAssumption DEF IInv, Types, Buffer
  <2>4. buffered \in BOOLEAN /\ closed \in BOOLEAN /\ exited \in BOOLEAN
    BY <1>1, Zenon DEF IInv, Types
  <2>. DEFINE Fits(c) == /\ c.op \in Operations \cup {"none"} /\ c.n \in Sizes \cup {0}
                         /\ c.nleft \in 0 .. c.n /\ Len(c.data) <= c.n - c.nleft
  <2>5. Fits(NoCall)
    BY NoCallIs DEF NoCall
  <2>6. Fits(call)
    <3>1. CASE call.op = "none"
      BY <1>1, <2>5, <3>1 DEF IInv, Account
    <3>2. CASE call.op # "none"
      <4>1. call \in Records /\ call.n \in Sizes /\ call.op \in Operations
        BY <1>1, <3>2 DEF IInv, Types, Account, Records
      <4>2. call.n \in Nat /\ call.nleft \in Nat /\ Len(call.data) \in Nat
        BY <4>1 DEF Records
      <4>3. Len(call.data) + call.nleft = call.n \/ Len(call.data) + call.nleft = call.n - 1
        BY <1>1, <4>1 DEF IInv, Account
      <4>. QED
        BY <4>1, <4>2, <4>3
    <3>. QED
      BY <3>1, <3>2
  <2>7. Fits(result)
    <3>1. CASE result.op = "none"
      BY <1>1, <2>5, <3>1 DEF IInv, Returned
    <3>2. CASE result.op # "none"
      <4>1. /\ result \in Records /\ result.n \in Sizes /\ result.op \in Operations
            /\ result.nleft = 0 /\ Len(result.data) <= result.n
        BY <1>1, <3>2 DEF IInv, Types, Returned, Records
      <4>. QED
        BY <4>1 DEF Records
    <3>. QED
      BY <3>1, <3>2
  <2>8. Len(wire) <= Room
    BY <1>1 DEF IInv, Written
  <2>. QED
    BY <2>1, <2>2, <2>3, <2>4, <2>6, <2>7, <2>8 DEF TypeOK
<1>. QED
  BY <1>1, Invariance, PTL

\* However read() splits the stream and however often it is interrupted, no byte
\* is lost, repeated or moved.
THEOREM NothingIsLost == Spec => []NothingLost
<1>1. ASSUME IInv PROVE NothingLost
  <2>1. /\ taken \in Nat /\ delivered \in Nat /\ call.data \in Seq(Nat)
        /\ rp.rio_cnt \in Int /\ rp.rio_bufptr \in Nat /\ rp.rio_buf \in Seq(Nat)
    BY <1>1 DEF IInv, Types, Records
  <2>2. Mine \in Seq(Nat)
    BY <2>1 DEF Mine
  <2>. DEFINE s == Mine
              t == Unread
              w == Waiting
              d == delivered
  <2>3. /\ Unread \in Seq(Nat) /\ Len(Unread) = Waiting /\ Waiting \in Nat
        /\ \A i \in 1 .. Waiting : Unread[i] = rp.rio_buf[rp.rio_bufptr + i - 1]
    <3>1. CASE rp.rio_cnt <= 0
      BY <3>1 DEF Unread, Waiting
    <3>2. CASE rp.rio_cnt > 0
      <4>. DEFINE b == rp.rio_buf
                  p == rp.rio_bufptr
                  c == rp.rio_cnt
      <4>1. b \in Seq(Nat) /\ p \in Nat \ {0} /\ c \in Nat /\ p + c <= Len(b) + 1
        BY <1>1, <2>1, <3>2 DEF IInv, Buffer
      <4>2. Unread = SubSeq(b, p, p + c - 1) /\ Waiting = c
        <5>1. ~(rp.rio_cnt <= 0)
          BY <2>1, <3>2
        <5>. QED
          BY <5>1, Zenon DEF Unread, Waiting
      <4>. HIDE DEF b, p, c
      <4>3. /\ SubSeq(b, p, p + c - 1) \in Seq(Nat) /\ Len(SubSeq(b, p, p + c - 1)) = c
            /\ \A i \in 1 .. c : SubSeq(b, p, p + c - 1)[i] = b[p + i - 1]
        BY <4>1, PartIs
      <4>. QED
        BY <4>1, <4>2, <4>3 DEF b, p
    <3>. QED
      BY <2>1, <3>1, <3>2
  <2>4. /\ Len(s) + w = taken - d
        /\ \A i \in 1 .. Len(s) : s[i] = d + i
        /\ \A i \in 1 .. Len(t) : t[i] = d + Len(s) + i
    BY <1>1, <2>3 DEF IInv, Stream
  <2>5. s \in Seq(Nat) /\ t \in Seq(Nat) /\ d \in Nat /\ Len(t) = w
    BY <2>1, <2>2, <2>3
  <2>6. NothingLost <=> s \o t = Span(d + 1, taken - d)
    BY DEF NothingLost, Mine
  <2>. HIDE DEF s, t, w, d
  <2>. DEFINE k == Len(s) + Len(t)
  <2>7. k \in Nat /\ taken - d = k
    BY <2>4, <2>5
  <2>8. /\ s \o t \in Seq(Nat) /\ Len(s \o t) = k
        /\ \A i \in 1 .. Len(s \o t) : (s \o t)[i] = d + i
    BY <2>4, <2>5, Extended
  <2>. HIDE DEF k
  <2>9. /\ Span(d + 1, k) \in Seq(Nat) /\ Len(Span(d + 1, k)) = k
        /\ \A i \in 1 .. k : Span(d + 1, k)[i] = d + 1 + i - 1
    <3>1. d + 1 \in Nat
      BY <2>5
    <3>. QED
      BY <2>7, <3>1, SpanIs
  <2>10. \A i \in 1 .. k : (s \o t)[i] = Span(d + 1, k)[i]
    <3>1. ASSUME NEW i \in 1 .. k PROVE (s \o t)[i] = Span(d + 1, k)[i]
      <4>1. (s \o t)[i] = d + i /\ Span(d + 1, k)[i] = d + 1 + i - 1
        BY <2>8, <2>9
      <4>. QED
        BY <2>5, <2>7, <4>1
    <3>. QED
      BY <3>1
  <2>. QED
    BY <2>6, <2>7, <2>8, <2>9, <2>10, SeqEqual
<1>. QED
  BY <1>1, Invariance, PTL

\* A short count of rio_readn or rio_readnb is the end of the stream.
THEOREM ShortIsTheEnd == Spec => []ShortMeansEnd
<1>1. IInv => ShortMeansEnd
  BY DEF IInv
<1>. QED
  BY <1>1, Invariance, PTL

\* rio_readlineb returns up to the first newline and nothing behind it.
THEOREM LinesStayWhole == Spec => []LinesAreWhole
<1>1. IInv => LinesAreWhole
  BY DEF IInv, Line
<1>. QED
  BY <1>1, Invariance, PTL

\* rio_writen returns with its whole buffer on the wire, in order.
THEOREM AllIsWritten == Spec => []WrittenWhole
<1>1. ASSUME IInv PROVE WrittenWhole
  <2>. DEFINE n == Len(IF call.op = "rio_writen" THEN call.data
                       ELSE IF result.op = "rio_writen" THEN result.data ELSE <<>>)
              m == Len(wire)
  <2>1. wire \in Seq(Nat) /\ m \in Nat /\ n \in Nat
    BY <1>1 DEF IInv, Types, Records
  <2>2. n <= m /\ \A i \in 1 .. n : wire[m - n + i] = i
    <3>1. CASE call.op = "rio_writen"
      BY <1>1, <3>1 DEF IInv, Written, Ending
    <3>2. CASE call.op # "rio_writen" /\ result.op = "rio_writen"
      BY <1>1, <3>2 DEF IInv, Written, Ending
    <3>3. CASE call.op # "rio_writen" /\ result.op # "rio_writen"
      <4>1. n = 0
        BY <3>3
      <4>. HIDE DEF n
      <4>. QED
        BY <2>1, <4>1
    <3>. QED
      BY <3>1, <3>2, <3>3
  <2>3. result.op = "rio_writen" => Len(result.data) = result.n
    BY <1>1 DEF IInv, Written
  <2>4. WrittenWhole <=> /\ n <= m /\ SubSeq(wire, m - n + 1, m) = Span(1, n)
                         /\ (result.op = "rio_writen" => Len(result.data) = result.n)
    BY DEF WrittenWhole
  <2>. HIDE DEF n, m
  <2>. DEFINE p == m - n + 1
  <2>5. p \in Nat \ {0} /\ p + n <= Len(wire) + 1 /\ p + n - 1 = m
    BY <2>1, <2>2 DEF m
  <2>6. /\ SubSeq(wire, p, m) \in Seq(Nat) /\ Len(SubSeq(wire, p, m)) = n
        /\ \A i \in 1 .. n : SubSeq(wire, p, m)[i] = wire[p + i - 1]
    <3>. HIDE DEF p
    <3>. QED
      BY <2>1, <2>5, PartIs
  <2>7. /\ Span(1, n) \in Seq(Nat) /\ Len(Span(1, n)) = n
        /\ \A i \in 1 .. n : Span(1, n)[i] = 1 + i - 1
    BY <2>1, SpanIs
  <2>8. \A i \in 1 .. n : SubSeq(wire, p, m)[i] = Span(1, n)[i]
    <3>1. ASSUME NEW i \in 1 .. n PROVE SubSeq(wire, p, m)[i] = Span(1, n)[i]
      <4>1. p + i - 1 = m - n + i /\ 1 + i - 1 = i
        BY <2>1
      <4>2. wire[m - n + i] = i
        BY <2>2
      <4>. HIDE DEF p
      <4>. QED
        BY <2>6, <2>7, <4>1, <4>2
    <3>. QED
      BY <3>1
  <2>9. SubSeq(wire, p, m) = Span(1, n)
    <3>. HIDE DEF p
    <3>. QED
      BY <2>6, <2>7, <2>8, SeqEqual
  <2>. QED
    BY <2>2, <2>3, <2>4, <2>9
<1>. QED
  BY <1>1, Invariance, PTL
=============================================================================
