--------------------------------- MODULE Heap ---------------------------------
(***************************************************************************)
(* The heap allocator sfmm (src/hw3/src/sfmm.c): boundary-tagged blocks in *)
(* at most Pages pages, and four segregated free lists threaded through    *)
(* the free blocks.  sf_malloc, sf_realloc and sf_free are whole calls of  *)
(* a single-threaded program, which writes what it is granted and frees it *)
(* once.                                                                   *)
(*                                                                         *)
(* Memory is counted in rows of 8 bytes (MEMROW); a row holds a header or  *)
(* footer, a link of a free list, or the program's data, and keeps what    *)
(* was last written to it.  The static functions of sfmm.c are operators   *)
(* from a heap to the heap they leave.  A heap whose `fault' is set is     *)
(* that of a program that has stopped: it followed something that is no    *)
(* link ("wild"), its call never returns ("loop"), or it was aborted       *)
(* ("abort").                                                              *)
(*                                                                         *)
(* sf_sbrk, sf_mem_init and the heap's limits are those of the object file *)
(* lib/sfutil.o: the reservation reads as zeros before it is written, and  *)
(* the row after it is the size field of the next chunk of malloc, whose   *)
(* lowest bit is set: a header that reads as allocated.                    *)
(***************************************************************************)
EXTENDS Integers, FiniteSets

CONSTANTS
    PAGE_SZ,        \* rows in a page
    LIST_1_MAX, LIST_2_MAX, LIST_3_MAX,     \* limits of the lists, in rows
    Pages,          \* pages sf_sbrk can add
    Sizes,          \* the sizes asked for, in rows
    Grants,         \* the blocks the program can have at a time
    Calls           \* bound on the calls of a behaviour

ALIGNMENT == 2
MINSIZE   == 4
Rows      == 0 .. Pages * PAGE_SZ - 1
Lists     == 1 .. 4
Null      == -10
Wild      == -20
Loop      == -30

ASSUME PageAssumption  == PAGE_SZ \in Nat /\ PAGE_SZ % ALIGNMENT = 0 /\ PAGE_SZ >= MINSIZE
ASSUME ListsAssumption ==
    /\ {LIST_1_MAX, LIST_2_MAX, LIST_3_MAX} \subseteq Nat
    /\ MINSIZE <= LIST_1_MAX /\ LIST_1_MAX < LIST_2_MAX /\ LIST_2_MAX < LIST_3_MAX
ASSUME BoundsAssumption == Pages \in Nat \ {0} /\ Sizes \subseteq Nat /\ Calls \in Nat

VARIABLES
    heap,           \* memory, heads of the free lists, rows in use, fault, and
                    \* as history whether new_page has left the lists in disorder
    grants,         \* what the program has been granted and not freed
    sf_errno,
    calls           \* history: the calls made

vars == <<heap, grants, sf_errno, calls>>

\* What a row holds: a header or footer, a link, or data of a grant.
Tag(allocated, padded, block_size, requested_size) ==
    [allocated |-> allocated, padded |-> padded, block_size |-> block_size,
     requested_size |-> requested_size]
Link(p) == [to |-> p]
Data(g) == [grant |-> g]
Zero    == Link(Null)

IsTag(w)  == "block_size" \in DOMAIN w
IsLink(w) == "to" \in DOMAIN w

Init ==
    /\ heap = [mem |-> [r \in Rows |-> Zero], head |-> [i \in Lists |-> Null],
               end |-> 0, fault |-> "none", disordered |-> FALSE]
    /\ grants = [g \in Grants |-> [ptr |-> Null, size |-> 0]]
    /\ sf_errno = "none"
    /\ calls = 0

-----------------------------------------------------------------------------
(* Reading and writing rows of a heap h *)

TagAt(h, p) ==
    IF p \notin Rows THEN Tag(1, 0, 0, 0)
    ELSE IF IsTag(h.mem[p]) THEN h.mem[p] ELSE Tag(0, 0, 0, 0)

LinkAt(h, p) == IF p \in Rows /\ IsLink(h.mem[p]) THEN h.mem[p].to ELSE Wild

NextOf(h, p) == LinkAt(h, p + 1)
PrevOf(h, p) == LinkAt(h, p + 2)

Store(h, p, w) ==
    IF p \in Rows THEN [h EXCEPT !.mem[p] = w] ELSE [h EXCEPT !.fault = "wild"]

SetNext(h, p, q) == Store(h, p + 1, Link(q))
SetPrev(h, p, q) == Store(h, p + 2, Link(q))

\* The header and the footer of a block.
SetTags(h, p, allocated, padded, block_size, requested_size) ==
    Store(Store(h, p, Tag(allocated, padded, block_size, 0)),
          p + block_size - 1, Tag(allocated, padded, block_size, requested_size))

-----------------------------------------------------------------------------
(* The free lists *)

\* find_list_index_from_size; also where find_fit starts
ListIndex(sz) ==
    CASE sz \in MINSIZE .. LIST_1_MAX -> 1
      [] sz \in LIST_1_MAX + 1 .. LIST_2_MAX -> 2
      [] sz \in LIST_2_MAX + 1 .. LIST_3_MAX -> 3
      [] OTHER -> 4

Steps == Pages * PAGE_SZ

\* Following a pointer to something that is no block's header leads nowhere.
Target(h, p) ==
    IF p = Null \/ (p \in Rows /\ IsTag(h.mem[p])) THEN p ELSE Wild

\* The first of `targets' met from p on; Null or Wild where the list ends, and
\* Loop if it has not ended after as many steps as there are rows.
Seek(h, p, targets) ==
    LET at[k \in 0 .. Steps] ==
            IF k = 0 THEN Target(h, p)
            ELSE LET q == at[k - 1]
                 IN  IF q \in targets \cup {Null, Wild} THEN q ELSE Target(h, NextOf(h, q))
    IN  IF at[Steps] \in targets \cup {Null, Wild} THEN at[Steps] ELSE Loop

\* Faulty variant: the block stays where it is in the list.
KeepListed(h, i, p) == h

\* `before' is what the search for a pointer to p came to.
Cut(h, i, p, before) ==
    CASE h.head[i] = p -> [h EXCEPT !.head[i] = Null]
      [] h.head[i] # p /\ before = Null -> h
      [] h.head[i] # p /\ before = Wild -> [h EXCEPT !.fault = "wild"]
      [] h.head[i] # p /\ before = Loop -> [h EXCEPT !.fault = "loop"]
      [] OTHER -> SetNext(h, before, Null)

\* The loop `while(*ptr != NULL) if(*ptr == p) { *ptr = NULL; break; }': the
\* pointer to p is cleared, so what follows p is no longer reached through it.
Drop(h, i, p) == Cut(h, i, p, Seek(h, h.head[i], {q \in Rows : NextOf(h, q) = p}))

\* The neighbours of p are linked to each other, then p's links are cleared.
Bypass(h, p, next, prev) ==
    LET g == IF next = Null THEN h ELSE SetPrev(h, next, prev)
    IN  IF prev = Null THEN g ELSE SetNext(g, prev, next)

Detach(h, p) == SetPrev(SetNext(Bypass(h, p, NextOf(h, p), PrevOf(h, p)), p, Null), p, Null)

\* The unlinking that place and coalesce share.
Unlink(h, p) == Detach(Drop(h, ListIndex(TagAt(h, p).block_size), p), p)

\* p becomes the head of list i.  In an empty list its next field stays.
Push(h, i, p) ==
    LET first == h.head[i]
        g == IF first = Null THEN h ELSE SetPrev(SetNext(h, p, first), first, p)
    IN  [g EXCEPT !.head[i] = p]

\* Faulty variant: the head of a list that is not empty is not moved to p.
KeepHead(h, i, p) ==
    IF h.head[i] = Null THEN Push(SetNext(h, p, Null), i, p)
    ELSE SetPrev(SetNext(h, p, h.head[i]), h.head[i], p)

\* The same, with next cleared in an empty list.
Insert(h, i, p) ==
    Push(IF h.head[i] = Null THEN SetNext(h, p, Null) ELSE h, i, p)

\* find_fit: the first block that is large enough, in the list of that size
\* and then in the lists of larger sizes.
FindFit(h, asize) ==
    LET fits == {p \in Rows : TagAt(h, p).block_size >= asize}
        found == [i \in ListIndex(asize) .. 4 |-> Seek(h, h.head[i], fits)]
        hits == {i \in DOMAIN found : found[i] # Null}
    IN  IF hits = {} THEN Null
        ELSE found[CHOOSE i \in hits : \A j \in hits : i <= j]

-----------------------------------------------------------------------------
(* Pages *)

CanGrow(h) == h.end < Pages * PAGE_SZ

\* The free block at the end of the heap, which the next page is added to.
LastFree(h) == h.end > 0 /\ TagAt(h, h.end - 1).allocated = 0
LastSize(h) == TagAt(h, h.end - 1).block_size

\* A page leaves the lists in disorder if it makes the last block one of another
\* size class, or if some link still leads to that block when it has been dropped
\* from its list: that of the block behind it, which is not relinked, or of one
\* before it that the head of the list no longer leads to.
Disorders(h) ==
    /\ LastFree(h)
    /\ LET p == h.end - LastSize(h)
           i == ListIndex(TagAt(h, p).block_size)
       IN  \/ i # ListIndex(LastSize(h) + PAGE_SZ)
           \/ \E r \in Rows : LinkAt(Drop(h, i, p), r) = p

\* new_page: the last block, if free, grows by a page and is moved to the head
\* of the list of the size it had; otherwise the page is a new block.
NewPage(h) ==
    LET p == IF LastFree(h) THEN h.end - LastSize(h) ELSE h.end
        i == ListIndex(IF LastFree(h) THEN TagAt(h, p).block_size ELSE PAGE_SZ)
        dropped == IF LastFree(h) THEN Drop(h, i, p) ELSE h
        g == [dropped EXCEPT !.end = @ + PAGE_SZ, !.disordered = @ \/ Disorders(h)]
    IN  SetTags(Insert(SetPrev(g, p, Null), i, p), p, 0, 0, g.end - p, 0)

\* Faulty variant: the answer of sf_sbrk is not looked at.
UncheckedPage(h) == NewPage(h)

TryPage(h) == IF CanGrow(h) THEN NewPage(h) ELSE h

\* The first n calls of new_page in sf_malloc's loop, whatever each returns.
Grow(h, n) ==
    LET grown[k \in 0 .. n] == IF k = 0 THEN h ELSE TryPage(grown[k - 1])
    IN  grown[n]

-----------------------------------------------------------------------------
(* The calls: each gives the heap it leaves, the block it answers with (or   *)
(* Null) and the errno it sets                                               *)

\* Faulty variant: the footer is rounded away.
AdjustedDown(size) ==
    IF size < ALIGNMENT THEN MINSIZE
    ELSE ALIGNMENT * ((size + ALIGNMENT) \div ALIGNMENT)

\* The size of the block for a request: header, footer, and up to ALIGNMENT.
Adjusted(size) ==
    IF size < ALIGNMENT THEN MINSIZE
    ELSE ALIGNMENT * ((size + ALIGNMENT + ALIGNMENT - 1) \div ALIGNMENT)

Padded(size, block_size) == IF size + ALIGNMENT # block_size THEN 1 ELSE 0

\* place, once p is in no list: it is allocated.  What it does not need becomes a
\* free block, unless that would be a splinter; the padded bit looks at asize in
\* both cases.
Allocate(h, p, bsize, asize, size) ==
    LET rest == p + asize
        split == SetTags(SetTags(h, p, 1, Padded(size, asize), asize, size),
                         rest, 0, 0, bsize - asize, 0)
    IN  IF bsize - asize >= MINSIZE
        THEN Push(SetPrev(split, rest, Null), ListIndex(bsize - asize), rest)
        ELSE SetTags(h, p, 1, Padded(size, asize), bsize, size)

Place(h, p, asize, size) == Allocate(Unlink(h, p), p, TagAt(h, p).block_size, asize, size)

Answer(h, p, errno) == [heap |-> h, block |-> p, errno |-> errno]
Stop(h, fault)      == Answer([h EXCEPT !.fault = fault], Null, "none")

\* Faulty variant: the last page is kept back.
ExtendSparing(h, asize, size) ==
    LET grown == TryPage(h)
        last == grown.end - LastSize(grown)
    IN  IF CanGrow(grown) THEN Answer(Place(grown, last, asize, size), last, "none")
        ELSE Answer(h, Null, "ENOMEM")

\* The last of the calls of new_page decides: h is the heap before it.
Extend(h, asize, size) ==
    LET grown == TryPage(h)
        last == grown.end - LastSize(grown)
    IN  IF CanGrow(h) THEN Answer(Place(grown, last, asize, size), last, "none")
        ELSE Answer(grown, Null, "ENOMEM")

\* sf_malloc after find_fit gave `fit'.
Satisfy(h, asize, size, fit) ==
    CASE fit = Wild -> Stop(h, "wild")
      [] fit = Loop -> Stop(h, "loop")
      [] fit = Null -> Extend(Grow(h, asize \div PAGE_SZ), asize, size)
      [] OTHER -> Answer(Place(h, fit, asize, size), fit, "none")

Malloc(h, size) ==
    IF size \in 1 .. 4 * PAGE_SZ
    THEN Satisfy(h, Adjusted(size), size, FindFit(h, Adjusted(size)))
    ELSE Answer(h, Null, "EINVAL")

\* Faulty variant: the footer of the joined block keeps its size.
JoinHeader(h, p, n) ==
    Store(h, p, [h.mem[p] EXCEPT !.block_size = @ + TagAt(h, n).block_size])

\* n, which follows p and is in no list, becomes part of p.
Join(h, p, n) ==
    LET whole == TagAt(h, p).block_size + TagAt(h, n).block_size
        last == n + TagAt(h, n).block_size - 1
    IN  Store(Store(h, p, [h.mem[p] EXCEPT !.block_size = whole]),
              last, [TagAt(h, last) EXCEPT !.block_size = whole])

\* coalesce: a free block that follows p joins it, then p enters its list.
Merge(h, p, n) == IF TagAt(h, n).allocated = 0 THEN Join(Unlink(h, n), p, n) ELSE h
Enlist(h, p)   == Insert(h, ListIndex(TagAt(h, p).block_size), p)
Coalesce(h, p) == Enlist(Merge(SetPrev(h, p, Null), p, p + TagAt(h, p).block_size), p)

\* The tests sf_free and sf_realloc make of the block of a pointer.
Rejected(h, p) ==
    LET hdr == TagAt(h, p)
        ftr == TagAt(h, p + hdr.block_size - 1)
    IN  \/ p \notin 0 .. h.end
        \/ hdr.allocated # 1
        \/ hdr.allocated # ftr.allocated
        \/ hdr.block_size # ftr.block_size
        \/ hdr.padded # ftr.padded
        \/ ftr.padded # Padded(ftr.requested_size, ftr.block_size)

Free(h, p) ==
    IF Rejected(h, p) THEN [h EXCEPT !.fault = "abort"]
    ELSE Coalesce(SetTags(h, p, 0, 0, TagAt(h, p).block_size, 0), p)

Footer(h, p)    == p + TagAt(h, p).block_size - 1
Requested(h, p) == TagAt(h, Footer(h, p)).requested_size

\* memcpy of n rows of payload, none of which lies outside the memory
Move(h, to, from, n) ==
    IF {to + n, from + n} \subseteq Rows
    THEN [h EXCEPT !.mem = [r \in Rows |-> IF r \in to + 1 .. to + n
                                           THEN h.mem[r - to + from] ELSE h.mem[r]]]
    ELSE [h EXCEPT !.fault = "wild"]

\* Faulty variant: the padded bit of the block stays.
ShrinkKeepsPadded(h, p, size) ==
    LET bsize == TagAt(h, p).block_size
        asize == Adjusted(size)
        rest == p + asize
        cut == [SetTags(h, rest, 0, 0, bsize - asize, 0) EXCEPT !.mem[p].block_size = asize]
        splits == bsize - asize > MINSIZE
    IN  SetTags(IF splits THEN Coalesce(cut, rest) ELSE h,
                p, 1, TagAt(h, p).padded, IF splits THEN asize ELSE bsize, size)

\* A request for less: the end of the block is freed if it is no splinter.
Shrink(h, p, size) ==
    LET bsize == TagAt(h, p).block_size
        asize == Adjusted(size)
        rest == p + asize
        cut == [SetTags(h, rest, 0, 0, bsize - asize, 0) EXCEPT !.mem[p].block_size = asize]
        splits == bsize - asize > MINSIZE
        newsize == IF splits THEN asize ELSE bsize
    IN  SetTags(IF splits THEN Coalesce(cut, rest) ELSE h,
                p, 1, Padded(size, newsize), newsize, size)

\* Faulty variant: the old block is never freed.
CarryLeaks(p, ftr, new) ==
    IF new.block = Null THEN new
    ELSE Answer(Move(new.heap, new.block, p, TagAt(new.heap, ftr).requested_size), new.block, "none")

\* The data of p, as many rows as its footer ftr says, is carried to the block
\* of sf_malloc's answer, if there is one.
Carry(p, ftr, new) ==
    IF new.block = Null THEN new
    ELSE Answer(Free(Move(new.heap, new.block, p, TagAt(new.heap, ftr).requested_size), p),
                new.block, "none")

\* sf_realloc; a request for what the block already has is answered NULL.
Realloc(h, p, size) ==
    CASE Rejected(h, p) -> Stop(h, "abort")
      [] ~Rejected(h, p) /\ size = 0 -> Answer(Free(h, p), Null, "none")
      [] ~Rejected(h, p) /\ size > Requested(h, p) -> Carry(p, Footer(h, p), Malloc(h, size))
      [] ~Rejected(h, p) /\ size \in 1 .. Requested(h, p) - 1 -> Answer(Shrink(h, p, size), p, "none")
      [] OTHER -> Answer(h, Null, "none")

-----------------------------------------------------------------------------
(* The program *)

Call ==
    /\ heap.fault = "none"
    /\ calls < Calls
    /\ calls' = calls + 1

Unused(g) == grants[g].size = 0

\* Grant g writes the rows of its payload from number `from' on.
Write(h, g, p, from, size) ==
    [h EXCEPT !.mem = [r \in Rows |-> IF r \in p + from .. p + size THEN Data(g) ELSE h.mem[r]]]

\* How an answer reaches the program; grant g keeps `kept' rows of data.
Take(g, size, answer, kept) ==
    /\ heap' = IF answer.block = Null THEN answer.heap
               ELSE Write(answer.heap, g, answer.block, kept + 1, size)
    /\ grants' = CASE answer.block # Null ->
                        [grants EXCEPT ![g] = [ptr |-> answer.block, size |-> size]]
                   [] answer.block = Null /\ size = 0 ->
                        [grants EXCEPT ![g] = [ptr |-> Null, size |-> 0]]
                   [] OTHER -> grants
    /\ sf_errno' = IF answer.errno = "none" THEN sf_errno ELSE answer.errno

SfMalloc(g, size) ==
    /\ Call
    /\ Unused(g)
    /\ Take(g, size, Malloc(heap, size), 0)

SfRealloc(g, size) ==
    /\ Call
    /\ ~Unused(g)
    /\ Take(g, size, Realloc(heap, grants[g].ptr, size), grants[g].size)

SfFree(g) ==
    /\ Call
    /\ ~Unused(g)
    /\ heap' = Free(heap, grants[g].ptr)
    /\ grants' = [grants EXCEPT ![g] = [ptr |-> Null, size |-> 0]]
    /\ UNCHANGED sf_errno

Next ==
    \E g \in Grants :
        \/ \E size \in Sizes : SfMalloc(g, size) \/ SfRealloc(g, size)
        \/ SfFree(g)

Spec == Init /\ [][Next]_vars
=============================================================================
