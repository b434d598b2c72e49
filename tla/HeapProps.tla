------------------------------- MODULE HeapProps -------------------------------
(* What the allocator of sfmm.c owes the program that calls it.              *)
EXTENDS Heap

-----------------------------------------------------------------------------
(* The blocks, found from header to header *)

\* No heap has more blocks than this.
Most == Steps \div MINSIZE

After(p) == IF p < heap.end THEN p + TagAt(heap, p).block_size ELSE p
Walk == LET at[k \in 0 .. Most] == IF k = 0 THEN 0 ELSE After(at[k - 1])
        IN  at
Blocks == {Walk[k] : k \in 0 .. Most} \ {heap.end}

Live == {g \in Grants : grants[g].size > 0}
Running == heap.fault = "none"

\* A heap whose lists new_page has not left in disorder.
Sorted == Running /\ ~heap.disordered

TypeOK ==
    /\ heap.end \in {k * PAGE_SZ : k \in 0 .. Pages}
    /\ heap.fault \in {"none", "wild", "loop", "abort"}
    /\ \A i \in Lists : heap.head[i] \in Rows \cup {Null}
    /\ \A r \in Rows : IsTag(heap.mem[r]) \/ IsLink(heap.mem[r])
                       \/ heap.mem[r] \in {Data(g) : g \in Grants}
    /\ grants \in [Grants -> [ptr : Rows \cup {Null}, size : Sizes \cup {0}]]
    /\ sf_errno \in {"none", "EINVAL", "ENOMEM"}
    /\ heap.disordered \in BOOLEAN
    /\ calls \in 0 .. Calls

-----------------------------------------------------------------------------

\* After any sequence of calls the blocks tile the heap: from header to header
\* one arrives at its end, and each footer repeats what its header says
\* (the header and footer writes of place, coalesce, new_page and sf_realloc).
Tiled ==
    Sorted =>
        /\ Walk[Most] = heap.end
        /\ \A p \in Blocks :
             LET hdr == TagAt(heap, p)
                 ftr == TagAt(heap, p + hdr.block_size - 1)
             IN  /\ hdr.block_size >= MINSIZE
                 /\ hdr.block_size % ALIGNMENT = 0
                 /\ [hdr EXCEPT !.requested_size = 0] = [ftr EXCEPT !.requested_size = 0]

\* sfmm.h:122 says of sf_malloc that the pointer to a valid region of memory of
\* the requested size is returned: what is written there stays, in every heap.
RegionsAreValid ==
    Running => \A g \in Live : \A r \in grants[g].ptr + 1 .. grants[g].ptr + grants[g].size :
                   heap.mem[r] = Data(g)

\* What the program wrote to a block it has not freed is still there: the
\* allocator writes no tag or link into it, no other grant overlaps it, and
\* sf_realloc carries it along.
LiveDataIntact == Sorted => RegionsAreValid

\* The allocated blocks are exactly those the program has and has not freed,
\* and each records the size it was asked for.
AllocatedAreGranted ==
    Sorted =>
        /\ {p \in Blocks : TagAt(heap, p).allocated = 1} = {grants[g].ptr : g \in Live}
        /\ \A g \in Live : Requested(heap, grants[g].ptr) = grants[g].size

\* What the free lists lead to, as far as they can be followed, are free blocks
\* of the list's size class.
ListedAreFree ==
    Sorted =>
        \A i \in Lists :
            Seek(heap, heap.head[i],
                 Rows \ {p \in Blocks : /\ TagAt(heap, p).allocated = 0
                                        /\ ListIndex(TagAt(heap, p).block_size) = i})
              \in {Null, Wild}

\* sf_free and sf_realloc take every pointer sf_malloc gave as valid, except to
\* a block that is larger than the request needed (a splinter was left in it).
LivePointersAccepted ==
    Sorted =>
        \A g \in Live : Rejected(heap, grants[g].ptr) =>
            TagAt(heap, grants[g].ptr).block_size > Adjusted(grants[g].size)

\* ENOMEM is an answer only when sf_sbrk has no page left to give.
NoMemoryLeft == sf_errno = "ENOMEM" => heap.end = Pages * PAGE_SZ

\* What sf_free takes back can be handed out again: a request for the same size
\* finds a block without a new page.
FreedIsReused ==
    [][\A g \in Live : grants'[g].size = 0 /\ heap'.fault = "none" =>
           FindFit(heap', Adjusted(grants[g].size)) # Null]_vars
=============================================================================
