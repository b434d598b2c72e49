------------------------------ MODULE HeapProofs ------------------------------
(***************************************************************************)
(* Proofs about the allocator, for any page size, number of pages, limits  *)
(* of the lists, sizes asked for and number of grants: the properties of   *)
(* HeapProps, all but NoMemoryLeft until the lists are left in disorder.   *)
(***************************************************************************)
EXTENDS HeapProps, FiniteSetTheorems, WellFoundedInduction, TLAPS

-----------------------------------------------------------------------------
(* What every operation leaves of a heap, whatever it is in: its end, and the *)
(* history of its lists                                                       *)

Rec(h) ==
    h = [mem |-> h.mem, head |-> h.head, end |-> h.end, fault |-> h.fault,
         disordered |-> h.disordered]

Frame(h, g) ==
    /\ Rec(g) /\ g.end = h.end /\ g.disordered = h.disordered
    /\ g.fault = "none" => h.fault = "none"

LEMMA FrameTrans ==
    ASSUME NEW h, NEW g, NEW k, Frame(h, g), Frame(g, k) PROVE Frame(h, k)
  BY DEF Frame

LEMMA StoreFrame ==
    ASSUME NEW h, Rec(h), NEW p, NEW w PROVE Frame(h, Store(h, p, w))
  BY DEF Rec, Frame, Store

LEMMA LinkFrame ==
    ASSUME NEW h, Rec(h), NEW p, NEW q
    PROVE  Frame(h, SetNext(h, p, q)) /\ Frame(h, SetPrev(h, p, q))
  BY StoreFrame DEF SetNext, SetPrev

LEMMA TagsFrame ==
    ASSUME NEW h, Rec(h), NEW p, NEW a, NEW d, NEW s, NEW r
    PROVE  Frame(h, SetTags(h, p, a, d, s, r))
<1>1. Frame(h, Store(h, p, Tag(a, d, s, 0)))
  BY StoreFrame
<1> QED
  BY <1>1, StoreFrame, FrameTrans DEF SetTags, Frame

LEMMA FaultFrame ==
    ASSUME NEW h, Rec(h), NEW f, f # "none" PROVE Frame(h, [h EXCEPT !.fault = f])
  BY DEF Rec, Frame

LEMMA HeadFrame ==
    ASSUME NEW h, Rec(h), NEW i, NEW p PROVE Frame(h, [h EXCEPT !.head[i] = p])
  BY DEF Rec, Frame

LEMMA DropFrame ==
    ASSUME NEW h, Rec(h), NEW i, NEW p PROVE Frame(h, Drop(h, i, p))
<1> SUFFICES ASSUME NEW before PROVE Frame(h, Cut(h, i, p, before))
  BY DEF Drop
<1>1. CASE h.head[i] = p
  <2>1. Cut(h, i, p, before) = [h EXCEPT !.head[i] = Null]
    BY <1>1 DEF Cut
  <2> QED
    BY <2>1, HeadFrame
<1>2. CASE h.head[i] # p
  <2>1. \/ Cut(h, i, p, before) = h \/ Cut(h, i, p, before) = SetNext(h, before, Null)
        \/ \E f \in {"wild", "loop"} : Cut(h, i, p, before) = [h EXCEPT !.fault = f]
    BY <1>2 DEF Cut
  <2> QED
    <3>1. Frame(h, h) /\ Frame(h, SetNext(h, before, Null))
      BY LinkFrame DEF Frame
    <3>2. \A f \in {"wild", "loop"} : Frame(h, [h EXCEPT !.fault = f])
      BY FaultFrame
    <3> QED
      BY <2>1, <3>1, <3>2
<1> QED
  BY <1>1, <1>2

LEMMA DetachFrame ==
    ASSUME NEW g, Rec(g), NEW p PROVE Frame(g, Detach(g, p))
<1>1. ASSUME NEW next, NEW prev PROVE Frame(g, Bypass(g, p, next, prev))
  BY LinkFrame, FrameTrans DEF Bypass, Frame
<1>2. ASSUME NEW k, Frame(g, k) PROVE Frame(g, SetPrev(SetNext(k, p, Null), p, Null))
  BY <1>2, LinkFrame, FrameTrans DEF Frame
<1> QED
  BY <1>1, <1>2 DEF Detach

LEMMA UnlinkFrame ==
    ASSUME NEW h, Rec(h), NEW p PROVE Frame(h, Unlink(h, p))
  BY DropFrame, DetachFrame, FrameTrans DEF Unlink, Frame

LEMMA InsertFrame ==
    ASSUME NEW h, Rec(h), NEW i, NEW p
    PROVE  Frame(h, Push(h, i, p)) /\ Frame(h, Insert(h, i, p))
<1>1. ASSUME NEW g, Rec(g) PROVE Frame(g, Push(g, i, p))
  <2>1. Frame(g, SetPrev(SetNext(g, p, g.head[i]), g.head[i], p))
    BY <1>1, LinkFrame, FrameTrans DEF Frame
  <2> DEFINE k == IF g.head[i] = Null THEN g
                  ELSE SetPrev(SetNext(g, p, g.head[i]), g.head[i], p)
  <2>2. Frame(g, k) /\ Rec(k)
    BY <1>1, <2>1 DEF Frame
  <2>3. Push(g, i, p) = [k EXCEPT !.head[i] = p]
    BY DEF Push
  <2> HIDE DEF k
  <2> QED
    BY <2>2, <2>3, HeadFrame, FrameTrans
<1>2. Frame(h, IF h.head[i] = Null THEN SetNext(h, p, Null) ELSE h)
  BY LinkFrame DEF Frame
<1> QED
  BY <1>1, <1>2, FrameTrans DEF Insert, Frame

LEMMA AllocateFrame ==
    ASSUME NEW g, Rec(g), NEW p, NEW bsize, NEW asize, NEW size
    PROVE  Frame(g, Allocate(g, p, bsize, asize, size))
<1> DEFINE split == SetTags(SetTags(g, p, 1, Padded(size, asize), asize, size),
                            p + asize, 0, 0, bsize - asize, 0)
<1>1. Frame(g, split)
  BY TagsFrame, FrameTrans DEF Frame
<1>2. Frame(g, SetPrev(split, p + asize, Null))
  BY <1>1, LinkFrame, FrameTrans DEF Frame
<1>3. Frame(g, Push(SetPrev(split, p + asize, Null), ListIndex(bsize - asize), p + asize))
  BY <1>2, InsertFrame, FrameTrans DEF Frame
<1>4. Frame(g, SetTags(g, p, 1, Padded(size, asize), bsize, size))
  BY TagsFrame
<1> QED
  BY <1>3, <1>4 DEF Allocate

LEMMA PlaceFrame ==
    ASSUME NEW h, Rec(h), NEW p, NEW asize, NEW size
    PROVE  Frame(h, Place(h, p, asize, size))
  BY UnlinkFrame, AllocateFrame, FrameTrans DEF Place, Frame

LEMMA MergeFrame ==
    ASSUME NEW h, Rec(h), NEW p, NEW n
    PROVE  Frame(h, Join(h, p, n)) /\ Frame(h, Merge(h, p, n)) /\ Frame(h, Enlist(h, p))
<1>1. ASSUME NEW g, Rec(g) PROVE Frame(g, Join(g, p, n))
  BY <1>1, StoreFrame, FrameTrans DEF Join, Frame
<1>2. Frame(h, Merge(h, p, n))
  BY <1>1, UnlinkFrame, FrameTrans DEF Merge, Frame
<1>3. Frame(h, Enlist(h, p))
  BY InsertFrame DEF Enlist
<1> QED
  BY <1>1, <1>2, <1>3

LEMMA CoalesceFrame ==
    ASSUME NEW h, Rec(h), NEW p PROVE Frame(h, Coalesce(h, p))
<1> DEFINE g == SetPrev(h, p, Null)
           k == Merge(g, p, p + TagAt(h, p).block_size)
<1>1. Frame(h, g)
  BY LinkFrame
<1> HIDE DEF g
<1>2. Frame(g, k)
  BY <1>1, MergeFrame DEF Frame
<1> HIDE DEF k
<1>3. Frame(k, Enlist(k, p))
  BY <1>2, MergeFrame DEF Frame
<1> QED
  BY <1>1, <1>2, <1>3, FrameTrans DEF Coalesce, g, k

LEMMA FreeFrame ==
    ASSUME NEW h, Rec(h), NEW p PROVE Frame(h, Free(h, p))
<1>1. Frame(h, Coalesce(SetTags(h, p, 0, 0, TagAt(h, p).block_size, 0), p))
  BY TagsFrame, CoalesceFrame, FrameTrans DEF Frame
<1> QED
  BY <1>1, FaultFrame DEF Free

LEMMA MoveFrame ==
    ASSUME NEW h, Rec(h), NEW to, NEW from, NEW n PROVE Frame(h, Move(h, to, from, n))
<1>1. CASE {to + n, from + n} \subseteq Rows
  BY <1>1 DEF Rec, Frame, Move
<1>2. CASE ~({to + n, from + n} \subseteq Rows)
  <2>1. Move(h, to, from, n) = [h EXCEPT !.fault = "wild"]
    BY <1>2 DEF Move
  <2> QED
    BY <2>1, FaultFrame
<1> QED
  BY <1>1, <1>2

LEMMA WriteFrame ==
    ASSUME NEW h, Rec(h), NEW g, NEW p, NEW from, NEW size
    PROVE  Frame(h, Write(h, g, p, from, size))
  BY DEF Rec, Frame, Write

LEMMA ShrinkFrame ==
    ASSUME NEW h, Rec(h), NEW p, NEW size PROVE Frame(h, Shrink(h, p, size))
<1> DEFINE bsize == TagAt(h, p).block_size
           asize == Adjusted(size)
           tagged == SetTags(h, p + asize, 0, 0, bsize - asize, 0)
           cut == [tagged EXCEPT !.mem[p].block_size = asize]
<1>1. Frame(h, tagged)
  BY TagsFrame
<1>2. Frame(h, cut)
  <2> HIDE DEF tagged
  <2> QED
    BY <1>1 DEF Rec, Frame
<1> HIDE DEF cut
<1>3. Frame(h, Coalesce(cut, p + asize))
  BY <1>2, CoalesceFrame, FrameTrans DEF Frame
<1>4. Rec(IF bsize - asize > MINSIZE THEN Coalesce(cut, p + asize) ELSE h)
      /\ Frame(h, IF bsize - asize > MINSIZE THEN Coalesce(cut, p + asize) ELSE h)
  BY <1>3 DEF Frame
<1> QED
  BY <1>4, TagsFrame, FrameTrans DEF Shrink, cut

-----------------------------------------------------------------------------
(* What a whole call leaves: pages are only added, and the lists do not return *)
(* to order                                                                    *)

PageEnds == {k * PAGE_SZ : k \in 0 .. Pages}

Growth(h, g) ==
    /\ Rec(g)
    /\ h.disordered = TRUE => g.disordered = TRUE
    /\ h.end \in PageEnds => g.end \in PageEnds /\ h.end <= g.end

LEMMA PageEndIn ==
    ASSUME NEW e \in PageEnds
    PROVE  /\ e \in Nat /\ e <= Pages * PAGE_SZ
           /\ e < Pages * PAGE_SZ => e + PAGE_SZ \in PageEnds
           /\ e % ALIGNMENT = 0
<1>1. PICK k \in 0 .. Pages : e = k * PAGE_SZ
  BY DEF PageEnds
<1>2. PAGE_SZ \in Nat /\ Pages \in Nat /\ k \in Nat
  BY PageAssumption, BoundsAssumption
<1>3. e \in Nat
  BY <1>1, <1>2
<1>4. e <= Pages * PAGE_SZ
  BY <1>1, <1>2
<1>5. ASSUME e < Pages * PAGE_SZ PROVE e + PAGE_SZ \in PageEnds
  <2>1. k # Pages
    BY <1>1, <1>5, <1>2
  <2>2. k + 1 \in 0 .. Pages /\ (k + 1) * PAGE_SZ = e + PAGE_SZ
    BY <1>1, <1>2, <2>1
  <2> QED
    BY <2>2 DEF PageEnds
<1>6. e % ALIGNMENT = 0
  <2>1. PICK m \in Int : PAGE_SZ = 2 * m
    BY PageAssumption DEF ALIGNMENT
  <2>2. e = 2 * (k * m) /\ k * m \in Int
    BY <1>1, <1>2, <2>1
  <2> QED
    BY <2>2 DEF ALIGNMENT
<1> QED
  BY <1>3, <1>4, <1>5, <1>6

LEMMA GrowthTrans ==
    ASSUME NEW h, NEW g, NEW k, Growth(h, g), Growth(g, k) PROVE Growth(h, k)
<1>1. ASSUME h.end \in PageEnds PROVE k.end \in PageEnds /\ h.end <= k.end
  <2>1. g.end \in PageEnds /\ k.end \in PageEnds /\ h.end <= g.end /\ g.end <= k.end
    BY <1>1 DEF Growth
  <2>2. h.end \in Nat /\ g.end \in Nat /\ k.end \in Nat
    BY <1>1, <2>1, PageEndIn
  <2> QED
    BY <2>1, <2>2
<1> QED
  BY <1>1 DEF Growth

LEMMA FrameGrowth == ASSUME NEW h, NEW g, Frame(h, g) PROVE Growth(h, g)
  BY PageEndIn DEF Frame, Growth

\* The heap d a page longer, which is otherwise the same.
Longer(h, d) == [d EXCEPT !.end = @ + PAGE_SZ, !.disordered = @ \/ Disorders(h)]

LEMMA LongerIs ==
    ASSUME NEW h, NEW d, Rec(d)
    PROVE  LET g == Longer(h, d)
           IN  /\ Rec(g) /\ g.end = d.end + PAGE_SZ
               /\ g.disordered = (d.disordered \/ Disorders(h))
               /\ g.mem = d.mem /\ g.head = d.head /\ g.fault = d.fault
<1> DEFINE after == [d EXCEPT !.end = @ + PAGE_SZ]
           o == d.disordered \/ Disorders(h)
           g == Longer(h, d)
<1>1. g = [after EXCEPT !.disordered = o]
  BY DEF Longer
<1>2. /\ Rec(after) /\ after.end = d.end + PAGE_SZ
      /\ after.mem = d.mem /\ after.head = d.head /\ after.fault = d.fault
  BY DEF Rec
<1> HIDE DEF after, o, g
<1>3. ASSUME NEW x
      PROVE  LET k == [after EXCEPT !.disordered = x]
             IN  /\ Rec(k) /\ k.end = after.end /\ k.disordered = x
                 /\ k.mem = after.mem /\ k.head = after.head /\ k.fault = after.fault
  BY <1>2 DEF Rec
<1>4. /\ Rec(g) /\ g.end = after.end /\ g.disordered = o
      /\ g.mem = after.mem /\ g.head = after.head /\ g.fault = after.fault
  BY <1>1, <1>3, Zenon
<1> QED
  BY <1>2, <1>4 DEF o, g

LEMMA PageGrowth ==
    ASSUME NEW h, Rec(h) PROVE Growth(h, TryPage(h))
<1> DEFINE p == IF LastFree(h) THEN h.end - LastSize(h) ELSE h.end
           i == ListIndex(IF LastFree(h) THEN TagAt(h, p).block_size ELSE PAGE_SZ)
           dropped == IF LastFree(h) THEN Drop(h, i, p) ELSE h
           g == [dropped EXCEPT !.end = @ + PAGE_SZ, !.disordered = @ \/ Disorders(h)]
<1>1. NewPage(h) = SetTags(Insert(SetPrev(g, p, Null), i, p), p, 0, 0, g.end - p, 0)
  BY DEF NewPage
<1>2. Frame(h, dropped)
  BY DropFrame DEF Frame
<1>3. Rec(g) /\ g.end = h.end + PAGE_SZ /\ g.disordered = (h.disordered \/ Disorders(h))
  <2>1. dropped.disordered = h.disordered /\ dropped.end = h.end /\ Rec(dropped)
    BY <1>2 DEF Frame
  <2> HIDE DEF dropped
  <2>2. Rec(g) /\ g.end = dropped.end + PAGE_SZ /\ g.disordered = (dropped.disordered \/ Disorders(h))
    <3>1. g = Longer(h, dropped)
      BY DEF Longer
    <3> HIDE DEF g
    <3> QED
      BY <2>1, <3>1, LongerIs
  <2> QED
    BY <2>1, <2>2
<1> HIDE DEF g, i, p
<1>4. Frame(g, NewPage(h))
  BY <1>1, <1>3, LinkFrame, InsertFrame, TagsFrame, FrameTrans DEF Frame
<1>5. ASSUME CanGrow(h) PROVE Growth(h, NewPage(h))
  <2>1. h.disordered = TRUE => NewPage(h).disordered = TRUE
    BY <1>3, <1>4 DEF Frame
  <2>2. ASSUME h.end \in PageEnds PROVE h.end + PAGE_SZ \in PageEnds /\ h.end <= h.end + PAGE_SZ
    BY <1>5, <2>2, PageEndIn, PageAssumption DEF CanGrow
  <2> QED
    BY <1>3, <1>4, <2>1, <2>2 DEF Growth, Frame
<1> QED
  BY <1>5, FrameGrowth DEF TryPage, Frame

\* The well-ordering of the naturals, without induction over a predicate.
LEMMA LeastNatural ==
    ASSUME NEW S \in SUBSET Nat, S # {}
    PROVE  \E m \in S : \A n \in S : m <= n
<1> DEFINE Initial == {0 .. n : n \in S}
<1>1. Initial \subseteq FiniteSubsetsOf(Nat) /\ Initial # {}
  <2>1. \A n \in S : IsFiniteSet(0 .. n) /\ 0 .. n \in SUBSET Nat
    BY FS_Interval
  <2> QED
    BY <2>1 DEF FiniteSubsetsOf
<1>2. PICK x \in Initial : \A y \in Initial : ~(<<y, x>> \in StrictSubsetOrdering(Nat))
  BY <1>1, WFMin, FS_StrictSubsetOrderingWellFounded
<1>3. PICK m \in S : x = 0 .. m
  BY <1>2
<1>4. ASSUME NEW n \in S, n < m PROVE FALSE
  <2>1. 0 .. n \in Initial /\ 0 .. n \subseteq x /\ 0 .. n # x
    BY <1>3, <1>4
  <2>2. x \in SUBSET Nat
    BY <1>3
  <2> QED
    BY <1>2, <2>1, <2>2 DEF StrictSubsetOrdering
<1> QED
  BY <1>4

\* g holds the heaps after 0, 1, ..., n calls of new_page.
Grows(g, h, n) == g = [k \in 0 .. n |-> IF k = 0 THEN h ELSE TryPage(g[k - 1])]

LEMMA GrowsExists ==
    ASSUME NEW h, NEW n \in Nat PROVE \E g : Grows(g, h, n)
<1> DEFINE Bad == {m \in Nat : ~\E g : Grows(g, h, m)}
<1> SUFFICES ASSUME Bad # {} PROVE FALSE
  OBVIOUS
<1>1. PICK m \in Bad : \A k \in Bad : m <= k
  BY LeastNatural
<1>2. CASE m = 0
  <2> DEFINE g == [k \in 0 .. 0 |-> h]
  <2>1. Grows(g, h, 0)
    BY DEF Grows
  <2> QED
    BY <1>1, <1>2, <2>1
<1>3. CASE m # 0
  <2>1. m - 1 \in Nat /\ m - 1 \notin Bad
    BY <1>1, <1>3
  <2>2. PICK g : Grows(g, h, m - 1)
    BY <2>1
  <2> DEFINE last == TryPage(g[m - 1])
             f == [k \in 0 .. m |-> IF k < m THEN g[k] ELSE last]
  <2> HIDE DEF last
  <2>3. \A k \in 0 .. m - 1 : f[k] = g[k]
    BY <1>1
  <2>4. ASSUME NEW k \in 0 .. m
        PROVE  f[k] = IF k = 0 THEN h ELSE TryPage(f[k - 1])
    <3>1. CASE k = 0
      <4>1. 0 \in 0 .. m - 1
        BY <1>1, <1>3
      <4>2. g[0] = h
        BY <2>2, <4>1 DEF Grows
      <4> HIDE DEF f
      <4> QED
        BY <2>3, <3>1, <4>1, <4>2
    <3>2. CASE k > 0 /\ k < m
      <4>1. g[k] = TryPage(g[k - 1])
        BY <1>1, <2>2, <3>2 DEF Grows
      <4>2. f[k] = g[k] /\ f[k - 1] = g[k - 1]
        BY <1>1, <2>3, <3>2
      <4>3. k # 0
        BY <3>2
      <4> HIDE DEF f
      <4> QED
        BY <4>1, <4>2, <4>3
    <3>3. CASE k = m
      <4>1. k # 0 /\ k - 1 = m - 1 /\ k - 1 \in 0 .. m - 1
        BY <1>1, <1>3, <3>3
      <4>2. f[k - 1] = g[m - 1]
        BY <2>3, <4>1
      <4>3. f[k] = last
        BY <1>1, <3>3
      <4> HIDE DEF f
      <4> QED
        BY <3>3, <4>1, <4>2, <4>3 DEF last
    <3> QED
      BY <1>1, <3>1, <3>2, <3>3
  <2>5. Grows(f, h, m)
    <3>1. f = [k \in 0 .. m |-> f[k]]
      OBVIOUS
    <3> HIDE DEF f
    <3> QED
      BY <2>4, <3>1 DEF Grows
  <2> QED
    BY <1>1, <2>5
<1> QED
  BY <1>2, <1>3

LEMMA GrowIs ==
    ASSUME NEW h, NEW n \in Nat
    PROVE  \E g : Grows(g, h, n) /\ Grow(h, n) = g[n]
<1> DEFINE g == CHOOSE g : Grows(g, h, n)
<1>1. Grow(h, n) = g[n]
  BY DEF Grow, Grows
<1>2. Grows(g, h, n)
  BY GrowsExists
<1> QED
  BY <1>1, <1>2

LEMMA GrowGrowth ==
    ASSUME NEW h, Rec(h), NEW n \in Nat PROVE Growth(h, Grow(h, n))
<1>1. PICK g : Grows(g, h, n) /\ Grow(h, n) = g[n]
  BY GrowIs
<1> DEFINE Bad == {k \in 0 .. n : ~Growth(h, g[k])}
<1> SUFFICES ASSUME Bad # {} PROVE FALSE
  BY <1>1
<1>2. PICK k \in Bad : \A j \in Bad : k <= j
  <2>1. Bad \in SUBSET Nat
    OBVIOUS
  <2> HIDE DEF Bad
  <2> QED
    BY <2>1, LeastNatural
<1>3. CASE k = 0
  BY <1>1, <1>2, <1>3, FrameGrowth DEF Grows, Frame
<1>4. CASE k # 0
  <2>1. k - 1 \in 0 .. n /\ k - 1 \notin Bad /\ k \in 0 .. n
    BY <1>2, <1>4
  <2>4. g[k] = TryPage(g[k - 1])
    BY <1>1, <1>4, <2>1 DEF Grows
  <2>2. Growth(h, g[k - 1])
    BY <2>1
  <2>3. Growth(g[k - 1], g[k])
    BY <2>2, <2>4, PageGrowth DEF Growth
  <2> QED
    BY <1>2, <2>2, <2>3, GrowthTrans
<1> QED
  BY <1>3, <1>4

LEMMA AdjustedIn ==
    ASSUME NEW size \in Nat
    PROVE  /\ Adjusted(size) \in Nat /\ Adjusted(size) >= MINSIZE
           /\ Adjusted(size) % ALIGNMENT = 0
           /\ Adjusted(size) >= size + ALIGNMENT
<1>1. PICK k \in Int : k = (size + 3) \div 2
  OBVIOUS
<1>2. size + 3 = 2 * k \/ size + 3 = 2 * k + 1
  BY <1>1
<1>3. (2 * k) % 2 = 0
  BY <1>1
<1>4. Adjusted(size) = IF size < 2 THEN 4 ELSE 2 * k
  BY <1>1 DEF Adjusted, ALIGNMENT, MINSIZE
<1> QED
  BY <1>2, <1>3, <1>4 DEF ALIGNMENT, MINSIZE

LEMMA Quotient ==
    ASSUME NEW C \in Nat \ {0}, NEW x \in Nat
    PROVE  x \div C \in Nat /\ x = C * (x \div C) + (x % C) /\ x % C \in 0 .. C - 1
<1>1. x \div C \in Int /\ x = C * (x \div C) + (x % C)
  OBVIOUS
<1>2. x % C \in 0 .. C - 1
  OBVIOUS
<1>3. ASSUME x \div C < 0 PROVE FALSE
  <2>1. C * (x \div C) <= -C
    BY <1>1, <1>3
  <2> QED
    BY <1>1, <1>2, <2>1
<1> QED
  BY <1>1, <1>2, <1>3

\* The pages of a request come before the one that decides.
LEMMA PagesBefore ==
    ASSUME NEW size \in Nat
    PROVE  /\ Adjusted(size) \div PAGE_SZ \in Nat
           /\ Adjusted(size) < (Adjusted(size) \div PAGE_SZ) * PAGE_SZ + PAGE_SZ
<1>1. PICK a \in Nat : a = Adjusted(size)
  BY AdjustedIn
<1>2. PAGE_SZ \in Nat \ {0}
  BY PageAssumption DEF MINSIZE
<1>3. /\ a \div PAGE_SZ \in Nat
      /\ a = PAGE_SZ * (a \div PAGE_SZ) + (a % PAGE_SZ) /\ a % PAGE_SZ \in 0 .. PAGE_SZ - 1
  BY <1>2, Quotient
<1>4. PAGE_SZ * (a \div PAGE_SZ) = (a \div PAGE_SZ) * PAGE_SZ
  BY <1>2, <1>3
<1>5. PAGE_SZ * (a \div PAGE_SZ) \in Nat
  BY <1>2, <1>3
<1> QED
  BY <1>1, <1>2, <1>3, <1>4, <1>5

Greedy(h, answer) ==
    /\ Growth(h, answer.heap)
    /\ answer.errno = "ENOMEM" /\ h.end \in PageEnds => answer.heap.end = Pages * PAGE_SZ

LEMMA MallocGrowth ==
    ASSUME NEW h, Rec(h), NEW size \in Nat PROVE Greedy(h, Malloc(h, size))
<1> DEFINE asize == Adjusted(size)
           grown == Grow(h, asize \div PAGE_SZ)
<1>1. Growth(h, grown)
  BY PagesBefore, GrowGrowth
<1>2. ASSUME NEW f, f # "none" PROVE Greedy(h, Stop(h, f))
  <2>1. Growth(h, [h EXCEPT !.fault = f])
    BY <1>2, FaultFrame, FrameGrowth
  <2> QED
    BY <2>1 DEF Stop, Answer, Greedy
<1>3. ASSUME NEW fit PROVE Greedy(h, Answer(Place(h, fit, asize, size), fit, "none"))
  BY PlaceFrame, FrameGrowth DEF Answer, Greedy
<1>4. Greedy(h, Extend(grown, asize, size))
  <2> DEFINE last == TryPage(grown).end - LastSize(TryPage(grown))
  <2>1. Growth(h, TryPage(grown))
    BY <1>1, PageGrowth, GrowthTrans DEF Growth
  <2>2. Growth(h, Place(TryPage(grown), last, asize, size))
    <3> HIDE DEF last, grown
    <3>1. Rec(TryPage(grown))
      BY <2>1 DEF Growth
    <3>2. Growth(TryPage(grown), Place(TryPage(grown), last, asize, size))
      BY <3>1, PlaceFrame, FrameGrowth
    <3> QED
      BY <2>1, <3>2, GrowthTrans
  <2>3. CASE CanGrow(grown)
    <3>1. Extend(grown, asize, size) = Answer(Place(TryPage(grown), last, asize, size), last, "none")
      BY <2>3 DEF Extend
    <3> HIDE DEF last, grown
    <3> QED
      BY <2>2, <3>1 DEF Answer, Greedy
  <2>4. CASE ~CanGrow(grown)
    <3>1. Extend(grown, asize, size) = Answer(TryPage(grown), Null, "ENOMEM")
      BY <2>4 DEF Extend
    <3>2. TryPage(grown) = grown
      BY <2>4 DEF TryPage
    <3>3. ASSUME h.end \in PageEnds PROVE grown.end = Pages * PAGE_SZ
      <4>1. grown.end \in PageEnds /\ ~(grown.end < Pages * PAGE_SZ)
        BY <1>1, <2>4, <3>3 DEF CanGrow, Growth
      <4>2. Pages * PAGE_SZ \in Nat
        BY PageAssumption, BoundsAssumption
      <4> QED
        BY <4>1, <4>2, PageEndIn
    <3> HIDE DEF grown
    <3> QED
      BY <2>1, <3>1, <3>2, <3>3 DEF Answer, Greedy
  <2> QED
    BY <2>3, <2>4
<1>5. ASSUME NEW fit PROVE Greedy(h, Satisfy(h, asize, size, fit))
  BY <1>2, <1>3, <1>4 DEF Satisfy
<1>6. Greedy(h, Answer(h, Null, "EINVAL"))
  BY FrameGrowth DEF Answer, Greedy, Frame
<1> QED
  BY <1>5, <1>6 DEF Malloc

LEMMA ReallocGrowth ==
    ASSUME NEW h, Rec(h), NEW p, NEW size \in Nat PROVE Greedy(h, Realloc(h, p, size))
<1> DEFINE new == Malloc(h, size)
<1>1. Greedy(h, new)
  BY MallocGrowth
<1>2. ASSUME NEW g, Frame(h, g), NEW b PROVE Greedy(h, Answer(g, b, "none"))
  BY <1>2, FrameGrowth DEF Answer, Greedy
<1>3. Greedy(h, Carry(p, Footer(h, p), new))
  <2> HIDE DEF new
  <2> DEFINE n == TagAt(new.heap, Footer(h, p)).requested_size
             freed == Free(Move(new.heap, new.block, p, n), p)
  <2>1. Growth(h, new.heap) /\ Rec(new.heap)
    BY <1>1 DEF Greedy, Growth
  <2>2. Frame(new.heap, freed)
    BY <2>1, MoveFrame, FreeFrame, FrameTrans DEF Frame
  <2>3. Growth(h, freed)
    BY <2>1, <2>2, FrameGrowth, GrowthTrans
  <2> HIDE DEF freed
  <2>4. Greedy(h, Answer(freed, new.block, "none"))
    BY <2>3 DEF Answer, Greedy
  <2> QED
    BY <1>1, <2>4 DEF Carry, freed
<1>4. Greedy(h, Stop(h, "abort"))
  BY FaultFrame, FrameGrowth DEF Stop, Answer, Greedy
<1>5. Greedy(h, Answer(Free(h, p), Null, "none"))
  BY <1>2, FreeFrame
<1>6. Greedy(h, Answer(Shrink(h, p, size), p, "none"))
  BY <1>2, ShrinkFrame
<1>7. Greedy(h, Answer(h, Null, "none"))
  BY <1>2 DEF Frame
<1> HIDE DEF new
<1>8. \/ Realloc(h, p, size) = Stop(h, "abort")
      \/ Realloc(h, p, size) = Answer(Free(h, p), Null, "none")
      \/ Realloc(h, p, size) = Carry(p, Footer(h, p), new)
      \/ Realloc(h, p, size) = Answer(Shrink(h, p, size), p, "none")
      \/ Realloc(h, p, size) = Answer(h, Null, "none")
  BY DEF Realloc, new
<1> QED
  BY <1>3, <1>4, <1>5, <1>6, <1>7, <1>8

LEMMA TakeGrowth ==
    ASSUME NEW h, NEW answer, Greedy(h, answer), NEW g, NEW size, NEW kept,
           Take(g, size, answer, kept), h = heap
    PROVE  /\ Growth(heap, heap')
           /\ heap.end \in PageEnds /\ sf_errno' = "ENOMEM" =>
                sf_errno = "ENOMEM" \/ heap'.end = Pages * PAGE_SZ
<1>1. Rec(answer.heap) /\ Growth(h, answer.heap)
  BY DEF Greedy, Growth
<1>2. heap' = IF answer.block = Null THEN answer.heap
              ELSE Write(answer.heap, g, answer.block, kept + 1, size)
  BY DEF Take
<1>3. Frame(answer.heap, heap')
  BY <1>1, <1>2, WriteFrame DEF Frame
<1>4. sf_errno' = IF answer.errno = "none" THEN sf_errno ELSE answer.errno
  BY DEF Take
<1>5. Growth(heap, heap')
  BY <1>1, <1>3, FrameGrowth, GrowthTrans
<1> QED
  BY <1>3, <1>4, <1>5 DEF Greedy, Frame

LEMMA StepGrowth ==
    ASSUME Rec(heap), [Next]_vars
    PROVE  /\ Growth(heap, heap')
           /\ heap.end \in PageEnds /\ sf_errno' = "ENOMEM" =>
                sf_errno = "ENOMEM" \/ heap'.end = Pages * PAGE_SZ
<1>1. ASSUME NEW g \in Grants, NEW size \in Sizes, SfMalloc(g, size)
      PROVE  /\ Growth(heap, heap')
             /\ heap.end \in PageEnds /\ sf_errno' = "ENOMEM" =>
                  sf_errno = "ENOMEM" \/ heap'.end = Pages * PAGE_SZ
  <2>1. Greedy(heap, Malloc(heap, size)) /\ Take(g, size, Malloc(heap, size), 0)
    BY <1>1, MallocGrowth, BoundsAssumption DEF SfMalloc
  <2> QED
    BY <2>1, TakeGrowth
<1>2. ASSUME NEW g \in Grants, NEW size \in Sizes, SfRealloc(g, size)
      PROVE  /\ Growth(heap, heap')
             /\ heap.end \in PageEnds /\ sf_errno' = "ENOMEM" =>
                  sf_errno = "ENOMEM" \/ heap'.end = Pages * PAGE_SZ
  <2>1. /\ Greedy(heap, Realloc(heap, grants[g].ptr, size))
        /\ Take(g, size, Realloc(heap, grants[g].ptr, size), grants[g].size)
    BY <1>2, ReallocGrowth, BoundsAssumption DEF SfRealloc
  <2> QED
    BY <2>1, TakeGrowth
<1>3. ASSUME NEW g \in Grants, SfFree(g)
      PROVE  Growth(heap, heap') /\ sf_errno' = sf_errno
  BY <1>3, FreeFrame, FrameGrowth DEF SfFree
<1>4. ASSUME UNCHANGED vars PROVE Growth(heap, heap') /\ sf_errno' = sf_errno
  BY <1>4, FrameGrowth DEF vars, Frame
<1> QED
  BY <1>1, <1>2, <1>3, <1>4 DEF Next

MemoryInv == Rec(heap) /\ heap.end \in PageEnds /\ NoMemoryLeft

\* ENOMEM is answered only when sf_sbrk has given its last page, whatever the
\* lists are in: the last call of new_page in sf_malloc's loop decides, and a
\* heap never shrinks.
THEOREM NoMemoryLeftCorrect == Spec => []NoMemoryLeft
<1>1. Init => MemoryInv
  <2> SUFFICES ASSUME Init PROVE MemoryInv
    OBVIOUS
  <2>1. Rec(heap) /\ heap.end = 0 /\ sf_errno = "none"
    BY DEF Init, Rec
  <2>2. 0 \in PageEnds
    BY PageAssumption, BoundsAssumption DEF PageEnds
  <2> QED
    BY <2>1, <2>2 DEF MemoryInv, NoMemoryLeft
<1>2. MemoryInv /\ [Next]_vars => MemoryInv'
  <2> SUFFICES ASSUME MemoryInv, [Next]_vars PROVE MemoryInv'
    OBVIOUS
  <2>1. Growth(heap, heap') /\ (sf_errno' = "ENOMEM" => sf_errno = "ENOMEM" \/ heap'.end = Pages * PAGE_SZ)
    BY StepGrowth DEF MemoryInv
  <2>2. Rec(heap') /\ heap'.end \in PageEnds /\ heap.end <= heap'.end /\ heap.end \in PageEnds
    BY <2>1 DEF Growth, MemoryInv
  <2>3. heap.end = Pages * PAGE_SZ => heap'.end = Pages * PAGE_SZ
    BY <2>2, PageEndIn
  <2> QED
    BY <2>1, <2>2, <2>3 DEF MemoryInv, NoMemoryLeft, Rec
<1>3. MemoryInv => NoMemoryLeft
  BY DEF MemoryInv
<1> QED
  BY <1>1, <1>2, <1>3, PTL DEF Spec

-----------------------------------------------------------------------------
(* Words and heaps *)

TagWords  == [allocated : {0, 1}, padded : {0, 1}, block_size : Nat, requested_size : Nat]
LinkWords == [to : Rows \cup {Null, Wild}]
DataWords == [grant : Grants]
Words     == TagWords \cup LinkWords \cup DataWords

Heaps ==
    [mem : [Rows -> Words], head : [Lists -> Rows \cup {Null}], end : Nat,
     fault : {"none", "wild", "loop", "abort"}, disordered : BOOLEAN]

LEMMA WordKinds ==
    /\ \A w \in TagWords : IsTag(w) /\ ~IsLink(w)
    /\ \A w \in LinkWords : IsLink(w) /\ ~IsTag(w)
    /\ \A w \in DataWords : ~IsLink(w) /\ ~IsTag(w)
<1>1. ASSUME NEW w \in TagWords PROVE IsTag(w) /\ ~IsLink(w)
  <2>1. DOMAIN w = {"allocated", "padded", "block_size", "requested_size"}
    BY DEF TagWords
  <2> QED
    BY <2>1 DEF IsTag, IsLink
<1>2. ASSUME NEW w \in LinkWords PROVE IsLink(w) /\ ~IsTag(w)
  <2>1. DOMAIN w = {"to"}
    BY DEF LinkWords
  <2> QED
    BY <2>1 DEF IsTag, IsLink
<1>3. ASSUME NEW w \in DataWords PROVE ~IsLink(w) /\ ~IsTag(w)
  <2>1. DOMAIN w = {"grant"}
    BY DEF DataWords
  <2> QED
    BY <2>1 DEF IsTag, IsLink
<1> QED
  BY <1>1, <1>2, <1>3

LEMMA RowsIn ==
    /\ Rows \subseteq Nat /\ Null \notin Rows /\ Wild \notin Rows /\ Null # Wild
    /\ Loop \notin Rows /\ Loop # Null /\ Loop # Wild
    /\ \A r \in Rows : \A q \in Nat : q <= r => q \in Rows
    /\ \A e \in PageEnds : \A r \in Nat : r < e => r \in Rows
<1>1. Pages * PAGE_SZ \in Nat
  BY PageAssumption, BoundsAssumption
<1>2. \A e \in PageEnds : e <= Pages * PAGE_SZ /\ e \in Nat
  BY PageEndIn
<1> QED
  BY <1>1, <1>2 DEF Rows, Null, Wild, Loop

LEMMA WordsIn ==
    /\ \A w \in Words : IsTag(w) => w \in TagWords
    /\ \A w \in Words : IsLink(w) => w \in LinkWords
    /\ \A q \in Rows \cup {Null, Wild} : Link(q) \in LinkWords /\ Link(q).to = q
    /\ \A g \in Grants : Data(g) \in DataWords
    /\ Zero = Link(Null)
<1>1. \A q \in Rows \cup {Null, Wild} : Link(q) \in LinkWords /\ Link(q).to = q
  BY DEF Link, LinkWords
<1>2. \A g \in Grants : Data(g) \in DataWords
  BY DEF Data, DataWords
<1> QED
  BY <1>1, <1>2, WordKinds DEF Words, Zero

LEMMA TagIn ==
    ASSUME NEW a \in {0, 1}, NEW d \in {0, 1}, NEW s \in Nat, NEW r \in Nat
    PROVE  /\ Tag(a, d, s, r) \in TagWords
           /\ Tag(a, d, s, r).allocated = a /\ Tag(a, d, s, r).padded = d
           /\ Tag(a, d, s, r).block_size = s /\ Tag(a, d, s, r).requested_size = r
  BY DEF Tag, TagWords

LEMMA TagFields ==
    ASSUME NEW w \in TagWords
    PROVE  /\ w.allocated \in {0, 1} /\ w.padded \in {0, 1}
           /\ w.block_size \in Nat /\ w.requested_size \in Nat
  BY DEF TagWords

LEMMA HeapFields ==
    ASSUME NEW h \in Heaps
    PROVE  /\ Rec(h) /\ h.mem \in [Rows -> Words] /\ h.head \in [Lists -> Rows \cup {Null}]
           /\ h.end \in Nat /\ h.disordered \in BOOLEAN
           /\ h.fault \in {"none", "wild", "loop", "abort"}
  BY DEF Heaps, Rec

\* What a write of one row leaves alone.
Keeps(h, g) ==
    h \in Heaps /\ g \in Heaps /\ g.end = h.end /\ g.disordered = h.disordered

Wrote(h, g, p, w) ==
    /\ Keeps(h, g) /\ g.head = h.head
    /\ \A r \in Rows : g.mem[r] = IF r = p THEN w ELSE h.mem[r]

LEMMA StoreWrites ==
    ASSUME NEW h \in Heaps, NEW p, NEW w \in Words
    PROVE  Wrote(h, Store(h, p, w), p, w)
<1>1. CASE p \in Rows
  <2> DEFINE m == [h.mem EXCEPT ![p] = w]
  <2>1. Store(h, p, w) = [h EXCEPT !.mem = m]
    BY <1>1 DEF Store
  <2>2. m \in [Rows -> Words] /\ \A r \in Rows : m[r] = IF r = p THEN w ELSE h.mem[r]
    BY <1>1, HeapFields
  <2> HIDE DEF m
  <2>3. [h EXCEPT !.mem = m] \in Heaps
    BY <2>2 DEF Heaps
  <2> QED
    BY <2>1, <2>2, <2>3 DEF Wrote, Keeps, Heaps
<1>2. CASE p \notin Rows
  <2>1. Store(h, p, w) = [h EXCEPT !.fault = "wild"]
    BY <1>2 DEF Store
  <2>2. [h EXCEPT !.fault = "wild"] \in Heaps
    BY DEF Heaps
  <2> QED
    BY <1>2, <2>1, <2>2 DEF Wrote, Keeps, Heaps
<1> QED
  BY <1>1, <1>2

LEMMA LinkWrites ==
    ASSUME NEW h \in Heaps, NEW p, NEW q \in Rows \cup {Null, Wild}
    PROVE  Wrote(h, SetNext(h, p, q), p + 1, Link(q)) /\ Wrote(h, SetPrev(h, p, q), p + 2, Link(q))
<1>1. Link(q) \in Words
  BY WordsIn DEF Words
<1> QED
  BY <1>1, StoreWrites DEF SetNext, SetPrev

\* A write of a head, or of the fault alone.
LEMMA HeadWrites ==
    ASSUME NEW h \in Heaps, NEW i \in Lists, NEW p \in Rows \cup {Null}
    PROVE  LET g == [h EXCEPT !.head[i] = p]
           IN  /\ Keeps(h, g) /\ g.mem = h.mem
               /\ \A j \in Lists : g.head[j] = IF j = i THEN p ELSE h.head[j]
<1> DEFINE d == [h.head EXCEPT ![i] = p]
<1>1. d \in [Lists -> Rows \cup {Null}] /\ \A j \in Lists : d[j] = IF j = i THEN p ELSE h.head[j]
  BY HeapFields
<1> HIDE DEF d
<1>2. [h EXCEPT !.head = d] \in Heaps
  BY <1>1 DEF Heaps
<1>3. [h EXCEPT !.head[i] = p] = [h EXCEPT !.head = d]
  BY DEF d
<1> QED
  BY <1>1, <1>2, <1>3 DEF Keeps, Heaps

LEMMA FaultWrites ==
    ASSUME NEW h \in Heaps, NEW f \in {"wild", "loop", "abort"}
    PROVE  LET g == [h EXCEPT !.fault = f]
           IN  Keeps(h, g) /\ g.mem = h.mem /\ g.head = h.head
<1>1. [h EXCEPT !.fault = f] \in Heaps
  BY DEF Heaps
<1> QED
  BY <1>1 DEF Keeps, Heaps

\* Reading a row of a heap.
LEMMA LinkReads ==
    ASSUME NEW h \in Heaps, NEW r
    PROVE  /\ LinkAt(h, r) \in Rows \cup {Null, Wild}
           /\ r \notin Rows => LinkAt(h, r) = Wild
           /\ r \in Rows => \A q \in Rows \cup {Null, Wild} : h.mem[r] = Link(q) => LinkAt(h, r) = q
           /\ \A g \in Heaps : (r \in Rows => g.mem[r] = h.mem[r]) => LinkAt(g, r) = LinkAt(h, r)
           /\ r \in Rows /\ h.mem[r] \in TagWords \cup DataWords => LinkAt(h, r) = Wild
<1>1. ASSUME r \in Rows PROVE h.mem[r] \in Words
  BY <1>1, HeapFields
<1>2. ASSUME r \in Rows, IsLink(h.mem[r]) PROVE h.mem[r].to \in Rows \cup {Null, Wild}
  BY <1>1, <1>2, WordsIn DEF LinkWords
<1>3. ASSUME r \in Rows, NEW q \in Rows \cup {Null, Wild}, h.mem[r] = Link(q) PROVE LinkAt(h, r) = q
  BY <1>3, WordsIn, WordKinds DEF LinkAt
<1>4. ASSUME r \in Rows, h.mem[r] \in TagWords \cup DataWords PROVE LinkAt(h, r) = Wild
  BY <1>4, WordKinds DEF LinkAt
<1> QED
  BY <1>2, <1>3, <1>4 DEF LinkAt

LEMMA TagReads ==
    ASSUME NEW h \in Heaps, NEW p \in Rows
    PROVE  /\ h.mem[p] \in TagWords => TagAt(h, p) = h.mem[p] /\ IsTag(h.mem[p])
           /\ h.mem[p] \notin TagWords => TagAt(h, p) = Tag(0, 0, 0, 0) /\ ~IsTag(h.mem[p])
<1>1. h.mem[p] \in Words
  BY HeapFields
<1> QED
  BY <1>1, WordKinds, WordsIn DEF TagAt

-----------------------------------------------------------------------------
(* Blocks that tile a part of the heap *)

Size(h, p)  == h.mem[p].block_size
Last(h, p)  == p + Size(h, p) - 1

Block(h, p) ==
    /\ p \in Rows /\ h.mem[p] \in TagWords
    /\ Size(h, p) >= MINSIZE /\ Size(h, p) % ALIGNMENT = 0
    /\ Last(h, p) \in Rows /\ h.mem[Last(h, p)] \in TagWords
    /\ h.mem[Last(h, p)].allocated = h.mem[p].allocated
    /\ h.mem[Last(h, p)].padded = h.mem[p].padded
    /\ h.mem[Last(h, p)].block_size = Size(h, p)
    /\ h.mem[p].allocated = 0 => h.mem[p].padded = 0

\* The blocks in B tile the rows from lo to hi, without hi.
Tiles(h, B, lo, hi) ==
    /\ \A p \in B : lo <= p /\ p < hi
    /\ \A p \in B : Block(h, p) /\ p + Size(h, p) \in B \cup {hi}
    /\ \A p, q \in B : p < q => p + Size(h, p) <= q
    /\ lo < hi => lo \in B

LEMMA BlockIn ==
    ASSUME NEW h, NEW p, Block(h, p)
    PROVE  /\ p \in Nat /\ Size(h, p) \in Nat /\ Size(h, p) >= 4
           /\ Last(h, p) \in Nat /\ Last(h, p) = p + Size(h, p) - 1
           /\ p + 1 \in Rows /\ p + 2 \in Rows /\ p + 1 # Last(h, p) /\ p + 2 # Last(h, p)
<1>1. p \in Nat /\ Size(h, p) \in Nat /\ Size(h, p) >= 4
  BY RowsIn, TagFields DEF Block, Size, MINSIZE
<1>2. Last(h, p) \in Rows /\ Last(h, p) = p + Size(h, p) - 1
  BY DEF Block, Last
<1>3. p + 1 \in Rows /\ p + 2 \in Rows
  BY <1>1, <1>2, RowsIn
<1> QED
  BY <1>1, <1>2, <1>3

LEMMA TilesLast ==
    ASSUME NEW h, NEW B, NEW lo \in Nat, NEW hi \in Nat, Tiles(h, B, lo, hi), lo < hi
    PROVE  \E p \in B : p + Size(h, p) = hi
<1> DEFINE Left == {n \in Nat : \E p \in B : n = hi - p}
<1>1. hi - lo \in Left
  BY DEF Tiles
<1>2. PICK n \in Left : \A m \in Left : n <= m
  <2>1. Left \in SUBSET Nat /\ Left # {}
    BY <1>1
  <2> HIDE DEF Left
  <2> QED
    BY <2>1, LeastNatural
<1>3. PICK p \in B : n = hi - p
  BY <1>2
<1>4. Block(h, p) /\ p + Size(h, p) \in B \cup {hi}
  BY <1>3 DEF Tiles
<1>5. ASSUME p + Size(h, p) \in B PROVE FALSE
  <2>1. p + Size(h, p) < hi /\ p \in Nat /\ Size(h, p) \in Nat /\ Size(h, p) >= 4
    BY <1>4, <1>5, BlockIn DEF Tiles
  <2>2. hi - (p + Size(h, p)) \in Left
    BY <1>5, <2>1
  <2> QED
    BY <1>2, <1>3, <2>1, <2>2
<1> QED
  BY <1>3, <1>4, <1>5

Below(B, a) == {q \in B : q < a}
From(B, b)  == {q \in B : q >= b}

LEMMA TilesBelow ==
    ASSUME NEW h, NEW B, NEW lo \in Nat, NEW hi \in Nat, Tiles(h, B, lo, hi), lo <= hi,
           NEW a \in B \cup {hi}
    PROVE  Tiles(h, Below(B, a), lo, a) /\ a \in Nat /\ lo <= a /\ a <= hi
<1>1. \A p \in B : p \in Nat /\ Size(h, p) \in Nat /\ Size(h, p) >= 4
  BY BlockIn DEF Tiles
<1>2. a \in Nat /\ lo <= a /\ a <= hi
  BY <1>1 DEF Tiles
<1>3. ASSUME NEW p \in Below(B, a) PROVE p + Size(h, p) \in Below(B, a) \cup {a}
  <2>1. p \in B /\ p < a
    BY <1>3 DEF Below
  <2>2. p + Size(h, p) \in B \cup {hi} /\ p + Size(h, p) <= a
    BY <1>1, <1>2, <2>1 DEF Tiles
  <2> QED
    BY <1>1, <1>2, <2>1, <2>2 DEF Below
<1>4. lo < a => lo \in Below(B, a)
  BY <1>2 DEF Tiles, Below
<1> QED
  BY <1>2, <1>3, <1>4 DEF Tiles, Below

LEMMA TilesFrom ==
    ASSUME NEW h, NEW B, NEW lo \in Nat, NEW hi \in Nat, Tiles(h, B, lo, hi), lo <= hi,
           NEW b \in B \cup {hi}
    PROVE  Tiles(h, From(B, b), b, hi)
<1>1. \A p \in B : p \in Nat /\ Size(h, p) \in Nat /\ Size(h, p) >= 4
  BY BlockIn DEF Tiles
<1>2. ASSUME NEW p \in From(B, b) PROVE p + Size(h, p) \in From(B, b) \cup {hi}
  BY <1>1, <1>2 DEF Tiles, From
<1>3. b < hi => b \in From(B, b)
  BY <1>1 DEF From
<1> QED
  BY <1>2, <1>3 DEF Tiles, From

LEMMA TilesJoined ==
    ASSUME NEW h, NEW B, NEW C, NEW lo \in Nat, NEW mid \in Nat, NEW hi \in Nat,
           Tiles(h, B, lo, mid), Tiles(h, C, mid, hi), lo <= mid, mid <= hi
    PROVE  Tiles(h, B \cup C, lo, hi)
<1>1. \A p \in B \cup C : p \in Nat /\ Size(h, p) \in Nat /\ Size(h, p) >= 4
  BY BlockIn DEF Tiles
<1>2. ASSUME NEW p \in B \cup C PROVE lo <= p /\ p < hi
  BY <1>1, <1>2 DEF Tiles
<1>3. mid \in C \cup {hi}
  BY DEF Tiles
<1>4. ASSUME NEW p \in B PROVE p + Size(h, p) \in B \cup C \cup {hi} /\ p + Size(h, p) <= mid
  BY <1>1, <1>3, <1>4 DEF Tiles
<1>5. ASSUME NEW p \in B \cup C, NEW q \in B \cup C, p < q PROVE p + Size(h, p) <= q
  <2>1. CASE p \in B /\ q \in C
    BY <1>1, <1>4, <2>1 DEF Tiles
  <2>2. CASE p \in C /\ q \in B
    <3>1. q < mid /\ mid <= p
      BY <2>2 DEF Tiles
    <3> QED
      BY <1>1, <1>5, <3>1
  <2> QED
    BY <1>5, <2>1, <2>2 DEF Tiles
<1>6. lo < hi => lo \in B \cup C
  BY DEF Tiles
<1> QED
  BY <1>2, <1>4, <1>5, <1>6 DEF Tiles

\* Only the headers and footers matter.
LEMMA BlockKept ==
    ASSUME NEW h, NEW g, NEW p, Block(h, p),
           g.mem[p] = h.mem[p], g.mem[Last(h, p)] = h.mem[Last(h, p)]
    PROVE  Block(g, p) /\ Size(g, p) = Size(h, p) /\ Last(g, p) = Last(h, p)
  BY DEF Block, Size, Last

LEMMA TilesKept ==
    ASSUME NEW h, NEW g, NEW B, NEW lo \in Nat, NEW hi \in Nat, Tiles(h, B, lo, hi),
           \A p \in B : g.mem[p] = h.mem[p] /\ g.mem[Last(h, p)] = h.mem[Last(h, p)]
    PROVE  Tiles(g, B, lo, hi)
<1>1. \A p \in B : Block(g, p) /\ Size(g, p) = Size(h, p)
  BY BlockKept DEF Tiles
<1> QED
  BY <1>1 DEF Tiles

\* The blocks of a part of the heap are replaced.
Replaced(B, a, b, C) == Below(B, a) \cup C \cup From(B, b)

\* They are followed by the blocks from b on, or by nothing, in a heap that may
\* have become longer.
LEMMA TilesReplaced ==
    ASSUME NEW h, NEW g, NEW B, NEW hi \in Nat, Tiles(h, B, 0, hi),
           NEW a \in B \cup {hi}, NEW b \in B \cup {hi}, a <= b,
           NEW C, NEW e \in Nat, NEW top \in Nat, Tiles(g, C, a, e), a <= e,
           (e = b /\ top = hi) \/ (b = hi /\ top = e),
           \A p \in B : p < a \/ p >= b =>
               g.mem[p] = h.mem[p] /\ g.mem[Last(h, p)] = h.mem[Last(h, p)]
    PROVE  Tiles(g, Replaced(B, a, b, C), 0, top)
<1>1. Tiles(h, Below(B, a), 0, a) /\ Tiles(h, From(B, b), b, hi)
      /\ a \in Nat /\ b \in Nat /\ a <= hi /\ b <= hi
  <2>1. 0 \in Nat /\ 0 <= hi
    OBVIOUS
  <2>2. Tiles(h, Below(B, a), 0, a) /\ a \in Nat /\ a <= hi
    BY <2>1, TilesBelow
  <2>3. Tiles(h, From(B, b), b, hi)
    BY <2>1, TilesFrom
  <2>4. b \in Nat /\ b <= hi
    BY <2>1, TilesBelow
  <2> QED
    BY <2>2, <2>3, <2>4
<1>2. Tiles(g, Below(B, a), 0, a)
  <2>1. \A p \in Below(B, a) : g.mem[p] = h.mem[p] /\ g.mem[Last(h, p)] = h.mem[Last(h, p)]
    BY DEF Below
  <2> QED
    BY <1>1, <2>1, TilesKept
<1>3. Tiles(g, From(B, b), b, hi)
  <2>1. \A p \in From(B, b) : g.mem[p] = h.mem[p] /\ g.mem[Last(h, p)] = h.mem[Last(h, p)]
    BY DEF From
  <2> QED
    BY <1>1, <2>1, TilesKept
<1>4. Tiles(g, Below(B, a) \cup C, 0, e)
  BY <1>1, <1>2, TilesJoined
<1>5. CASE e = b /\ top = hi
  BY <1>1, <1>3, <1>4, <1>5, TilesJoined DEF Replaced
<1>6. CASE b = hi /\ top = e
  <2>1. From(B, b) = {}
    <3>1. ASSUME NEW p \in B, p >= b PROVE FALSE
      <4>1. Block(h, p) /\ p < hi
        BY DEF Tiles
      <4> QED
        BY <1>6, <3>1, <4>1, BlockIn
    <3> QED
      BY <3>1 DEF From
  <2> QED
    BY <1>4, <1>6, <2>1 DEF Replaced
<1> QED
  BY <1>5, <1>6

LEMMA TilesSingle ==
    ASSUME NEW h, NEW p, Block(h, p) PROVE Tiles(h, {p}, p, p + Size(h, p))
  BY BlockIn DEF Tiles

\* Blocks do not overlap.
LEMMA Apart ==
    ASSUME NEW h, NEW B, NEW hi \in Nat, Tiles(h, B, 0, hi), NEW p \in B, NEW q \in B, p # q
    PROVE  p + Size(h, p) <= q \/ q + Size(h, q) <= p
  BY BlockIn DEF Tiles

LEMMA TilesInside ==
    ASSUME NEW h, NEW B, NEW hi \in Nat, Tiles(h, B, 0, hi), NEW p \in B
    PROVE  /\ Block(h, p) /\ p + Size(h, p) <= hi /\ p + Size(h, p) \in B \cup {hi} /\ p < hi
           /\ \A r \in p .. p + Size(h, p) - 1 : r \in Rows /\ r < hi
<1>1. Block(h, p) /\ p + Size(h, p) \in B \cup {hi} /\ p < hi
  BY DEF Tiles
<1>2. p + Size(h, p) <= hi
  <2>1. p + Size(h, p) \in Nat
    BY <1>1, BlockIn
  <2> QED
    BY <1>1, <2>1 DEF Tiles
<1>3. p \in Nat /\ Size(h, p) \in Nat /\ Last(h, p) \in Rows /\ Last(h, p) = p + Size(h, p) - 1
  BY <1>1, BlockIn DEF Block
<1> QED
  BY <1>1, <1>2, <1>3, RowsIn

LEMMA StartIn ==
    ASSUME NEW h, NEW B, NEW hi \in Nat, Tiles(h, B, 0, hi), NEW x \in B \cup {hi}
    PROVE  x \in Nat /\ x <= hi
<1>1. CASE x = hi
  BY <1>1
<1>2. CASE x \in B
  <2>1. Block(h, x) /\ x < hi
    BY <1>2 DEF Tiles
  <2> QED
    BY <2>1, BlockIn
<1> QED
  BY <1>1, <1>2

-----------------------------------------------------------------------------
(* Searching a list *)

\* x, f[x], f[f[x]], ... up to the n-th.
Iterates(g, f, x, n) == g = [k \in 0 .. n |-> IF k = 0 THEN x ELSE f[g[k - 1]]]

LEMMA IteratesExists ==
    ASSUME NEW f, NEW x, NEW n \in Nat PROVE \E g : Iterates(g, f, x, n)
<1> DEFINE Bad == {m \in Nat : ~\E g : Iterates(g, f, x, m)}
<1> SUFFICES ASSUME Bad # {} PROVE FALSE
  OBVIOUS
<1>1. PICK m \in Bad : \A k \in Bad : m <= k
  BY LeastNatural
<1>2. CASE m = 0
  <2> DEFINE g == [k \in 0 .. 0 |-> x]
  <2>1. Iterates(g, f, x, 0)
    BY DEF Iterates
  <2> QED
    BY <1>1, <1>2, <2>1
<1>3. CASE m # 0
  <2>1. m - 1 \in Nat /\ m - 1 \notin Bad
    BY <1>1, <1>3
  <2>2. PICK g : Iterates(g, f, x, m - 1)
    BY <2>1
  <2> DEFINE last == f[g[m - 1]]
             e == [k \in 0 .. m |-> IF k < m THEN g[k] ELSE last]
  <2> HIDE DEF last
  <2>3. \A k \in 0 .. m - 1 : e[k] = g[k]
    BY <1>1
  <2>4. ASSUME NEW k \in 0 .. m
        PROVE  e[k] = IF k = 0 THEN x ELSE f[e[k - 1]]
    <3>1. CASE k = 0
      <4>1. 0 \in 0 .. m - 1
        BY <1>1, <1>3
      <4>2. g[0] = x
        BY <2>2, <4>1 DEF Iterates
      <4> HIDE DEF e
      <4> QED
        BY <2>3, <3>1, <4>1, <4>2
    <3>2. CASE k > 0 /\ k < m
      <4>1. g[k] = f[g[k - 1]]
        <5>1. k \in 0 .. m - 1 /\ k # 0
          BY <1>1, <3>2
        <5> QED
          BY <2>2, <5>1 DEF Iterates
      <4>2. e[k] = g[k] /\ e[k - 1] = g[k - 1]
        BY <1>1, <2>3, <3>2
      <4>3. k # 0
        BY <3>2
      <4> HIDE DEF e
      <4> QED
        BY <4>1, <4>2, <4>3
    <3>3. CASE k = m
      <4>1. k # 0 /\ k - 1 = m - 1 /\ k - 1 \in 0 .. m - 1
        BY <1>1, <1>3, <3>3
      <4>2. e[k - 1] = g[m - 1]
        BY <2>3, <4>1
      <4>3. e[k] = last
        BY <1>1, <3>3
      <4> HIDE DEF e
      <4> QED
        BY <3>3, <4>1, <4>2, <4>3 DEF last
    <3> QED
      BY <1>1, <3>1, <3>2, <3>3
  <2>5. Iterates(e, f, x, m)
    <3>1. e = [k \in 0 .. m |-> e[k]]
      OBVIOUS
    <3> HIDE DEF e
    <3> QED
      BY <2>4, <3>1 DEF Iterates
  <2> QED
    BY <1>1, <2>5
<1> QED
  BY <1>2, <1>3

\* What f leads to from a member of a set that f does not lead out of.
LEMMA IteratesIn ==
    ASSUME NEW f, NEW x, NEW n \in Nat, NEW g, Iterates(g, f, x, n),
           NEW S, x \in S, \A y \in S : f[y] \in S
    PROVE  \A k \in 0 .. n : g[k] \in S
<1> DEFINE Bad == {k \in 0 .. n : g[k] \notin S}
<1> SUFFICES ASSUME Bad # {} PROVE FALSE
  OBVIOUS
<1>1. PICK k \in Bad : \A j \in Bad : k <= j
  <2>1. Bad \in SUBSET Nat
    OBVIOUS
  <2> HIDE DEF Bad
  <2> QED
    BY <2>1, LeastNatural
<1>2. k \in 0 .. n /\ g[k] \notin S
  BY <1>1
<1>3. k # 0
  BY <1>2 DEF Iterates
<1>4. k - 1 \in 0 .. n /\ k - 1 \notin Bad
  BY <1>1, <1>2, <1>3
<1>5. g[k] = f[g[k - 1]] /\ g[k - 1] \in S
  BY <1>2, <1>3, <1>4 DEF Iterates
<1> QED
  BY <1>2, <1>5

StepsFrom(at, h, p, targets) ==
    at = [k \in 0 .. Steps |->
              IF k = 0 THEN Target(h, p)
              ELSE IF at[k - 1] \in targets \cup {Null, Wild} THEN at[k - 1]
                   ELSE Target(h, NextOf(h, at[k - 1]))]

LEMMA StepsIn == Steps \in Nat /\ Rows = 0 .. Steps - 1
  BY PageAssumption, BoundsAssumption DEF Steps, Rows

\* The search takes its steps, which stay in a set that the links do not leave.
LEMMA SeekSteps ==
    ASSUME NEW h, NEW p, NEW targets, NEW S, Target(h, p) \in S,
           \A q \in S \ (targets \cup {Null, Wild}) : Target(h, NextOf(h, q)) \in S
    PROVE  \E at : /\ StepsFrom(at, h, p, targets)
                   /\ \A k \in 0 .. Steps : at[k] \in S
                   /\ Seek(h, p, targets) = IF at[Steps] \in targets \cup {Null, Wild}
                                            THEN at[Steps] ELSE Loop
<1> DEFINE at == CHOOSE at : StepsFrom(at, h, p, targets)
           f == [q \in S |-> IF q \in targets \cup {Null, Wild} THEN q ELSE Target(h, NextOf(h, q))]
<1>1. PICK g : Iterates(g, f, Target(h, p), Steps)
  BY IteratesExists, StepsIn
<1>2. \A q \in S : f[q] \in S
  OBVIOUS
<1>3. \A k \in 0 .. Steps : g[k] \in S
  <2> HIDE DEF f
  <2> QED
    BY <1>1, <1>2, IteratesIn, StepsIn
<1>4. StepsFrom(g, h, p, targets)
  <2>1. ASSUME NEW k \in 0 .. Steps, k # 0
        PROVE  g[k] = IF g[k - 1] \in targets \cup {Null, Wild} THEN g[k - 1]
                      ELSE Target(h, NextOf(h, g[k - 1]))
    <3>1. k - 1 \in 0 .. Steps
      BY <2>1, StepsIn
    <3>2. g[k] = f[g[k - 1]] /\ g[k - 1] \in S
      <4> HIDE DEF f
      <4> QED
        BY <1>1, <1>3, <2>1, <3>1 DEF Iterates
    <3> QED
      BY <3>2
  <2>2. g[0] = Target(h, p) /\ DOMAIN g = 0 .. Steps /\ g = [k \in 0 .. Steps |-> g[k]]
    <3> HIDE DEF f
    <3> QED
      BY <1>1, StepsIn DEF Iterates
  <2> HIDE DEF f
  <2> QED
    BY <2>1, <2>2 DEF StepsFrom
<1>5. StepsFrom(at, h, p, targets)
  BY <1>4
<1>6. \A k \in 0 .. Steps : at[k] \in S
  <2> HIDE DEF at, f
  <2> DEFINE Bad == {k \in 0 .. Steps : at[k] \notin S}
  <2> SUFFICES ASSUME Bad # {} PROVE FALSE
    OBVIOUS
  <2>2. PICK k \in Bad : \A j \in Bad : k <= j
    <3>1. Bad \in SUBSET Nat
      BY StepsIn
    <3> HIDE DEF Bad
    <3> QED
      BY <3>1, LeastNatural
  <2>3. k \in 0 .. Steps /\ at[k] \notin S
    BY <2>2
  <2>4. k # 0
    BY <1>5, <2>3 DEF StepsFrom
  <2>5. k - 1 \in 0 .. Steps /\ k - 1 \notin Bad
    BY <2>2, <2>3, <2>4, StepsIn
  <2>6. at[k - 1] \in S
    BY <2>5
  <2>7. at[k] = IF at[k - 1] \in targets \cup {Null, Wild} THEN at[k - 1]
                ELSE Target(h, NextOf(h, at[k - 1]))
    BY <1>5, <2>3, <2>4 DEF StepsFrom
  <2> QED
    BY <2>3, <2>6, <2>7
<1>7. Seek(h, p, targets) = IF at[Steps] \in targets \cup {Null, Wild} THEN at[Steps] ELSE Loop
  BY DEF Seek, StepsFrom
<1> QED
  BY <1>5, <1>6, <1>7

-----------------------------------------------------------------------------
(* The links of the blocks in F, each in the list that c says *)

LinkRows(F) == {p + 1 : p \in F} \cup {p + 2 : p \in F}

Spread(F) ==
    \A p \in F : /\ p \in Nat /\ p + 1 \in Rows /\ p + 2 \in Rows
                 /\ \A q \in F : p = q \/ p + 4 <= q \/ q + 4 <= p

Neighbours(h, F, c) ==
    \A p \in F :
        /\ PrevOf(h, p) \in F \cup {Null}
        /\ NextOf(h, p) \in F \cup {Null, Wild}
        /\ NextOf(h, p) \in F => PrevOf(h, NextOf(h, p)) = p /\ c[NextOf(h, p)] = c[p]
        /\ PrevOf(h, p) \in F => NextOf(h, PrevOf(h, p)) = p

Headed(h, F, c) ==
    \A i \in Lists :
        /\ h.head[i] \in F \cup {Null}
        /\ h.head[i] \in F => c[h.head[i]] = i /\ PrevOf(h, h.head[i]) = Null

\* No other row holds a link to a block.
Unlinked(h, F) == \A r \in Rows \ LinkRows(F) : LinkAt(h, r) \in {Null, Wild}

Linked(h, F, c) ==
    /\ h \in Heaps /\ Spread(F)
    /\ Neighbours(h, F, c) /\ Headed(h, F, c) /\ Unlinked(h, F)

\* g differs from h only in the links of F.
OnLinks(h, g, F) ==
    Keeps(h, g) /\ \A r \in Rows \ LinkRows(F) : g.mem[r] = h.mem[r]

LEMMA SpreadIn ==
    ASSUME NEW F, Spread(F), NEW p \in F, NEW q \in F
    PROVE  /\ p \in Nat /\ p \in Rows /\ p + 1 \in Rows /\ p + 2 \in Rows
           /\ p # Null /\ p # Wild /\ p # Loop
           /\ p + 1 # q + 2 /\ (p + 1 = q + 1 => p = q) /\ (p + 2 = q + 2 => p = q)
           /\ p # q + 1 /\ p # q + 2
<1>1. p \in Nat /\ q \in Nat /\ p + 1 \in Rows /\ p + 2 \in Rows
  BY DEF Spread
<1>2. p = q \/ p + 4 <= q \/ q + 4 <= p
  BY DEF Spread
<1>3. p \in Rows
  BY <1>1, RowsIn
<1>4. p # Null /\ p # Wild /\ p # Loop
  BY <1>3, RowsIn
<1> QED
  BY <1>1, <1>2, <1>3, <1>4

LEMMA OnLinksTrans ==
    ASSUME NEW h, NEW g, NEW k, NEW F, OnLinks(h, g, F), OnLinks(g, k, F)
    PROVE  OnLinks(h, k, F)
  BY DEF OnLinks, Keeps

LEMMA OnMoreLinks ==
    ASSUME NEW h, NEW g, NEW F, NEW G, OnLinks(h, g, F), F \subseteq G
    PROVE  OnLinks(h, g, G)
  BY DEF OnLinks, LinkRows

\* What writing a link of a block changes.
LEMMA SetNextLink ==
    ASSUME NEW h \in Heaps, NEW F, Spread(F), NEW p \in F, NEW q \in Rows \cup {Null, Wild}
    PROVE  LET g == SetNext(h, p, q)
           IN  /\ OnLinks(h, g, F) /\ g.head = h.head /\ g.fault = h.fault
               /\ \A x \in F : /\ NextOf(g, x) = IF x = p THEN q ELSE NextOf(h, x)
                               /\ PrevOf(g, x) = PrevOf(h, x)
<1> DEFINE g == SetNext(h, p, q)
<1>1. Wrote(h, g, p + 1, Link(q))
  BY LinkWrites
<1>2. p + 1 \in Rows /\ p + 1 \in LinkRows(F)
  BY DEF Spread, LinkRows
<1>3. g.fault = h.fault
  BY <1>2 DEF SetNext, Store
<1> HIDE DEF g
<1>4. g \in Heaps /\ \A r \in Rows : g.mem[r] = IF r = p + 1 THEN Link(q) ELSE h.mem[r]
  BY <1>1 DEF Wrote, Keeps
<1>5. ASSUME NEW x \in F
      PROVE  /\ NextOf(g, x) = IF x = p THEN q ELSE NextOf(h, x)
             /\ PrevOf(g, x) = PrevOf(h, x)
  <2>1. x + 1 \in Rows /\ x + 2 \in Rows /\ x + 2 # p + 1 /\ (x + 1 = p + 1 => x = p)
    BY SpreadIn
  <2>2. PrevOf(g, x) = PrevOf(h, x)
    BY <1>4, <2>1, LinkReads DEF PrevOf
  <2>3. x = p => NextOf(g, x) = q
    BY <1>4, <2>1, LinkReads DEF NextOf
  <2>4. x # p => NextOf(g, x) = NextOf(h, x)
    BY <1>4, <2>1, LinkReads DEF NextOf
  <2> QED
    BY <2>2, <2>3, <2>4
<1>6. OnLinks(h, g, F) /\ g.head = h.head
  BY <1>1, <1>2, <1>4 DEF OnLinks, Wrote
<1> QED
  BY <1>3, <1>5, <1>6 DEF g

LEMMA SetPrevLink ==
    ASSUME NEW h \in Heaps, NEW F, Spread(F), NEW p \in F, NEW q \in Rows \cup {Null, Wild}
    PROVE  LET g == SetPrev(h, p, q)
           IN  /\ OnLinks(h, g, F) /\ g.head = h.head /\ g.fault = h.fault
               /\ \A x \in F : /\ PrevOf(g, x) = IF x = p THEN q ELSE PrevOf(h, x)
                               /\ NextOf(g, x) = NextOf(h, x)
<1> DEFINE g == SetPrev(h, p, q)
<1>1. Wrote(h, g, p + 2, Link(q))
  BY LinkWrites
<1>2. p + 2 \in Rows /\ p + 2 \in LinkRows(F)
  BY DEF Spread, LinkRows
<1>3. g.fault = h.fault
  BY <1>2 DEF SetPrev, Store
<1> HIDE DEF g
<1>4. g \in Heaps /\ \A r \in Rows : g.mem[r] = IF r = p + 2 THEN Link(q) ELSE h.mem[r]
  BY <1>1 DEF Wrote, Keeps
<1>5. ASSUME NEW x \in F
      PROVE  /\ PrevOf(g, x) = IF x = p THEN q ELSE PrevOf(h, x)
             /\ NextOf(g, x) = NextOf(h, x)
  <2>1. x + 1 \in Rows /\ x + 2 \in Rows /\ x + 1 # p + 2 /\ (x + 2 = p + 2 => x = p)
    BY SpreadIn
  <2>2. NextOf(g, x) = NextOf(h, x)
    BY <1>4, <2>1, LinkReads DEF NextOf
  <2>3. x = p => PrevOf(g, x) = q
    BY <1>4, <2>1, LinkReads DEF PrevOf
  <2>4. x # p => PrevOf(g, x) = PrevOf(h, x)
    BY <1>4, <2>1, LinkReads DEF PrevOf
  <2> QED
    BY <2>2, <2>3, <2>4
<1>6. OnLinks(h, g, F) /\ g.head = h.head
  BY <1>1, <1>2, <1>4 DEF OnLinks, Wrote
<1> QED
  BY <1>3, <1>5, <1>6 DEF g

\* A search that starts in S, which the links do not leave, ends in S or at no block.
LEMMA SoughtIn ==
    ASSUME NEW h, NEW S, \A q \in S : q \in Rows /\ IsTag(h.mem[q]),
           \A q \in S : NextOf(h, q) \in S \cup {Null, Wild},
           NEW p \in S \cup {Null}, NEW T
    PROVE  Seek(h, p, T) \in (S \cap T) \cup {Null, Wild, Loop}
<1> DEFINE R == S \cup {Null, Wild}
<1>1. \A q \in R : Target(h, q) \in R
  BY DEF Target
<1>2. Target(h, p) \in R
  BY <1>1
<1>3. ASSUME NEW q \in R \ (T \cup {Null, Wild}) PROVE Target(h, NextOf(h, q)) \in R
  BY <1>1
<1>4. PICK at : /\ \A k \in 0 .. Steps : at[k] \in R
                /\ Seek(h, p, T) = IF at[Steps] \in T \cup {Null, Wild} THEN at[Steps] ELSE Loop
  <2> HIDE DEF R
  <2> QED
    BY <1>2, <1>3, SeekSteps
<1>5. at[Steps] \in R
  BY <1>4, StepsIn
<1> QED
  BY <1>4, <1>5

\* Blocks that are tagged can be searched.
Tagged(h, F) == \A q \in F : IsTag(h.mem[q])

\* Dropping p clears the head that leads to it, or the link of the block before it.
LEMMA DropLinks ==
    ASSUME NEW h, NEW F, NEW c, Linked(h, F, c), Tagged(h, F), NEW p \in F, c[p] \in Lists,
           Drop(h, c[p], p).fault = "none"
    PROVE  LET g == Drop(h, c[p], p)
           IN  /\ OnLinks(h, g, F) /\ h.fault = "none"
               /\ \A j \in Lists : g.head[j] = IF h.head[j] = p THEN Null ELSE h.head[j]
               /\ \A x \in F : PrevOf(g, x) = PrevOf(h, x)
               /\ \A x \in F : \/ NextOf(g, x) = NextOf(h, x)
                               \/ NextOf(g, x) = Null /\ NextOf(h, x) = p /\ PrevOf(h, p) = x
<1> DEFINE i == c[p]
           before == Seek(h, h.head[i], {q \in Rows : NextOf(h, q) = p})
           g == Cut(h, i, p, before)
<1>1. Drop(h, i, p) = g
  BY DEF Drop
<1>2. h \in Heaps /\ Spread(F) /\ Neighbours(h, F, c) /\ Headed(h, F, c)
  BY DEF Linked
<1>3. \A j \in Lists : h.head[j] = p => j = i
  BY <1>2 DEF Headed
<1>4. before \in {q \in F : NextOf(h, q) = p} \cup {Null, Wild, Loop}
  <2>1. \A q \in F : q \in Rows /\ IsTag(h.mem[q])
    BY <1>2, SpreadIn DEF Tagged
  <2>2. \A q \in F : NextOf(h, q) \in F \cup {Null, Wild}
    BY <1>2 DEF Neighbours
  <2>3. h.head[i] \in F \cup {Null}
    BY <1>2 DEF Headed
  <2>4. before \in (F \cap {q \in Rows : NextOf(h, q) = p}) \cup {Null, Wild, Loop}
    BY <2>1, <2>2, <2>3, SoughtIn
  <2> QED
    BY <2>4
<1> HIDE DEF i, before
<1>5. CASE h.head[i] = p
  <2>1. g = [h EXCEPT !.head[i] = Null]
    BY <1>5 DEF Cut
  <2>2. /\ Keeps(h, g) /\ g.mem = h.mem
        /\ \A j \in Lists : g.head[j] = IF j = i THEN Null ELSE h.head[j]
    BY <1>2, <2>1, HeadWrites DEF i
  <2>3. g.fault = h.fault
    BY <2>1
  <2>4. \A j \in Lists : g.head[j] = IF h.head[j] = p THEN Null ELSE h.head[j]
    BY <1>3, <1>5, <2>2
  <2> HIDE DEF g
  <2>5. OnLinks(h, g, F) /\ \A x \in F : NextOf(g, x) = NextOf(h, x) /\ PrevOf(g, x) = PrevOf(h, x)
    BY <2>2 DEF OnLinks, NextOf, PrevOf, LinkAt
  <2> QED
    BY <1>1, <2>3, <2>4, <2>5 DEF i
<1>6. CASE h.head[i] # p
  <2>1. \A j \in Lists : h.head[j] # p
    BY <1>3, <1>6
  <2>2. before # Wild /\ before # Loop
    BY <1>1, <1>6, RowsIn DEF Cut, i, before
  <2>3. CASE before = Null
    <3>1. g = h
      BY <1>6, <2>2, <2>3 DEF Cut
    <3> QED
      BY <1>1, <1>2, <2>1, <3>1 DEF OnLinks, Keeps, i
  <2>4. CASE before # Null
    <3>1. before \in F /\ NextOf(h, before) = p
      BY <1>4, <2>2, <2>4
    <3>2. g = SetNext(h, before, Null)
      BY <1>6, <2>2, <2>4 DEF Cut
    <3>3. PrevOf(h, p) = before
      BY <1>2, <3>1 DEF Neighbours
    <3>4. /\ OnLinks(h, g, F) /\ g.head = h.head /\ g.fault = h.fault
          /\ \A x \in F : /\ NextOf(g, x) = IF x = before THEN Null ELSE NextOf(h, x)
                          /\ PrevOf(g, x) = PrevOf(h, x)
      BY <1>2, <3>1, <3>2, SetNextLink
    <3> HIDE DEF g
    <3> QED
      BY <1>1, <2>1, <3>1, <3>3, <3>4 DEF i
  <2> QED
    BY <2>3, <2>4
<1> QED
  BY <1>5, <1>6

LEMMA LinkedKept ==
    ASSUME NEW h, NEW g \in Heaps, NEW F, NEW c, Linked(h, F, c), g.head = h.head,
           \A r \in LinkRows(F) : g.mem[r] = h.mem[r],
           \A r \in Rows \ LinkRows(F) : g.mem[r] = h.mem[r] \/ LinkAt(g, r) \in {Null, Wild}
    PROVE  Linked(g, F, c)
<1>1. h \in Heaps /\ Spread(F) /\ Neighbours(h, F, c) /\ Headed(h, F, c) /\ Unlinked(h, F)
  BY DEF Linked
<1>2. \A x \in F : NextOf(g, x) = NextOf(h, x) /\ PrevOf(g, x) = PrevOf(h, x)
  BY DEF LinkRows, NextOf, PrevOf, LinkAt
<1>3. ASSUME NEW r \in Rows \ LinkRows(F) PROVE LinkAt(g, r) \in {Null, Wild}
  <2>1. CASE g.mem[r] = h.mem[r]
    BY <1>1, <2>1 DEF LinkAt, Unlinked
  <2>2. CASE g.mem[r] # h.mem[r]
    BY <2>2
  <2> QED
    BY <2>1, <2>2
<1>4. Neighbours(g, F, c)
  BY <1>1, <1>2 DEF Neighbours
<1>5. Headed(g, F, c)
  BY <1>1, <1>2 DEF Headed
<1> QED
  BY <1>1, <1>3, <1>4, <1>5 DEF Linked, Unlinked

\* Two heaps that differ in nothing but their fault.
LEMMA LinkedSame ==
    ASSUME NEW h, NEW g \in Heaps, NEW F, NEW c, Linked(h, F, c),
           g.head = h.head, \A r \in Rows : g.mem[r] = h.mem[r]
    PROVE  Linked(g, F, c)
<1>1. LinkRows(F) \subseteq Rows
  BY DEF Linked, Spread, LinkRows
<1> QED
  BY <1>1, LinkedKept

\* A write that is no link to a block, outside the links.
LEMMA LinkedStored ==
    ASSUME NEW h, NEW F, NEW c, Linked(h, F, c), NEW p \in Rows \ LinkRows(F),
           NEW w \in TagWords \cup DataWords \cup {Zero}
    PROVE  /\ Linked(Store(h, p, w), F, c) /\ Wrote(h, Store(h, p, w), p, w)
           /\ Store(h, p, w).fault = h.fault
<1> DEFINE g == Store(h, p, w)
<1>1. h \in Heaps /\ w \in Words
  BY WordsIn DEF Linked, Words
<1>2. Wrote(h, g, p, w) /\ g.fault = h.fault
  <2>1. Wrote(h, g, p, w)
    BY <1>1, StoreWrites
  <2> QED
    BY <2>1 DEF Store
<1> HIDE DEF g
<1>3. g \in Heaps /\ g.head = h.head /\ \A r \in Rows : g.mem[r] = IF r = p THEN w ELSE h.mem[r]
  BY <1>2 DEF Wrote, Keeps
<1>4. LinkAt(g, p) \in {Null, Wild}
  <2>1. g.mem[p] = w
    BY <1>3
  <2>2. CASE w \in TagWords \cup DataWords
    BY <1>3, <2>1, <2>2, LinkReads
  <2>3. CASE w = Zero
    BY <1>3, <2>1, <2>3, LinkReads, WordsIn
  <2> QED
    BY <2>2, <2>3
<1>5. LinkRows(F) \subseteq Rows
  BY DEF Linked, Spread, LinkRows
<1>6. Linked(g, F, c)
  <2>1. \A r \in LinkRows(F) : g.mem[r] = h.mem[r]
    BY <1>3, <1>5
  <2>2. \A r \in Rows \ LinkRows(F) : g.mem[r] = h.mem[r] \/ LinkAt(g, r) \in {Null, Wild}
    BY <1>3, <1>4
  <2> QED
    BY <1>3, <2>1, <2>2, LinkedKept
<1> QED
  BY <1>2, <1>6 DEF g

\* p, of which no list knows, becomes the head of its list.
LEMMA PushLinks ==
    ASSUME NEW h, NEW F, NEW c, Linked(h, F, c), NEW p, p \notin F, Spread(F \cup {p}),
           c[p] \in Lists, PrevOf(h, p) = Null
    PROVE  LET g == Push(h, c[p], p)
           IN  Linked(g, F \cup {p}, c) /\ OnLinks(h, g, F \cup {p}) /\ g.fault = h.fault
<1> DEFINE i == c[p]
           G == F \cup {p}
           first == h.head[i]
           k == IF first = Null THEN h ELSE SetPrev(SetNext(h, p, first), first, p)
           g == [k EXCEPT !.head[i] = p]
<1>1. Push(h, i, p) = g
  BY DEF Push
<1>2. h \in Heaps /\ Neighbours(h, F, c) /\ Headed(h, F, c) /\ Unlinked(h, F)
  BY DEF Linked
<1>3. p \in Rows /\ p + 1 \in Rows \ LinkRows(F) /\ p + 2 \in Rows \ LinkRows(F) /\ p # Null
  <2>1. \A q \in F : p + 1 # q + 2 /\ p + 1 # q + 1 /\ p + 2 # q + 2 /\ p + 2 # q + 1
    BY SpreadIn
  <2> QED
    BY <2>1, SpreadIn DEF LinkRows
<1>4. NextOf(h, p) \in {Null, Wild}
  BY <1>2, <1>3 DEF Unlinked, NextOf
<1>5. first \in F \cup {Null} /\ Null \notin F /\ Wild \notin F
      /\ (first \in F => c[first] = i /\ PrevOf(h, first) = Null)
  <2>1. Null \notin F /\ Wild \notin F
    <3>1. Spread(F)
      BY DEF Linked
    <3> QED
      BY <3>1, SpreadIn
  <2> QED
    BY <1>2, <2>1 DEF Headed
<1> HIDE DEF first
<1>6. /\ OnLinks(h, k, G) /\ k.head = h.head /\ k.fault = h.fault
      /\ \A x \in G : /\ NextOf(k, x) = IF x = p /\ first # Null THEN first ELSE NextOf(h, x)
                      /\ PrevOf(k, x) = IF x = first THEN p ELSE PrevOf(h, x)
  <2>1. CASE first = Null
    <3>1. k = h /\ first \notin G
      BY <1>3, <1>5, <2>1
    <3> QED
      BY <1>2, <2>1, <3>1 DEF OnLinks, Keeps
  <2>2. CASE first # Null
    <3> DEFINE m == SetNext(h, p, first)
    <3>1. k = SetPrev(m, first, p) /\ first \in G /\ p \in G /\ first \in Rows
      BY <1>5, <2>2, SpreadIn
    <3>2. /\ OnLinks(h, m, G) /\ m.head = h.head /\ m.fault = h.fault
          /\ \A x \in G : /\ NextOf(m, x) = IF x = p THEN first ELSE NextOf(h, x)
                          /\ PrevOf(m, x) = PrevOf(h, x)
      BY <1>2, <3>1, SetNextLink
    <3> HIDE DEF m
    <3>3. m \in Heaps
      BY <3>2 DEF OnLinks, Keeps
    <3>4. /\ OnLinks(m, k, G) /\ k.head = m.head /\ k.fault = m.fault
          /\ \A x \in G : /\ PrevOf(k, x) = IF x = first THEN p ELSE PrevOf(m, x)
                          /\ NextOf(k, x) = NextOf(m, x)
      BY <1>3, <3>1, <3>3, SetPrevLink
    <3> HIDE DEF k
    <3>5. OnLinks(h, k, G)
      BY <3>2, <3>4, OnLinksTrans
    <3> QED
      BY <2>2, <3>2, <3>4, <3>5
  <2> QED
    BY <2>1, <2>2
<1> HIDE DEF k
<1>7. k \in Heaps
  BY <1>6 DEF OnLinks, Keeps
<1>8. /\ Keeps(k, g) /\ g.mem = k.mem /\ g.fault = k.fault
      /\ \A j \in Lists : g.head[j] = IF j = i THEN p ELSE k.head[j]
  BY <1>3, <1>7, HeadWrites
<1> HIDE DEF g
<1>9. /\ g \in Heaps /\ OnLinks(h, g, G)
      /\ \A x \in G : /\ NextOf(g, x) = IF x = p /\ first # Null THEN first ELSE NextOf(h, x)
                      /\ PrevOf(g, x) = IF x = first THEN p ELSE PrevOf(h, x)
  <2>1. \A x \in G : NextOf(g, x) = NextOf(k, x) /\ PrevOf(g, x) = PrevOf(k, x)
    BY <1>8 DEF NextOf, PrevOf, LinkAt
  <2>2. OnLinks(h, g, G)
    BY <1>6, <1>8 DEF OnLinks, Keeps
  <2> QED
    BY <1>6, <1>8, <2>1, <2>2 DEF Keeps
<1>10. Neighbours(g, G, c)
  <2> SUFFICES ASSUME NEW x \in G
               PROVE  /\ PrevOf(g, x) \in G \cup {Null}
                      /\ NextOf(g, x) \in G \cup {Null, Wild}
                      /\ NextOf(g, x) \in G =>
                           PrevOf(g, NextOf(g, x)) = x /\ c[NextOf(g, x)] = c[x]
                      /\ PrevOf(g, x) \in G => NextOf(g, PrevOf(g, x)) = x
    BY DEF Neighbours
  <2>1. CASE x = p
    <3>1. PrevOf(g, x) = Null
      BY <1>5, <1>9, <2>1
    <3>2. NextOf(g, x) = (IF first # Null THEN first ELSE NextOf(h, x))
      BY <1>9, <2>1
    <3>3. first # Null => PrevOf(g, first) = p
      BY <1>5, <1>9
    <3> QED
      BY <1>3, <1>4, <1>5, <2>1, <3>1, <3>2, <3>3, RowsIn
  <2>2. CASE x # p
    <3>1. x \in F /\ NextOf(g, x) = NextOf(h, x)
      BY <1>9, <2>2
    <3>2. /\ PrevOf(h, x) \in F \cup {Null} /\ NextOf(h, x) \in F \cup {Null, Wild}
          /\ NextOf(h, x) \in F => PrevOf(h, NextOf(h, x)) = x /\ c[NextOf(h, x)] = c[x]
          /\ PrevOf(h, x) \in F => NextOf(h, PrevOf(h, x)) = x
      BY <1>2, <3>1 DEF Neighbours
    <3>3. NextOf(h, x) \in G => NextOf(h, x) \in F
      BY <1>3, <3>2, RowsIn
    <3>4. NextOf(h, x) \in F => NextOf(h, x) # first
      BY <1>5, <3>1, <3>2
    <3>5. NextOf(g, x) \in G => PrevOf(g, NextOf(g, x)) = x /\ c[NextOf(g, x)] = c[x]
      BY <1>9, <3>1, <3>2, <3>3, <3>4
    <3>6. CASE x = first
      <4>1. PrevOf(g, x) = p /\ NextOf(g, p) = x
        BY <1>5, <1>9, <3>1, <3>6
      <4> QED
        BY <3>1, <3>2, <3>5, <4>1
    <3>7. CASE x # first
      <4>1. PrevOf(g, x) = PrevOf(h, x)
        BY <1>9, <3>7
      <4>2. PrevOf(h, x) \in F => NextOf(g, PrevOf(h, x)) = x
        BY <1>9, <3>2
      <4>3. PrevOf(h, x) \in G => PrevOf(h, x) \in F
        BY <1>3, <3>2
      <4> QED
        BY <3>1, <3>2, <3>5, <4>1, <4>2, <4>3
    <3> QED
      BY <3>6, <3>7
  <2> QED
    BY <2>1, <2>2
<1>11. Headed(g, G, c)
  <2> SUFFICES ASSUME NEW j \in Lists
               PROVE  /\ g.head[j] \in G \cup {Null}
                      /\ g.head[j] \in G => c[g.head[j]] = j /\ PrevOf(g, g.head[j]) = Null
    BY DEF Headed
  <2>1. CASE j = i
    BY <1>5, <1>8, <1>9, <2>1
  <2>2. CASE j # i
    <3>1. g.head[j] = h.head[j] /\ h.head[j] \in F \cup {Null}
          /\ (h.head[j] \in F => c[h.head[j]] = j /\ PrevOf(h, h.head[j]) = Null)
      BY <1>2, <1>6, <1>8, <2>2 DEF Headed
    <3>2. h.head[j] # first \/ h.head[j] = Null
      BY <1>5, <2>2, <3>1
    <3>3. h.head[j] \in F => PrevOf(g, h.head[j]) = Null
      BY <1>5, <1>9, <3>1, <3>2
    <3> QED
      BY <1>3, <3>1, <3>3
  <2> QED
    BY <2>1, <2>2
<1>12. Unlinked(g, G)
  <2> SUFFICES ASSUME NEW r \in Rows \ LinkRows(G) PROVE LinkAt(g, r) \in {Null, Wild}
    BY DEF Unlinked
  <2>1. g.mem[r] = h.mem[r] /\ r \notin LinkRows(F)
    BY <1>9 DEF OnLinks, LinkRows
  <2> QED
    BY <1>2, <2>1 DEF LinkAt, Unlinked
<1> QED
  BY <1>1, <1>6, <1>8, <1>9, <1>10, <1>11, <1>12 DEF Linked

LEMMA InsertLinks ==
    ASSUME NEW h, NEW F, NEW c, Linked(h, F, c), NEW p, p \notin F, Spread(F \cup {p}),
           c[p] \in Lists, PrevOf(h, p) = Null
    PROVE  LET g == Insert(h, c[p], p)
           IN  Linked(g, F \cup {p}, c) /\ OnLinks(h, g, F \cup {p}) /\ g.fault = h.fault
<1> DEFINE k == IF h.head[c[p]] = Null THEN SetNext(h, p, Null) ELSE h
<1>1. Insert(h, c[p], p) = Push(k, c[p], p)
  BY DEF Insert
<1>2. /\ Linked(k, F, c) /\ OnLinks(h, k, F \cup {p}) /\ k.fault = h.fault
      /\ PrevOf(k, p) = Null
  <2>1. CASE h.head[c[p]] # Null
    BY <2>1 DEF OnLinks, Keeps, Linked
  <2>2. CASE h.head[c[p]] = Null
    <3>1. k = SetNext(h, p, Null) /\ k = Store(h, p + 1, Zero)
      BY <2>2 DEF SetNext, Zero
    <3>2. p + 1 \in Rows \ LinkRows(F)
      <4>1. \A q \in F : p + 1 # q + 2 /\ p + 1 # q + 1
        BY SpreadIn
      <4> QED
        BY <4>1, SpreadIn DEF LinkRows
    <3>3. Linked(k, F, c)
      BY <3>1, <3>2, LinkedStored
    <3>4. /\ OnLinks(h, k, F \cup {p}) /\ k.fault = h.fault
          /\ \A x \in F \cup {p} : PrevOf(k, x) = PrevOf(h, x)
      BY <3>1, SetNextLink DEF Linked
    <3> QED
      BY <3>3, <3>4
  <2> QED
    BY <2>1, <2>2
<1> HIDE DEF k
<1> DEFINE g == Push(k, c[p], p)
<1>3. Linked(g, F \cup {p}, c) /\ OnLinks(k, g, F \cup {p}) /\ g.fault = k.fault
  BY <1>2, PushLinks
<1> HIDE DEF g
<1> QED
  BY <1>1, <1>2, <1>3, OnLinksTrans DEF g

\* After Drop, when nothing else leads to p.
LEMMA DroppedLinks ==
    ASSUME NEW h, NEW F, NEW c, Linked(h, F, c), Tagged(h, F), NEW p \in F, c[p] \in Lists,
           NEW d, d = Drop(h, c[p], p), d.fault = "none", \A r \in Rows : LinkAt(d, r) # p
    PROVE  LET g == SetPrev(d, p, Null)
           IN  /\ Linked(g, F \ {p}, c) /\ OnLinks(h, g, F) /\ g.fault = "none"
               /\ h.fault = "none" /\ PrevOf(g, p) = Null
<1> DEFINE g == SetPrev(d, p, Null)
           G == F \ {p}
<1>1. h \in Heaps /\ Spread(F) /\ Neighbours(h, F, c) /\ Headed(h, F, c) /\ Unlinked(h, F)
  BY DEF Linked
<1>2. /\ OnLinks(h, d, F) /\ h.fault = "none"
      /\ \A j \in Lists : d.head[j] = IF h.head[j] = p THEN Null ELSE h.head[j]
      /\ \A x \in F : PrevOf(d, x) = PrevOf(h, x)
      /\ \A x \in F : \/ NextOf(d, x) = NextOf(h, x)
                      \/ NextOf(d, x) = Null /\ NextOf(h, x) = p /\ PrevOf(h, p) = x
  BY DropLinks
<1>3. d \in Heaps
  BY <1>2 DEF OnLinks, Keeps
<1>4. /\ OnLinks(d, g, F) /\ g.head = d.head /\ g.fault = d.fault
      /\ \A x \in F : /\ PrevOf(g, x) = IF x = p THEN Null ELSE PrevOf(d, x)
                      /\ NextOf(g, x) = NextOf(d, x)
  BY <1>1, <1>3, SetPrevLink
<1> HIDE DEF g
<1>5. g \in Heaps /\ OnLinks(h, g, F)
  BY <1>2, <1>4, OnLinksTrans DEF OnLinks, Keeps
<1>6. \A x \in F : NextOf(d, x) # p /\ PrevOf(d, x) # p
  BY <1>1, SpreadIn DEF NextOf, PrevOf
<1>7. \A x \in G : /\ PrevOf(g, x) = PrevOf(h, x) /\ PrevOf(h, x) # p
                   /\ NextOf(g, x) # p
                   /\ NextOf(g, x) = NextOf(h, x) \/ NextOf(g, x) = Null
                   /\ NextOf(h, x) # p => NextOf(g, x) = NextOf(h, x)
  BY <1>2, <1>4, <1>6
<1>8. Null \notin F /\ Wild \notin F
  BY <1>1, SpreadIn
<1>9. Neighbours(g, G, c)
  <2> SUFFICES ASSUME NEW x \in G
               PROVE  /\ PrevOf(g, x) \in G \cup {Null}
                      /\ NextOf(g, x) \in G \cup {Null, Wild}
                      /\ NextOf(g, x) \in G =>
                           PrevOf(g, NextOf(g, x)) = x /\ c[NextOf(g, x)] = c[x]
                      /\ PrevOf(g, x) \in G => NextOf(g, PrevOf(g, x)) = x
    BY DEF Neighbours
  <2>1. /\ PrevOf(h, x) \in F \cup {Null} /\ NextOf(h, x) \in F \cup {Null, Wild}
        /\ NextOf(h, x) \in F => PrevOf(h, NextOf(h, x)) = x /\ c[NextOf(h, x)] = c[x]
        /\ PrevOf(h, x) \in F => NextOf(h, PrevOf(h, x)) = x
    BY <1>1 DEF Neighbours
  <2>2. PrevOf(g, x) \in G \cup {Null} /\ NextOf(g, x) \in G \cup {Null, Wild}
    BY <1>7, <2>1
  <2>3. NextOf(g, x) \in G => PrevOf(g, NextOf(g, x)) = x /\ c[NextOf(g, x)] = c[x]
    BY <1>7, <1>8, <2>1
  <2>4. PrevOf(g, x) \in G => NextOf(g, PrevOf(g, x)) = x
    <3> SUFFICES ASSUME PrevOf(g, x) \in G PROVE NextOf(g, PrevOf(g, x)) = x
      OBVIOUS
    <3>1. PrevOf(g, x) = PrevOf(h, x) /\ PrevOf(h, x) \in G /\ NextOf(h, PrevOf(h, x)) = x
      BY <1>7, <2>1
    <3>2. x # p
      OBVIOUS
    <3> QED
      BY <1>7, <3>1, <3>2
  <2> QED
    BY <2>2, <2>3, <2>4
<1>10. Headed(g, G, c)
  <2> SUFFICES ASSUME NEW j \in Lists
               PROVE  /\ g.head[j] \in G \cup {Null}
                      /\ g.head[j] \in G => c[g.head[j]] = j /\ PrevOf(g, g.head[j]) = Null
    BY DEF Headed
  <2>1. g.head[j] = IF h.head[j] = p THEN Null ELSE h.head[j]
    BY <1>2, <1>4
  <2>2. h.head[j] \in F \cup {Null}
        /\ (h.head[j] \in F => c[h.head[j]] = j /\ PrevOf(h, h.head[j]) = Null)
    BY <1>1 DEF Headed
  <2> QED
    BY <1>7, <1>8, <2>1, <2>2
<1>11. NextOf(d, p) \in {Null, Wild}
  <2>1. NextOf(h, p) \in F \cup {Null, Wild} /\ (NextOf(h, p) \in F => PrevOf(h, NextOf(h, p)) = p)
    BY <1>1 DEF Neighbours
  <2>2. NextOf(h, p) \notin F
    BY <1>2, <1>6, <2>1
  <2> QED
    BY <1>2, <2>1, <2>2
<1>12. Unlinked(g, G)
  <2> SUFFICES ASSUME NEW r \in Rows \ LinkRows(G) PROVE LinkAt(g, r) \in {Null, Wild}
    BY DEF Unlinked
  <2>1. CASE r \in LinkRows(F)
    <3>1. r = p + 1 \/ r = p + 2
      BY <2>1 DEF LinkRows
    <3>2. NextOf(g, p) \in {Null, Wild} /\ PrevOf(g, p) = Null
      BY <1>4, <1>11
    <3> QED
      BY <3>1, <3>2 DEF NextOf, PrevOf
  <2>2. CASE r \notin LinkRows(F)
    <3>1. g.mem[r] = h.mem[r]
      BY <1>5, <2>2 DEF OnLinks
    <3> QED
      BY <1>1, <2>2, <3>1 DEF Unlinked, LinkAt
  <2> QED
    BY <2>1, <2>2
<1>13. Spread(G)
  BY <1>1 DEF Spread
<1>14. PrevOf(g, p) = Null
  BY <1>4
<1> QED
  BY <1>2, <1>4, <1>5, <1>9, <1>10, <1>12, <1>13, <1>14 DEF Linked, g

\* Unlinking p: it leaves its list, and its neighbours are linked to each other.
LEMMA DetachLinks ==
    ASSUME NEW d \in Heaps, NEW F, Spread(F), NEW p \in F,
           PrevOf(d, p) \in F \cup {Null}, NextOf(d, p) \in F \cup {Null, Wild},
           Detach(d, p).fault = "none"
    PROVE  LET g == Detach(d, p)
           IN  /\ OnLinks(d, g, F) /\ g.head = d.head /\ d.fault = "none"
               /\ NextOf(d, p) \in F \cup {Null}
               /\ PrevOf(g, p) = Null /\ NextOf(g, p) = Null
               /\ \A x \in F \ {p} :
                    /\ PrevOf(g, x) = IF x = NextOf(d, p) THEN PrevOf(d, p) ELSE PrevOf(d, x)
                    /\ NextOf(g, x) = IF x = PrevOf(d, p) THEN NextOf(d, p) ELSE NextOf(d, x)
<1> DEFINE next == NextOf(d, p)
           prev == PrevOf(d, p)
           a == IF next = Null THEN d ELSE SetPrev(d, next, prev)
           b == IF prev = Null THEN a ELSE SetNext(a, prev, next)
           e == SetNext(b, p, Null)
           g == SetPrev(e, p, Null)
<1>1. Detach(d, p) = g
  BY DEF Detach, Bypass
<1>2. Null \notin F /\ Wild \notin F /\ F \subseteq Rows /\ Null # Wild
  BY SpreadIn, RowsIn
<1>3. ASSUME next = Wild PROVE FALSE
  <2>1. a = [d EXCEPT !.fault = "wild"]
    <3>1. a = SetPrev(d, Wild, prev)
      BY <1>2, <1>3
    <3>2. Wild + 2 \notin Rows
      BY RowsIn DEF Wild, Rows
    <3> QED
      BY <3>1, <3>2 DEF SetPrev, Store
  <2>2. a \in Heaps /\ a.fault = "wild"
    <3>1. a \in Heaps
      BY <2>1, FaultWrites DEF Keeps
    <3>2. Rec(d)
      BY HeapFields
    <3> QED
      BY <2>1, <3>1, <3>2 DEF Rec
  <2> HIDE DEF a
  <2>3. b \in Heaps /\ b.fault = "wild"
    <3>1. CASE prev = Null
      BY <2>2, <3>1
    <3>2. CASE prev # Null
      <4>1. prev \in F /\ b = SetNext(a, prev, Wild)
        BY <1>3, <3>2
      <4> QED
        BY <2>2, <4>1, SetNextLink DEF OnLinks, Keeps
    <3> QED
      BY <3>1, <3>2
  <2> HIDE DEF b
  <2>4. e \in Heaps /\ e.fault = "wild"
    BY <2>3, SetNextLink DEF OnLinks, Keeps
  <2> HIDE DEF e
  <2>5. g.fault = "wild"
    BY <2>4, SetPrevLink
  <2> QED
    BY <1>1, <2>5
<1>4. next \in F \cup {Null} /\ prev \in F \cup {Null}
  BY <1>3
<1> HIDE DEF next, prev
<1>5. /\ OnLinks(d, a, F) /\ a.head = d.head /\ a.fault = d.fault
      /\ \A x \in F : /\ PrevOf(a, x) = IF x = next THEN prev ELSE PrevOf(d, x)
                      /\ NextOf(a, x) = NextOf(d, x)
  <2>1. CASE next = Null
    BY <1>2, <2>1 DEF OnLinks, Keeps
  <2>2. CASE next # Null
    <3>1. next \in F /\ prev \in Rows \cup {Null, Wild} /\ a = SetPrev(d, next, prev)
      BY <1>2, <1>4, <2>2
    <3> QED
      BY <3>1, SetPrevLink
  <2> QED
    BY <2>1, <2>2
<1> HIDE DEF a
<1>6. /\ OnLinks(a, b, F) /\ b.head = a.head /\ b.fault = a.fault
      /\ \A x \in F : /\ NextOf(b, x) = IF x = prev THEN next ELSE NextOf(a, x)
                      /\ PrevOf(b, x) = PrevOf(a, x)
  <2>1. CASE prev = Null
    BY <1>2, <1>5, <2>1 DEF OnLinks, Keeps
  <2>2. CASE prev # Null
    <3>1. prev \in F /\ next \in Rows \cup {Null, Wild} /\ b = SetNext(a, prev, next)
      BY <1>2, <1>4, <2>2
    <3>2. a \in Heaps
      BY <1>5 DEF OnLinks, Keeps
    <3> QED
      BY <3>1, <3>2, SetNextLink
  <2> QED
    BY <2>1, <2>2
<1> HIDE DEF b
<1>7. /\ OnLinks(b, e, F) /\ e.head = b.head /\ e.fault = b.fault
      /\ \A x \in F : /\ NextOf(e, x) = IF x = p THEN Null ELSE NextOf(b, x)
                      /\ PrevOf(e, x) = PrevOf(b, x)
  <2>1. b \in Heaps
    BY <1>6 DEF OnLinks, Keeps
  <2> QED
    BY <2>1, SetNextLink
<1> HIDE DEF e
<1>8. /\ OnLinks(e, g, F) /\ g.head = e.head /\ g.fault = e.fault
      /\ \A x \in F : /\ PrevOf(g, x) = IF x = p THEN Null ELSE PrevOf(e, x)
                      /\ NextOf(g, x) = NextOf(e, x)
  <2>1. e \in Heaps
    BY <1>7 DEF OnLinks, Keeps
  <2> QED
    BY <2>1, SetPrevLink
<1> HIDE DEF g
<1>9. OnLinks(d, g, F)
  BY <1>5, <1>6, <1>7, <1>8, OnLinksTrans
<1>10. PrevOf(g, p) = Null /\ NextOf(g, p) = Null
  BY <1>7, <1>8
<1>11. ASSUME NEW x \in F \ {p}
       PROVE  /\ PrevOf(g, x) = IF x = next THEN prev ELSE PrevOf(d, x)
              /\ NextOf(g, x) = IF x = prev THEN next ELSE NextOf(d, x)
  BY <1>5, <1>6, <1>7, <1>8
<1>12. g.head = d.head /\ d.fault = "none"
  BY <1>1, <1>5, <1>6, <1>7, <1>8
<1> QED
  BY <1>1, <1>4, <1>9, <1>10, <1>11, <1>12 DEF next, prev

LEMMA UnlinkLinks ==
    ASSUME NEW h, NEW F, NEW c, Linked(h, F, c), Tagged(h, F), NEW p \in F, c[p] \in Lists,
           ListIndex(TagAt(h, p).block_size) = c[p], Unlink(h, p).fault = "none"
    PROVE  LET g == Unlink(h, p)
           IN  /\ Linked(g, F \ {p}, c) /\ OnLinks(h, g, F)
               /\ h.fault = "none" /\ g.fault = "none"
<1> DEFINE d == Drop(h, c[p], p)
           g == Detach(d, p)
           G == F \ {p}
           next == NextOf(d, p)
           prev == PrevOf(d, p)
<1>1. Unlink(h, p) = g /\ g.fault = "none"
  BY DEF Unlink
<1>2. h \in Heaps /\ Spread(F) /\ Neighbours(h, F, c) /\ Headed(h, F, c) /\ Unlinked(h, F)
  BY DEF Linked
<1>3. /\ OnLinks(h, d, F) /\ h.fault = "none"
      /\ \A j \in Lists : d.head[j] = IF h.head[j] = p THEN Null ELSE h.head[j]
      /\ \A x \in F : PrevOf(d, x) = PrevOf(h, x)
      /\ \A x \in F : \/ NextOf(d, x) = NextOf(h, x)
                      \/ NextOf(d, x) = Null /\ NextOf(h, x) = p /\ PrevOf(h, p) = x
  <2>1. Rec(d) /\ Frame(d, g)
    BY <1>2, HeapFields, DropFrame, DetachFrame DEF Frame
  <2>2. d.fault = "none"
    BY <1>1, <2>1 DEF Frame
  <2> HIDE DEF g
  <2> QED
    BY <2>2, DropLinks
<1>4. d \in Heaps
  BY <1>3 DEF OnLinks, Keeps
<1> HIDE DEF d
<1>5. /\ PrevOf(h, p) \in F \cup {Null} /\ NextOf(h, p) \in F \cup {Null, Wild}
      /\ NextOf(h, p) \in F => PrevOf(h, NextOf(h, p)) = p /\ c[NextOf(h, p)] = c[p]
      /\ PrevOf(h, p) \in F => NextOf(h, PrevOf(h, p)) = p
  BY <1>2 DEF Neighbours
<1>6. prev = PrevOf(h, p) /\ next \in F \cup {Null, Wild}
      /\ (next = NextOf(h, p) \/ (next = Null /\ prev = p))
  BY <1>3, <1>5
<1>7. /\ OnLinks(d, g, F) /\ g.head = d.head
      /\ next \in F \cup {Null}
      /\ PrevOf(g, p) = Null /\ NextOf(g, p) = Null
      /\ \A x \in G : /\ PrevOf(g, x) = IF x = next THEN prev ELSE PrevOf(d, x)
                      /\ NextOf(g, x) = IF x = prev THEN next ELSE NextOf(d, x)
  BY <1>1, <1>2, <1>4, <1>5, <1>6, DetachLinks
<1> HIDE DEF g, next, prev
<1>8. OnLinks(h, g, F) /\ g \in Heaps
  BY <1>3, <1>7, OnLinksTrans DEF OnLinks, Keeps
<1>9. Null \notin F /\ Wild \notin F
  BY <1>2, SpreadIn
<1>10. ASSUME NEW x \in G
       PROVE  /\ NextOf(h, x) = p <=> x = prev
              /\ PrevOf(h, x) = p => x = NextOf(h, p) /\ x = next
              /\ x # prev => NextOf(g, x) = NextOf(h, x)
              /\ x # next => PrevOf(g, x) = PrevOf(h, x)
  <2>1. /\ PrevOf(h, x) \in F \cup {Null} /\ NextOf(h, x) \in F \cup {Null, Wild}
        /\ NextOf(h, x) \in F => PrevOf(h, NextOf(h, x)) = x
        /\ PrevOf(h, x) \in F => NextOf(h, PrevOf(h, x)) = x
    BY <1>2 DEF Neighbours
  <2>2. NextOf(h, x) = p <=> x = prev
    BY <1>5, <1>6, <2>1
  <2>3. PrevOf(h, x) = p => x = NextOf(h, p)
    BY <2>1
  <2>4. ASSUME x = NextOf(h, p) PROVE x = next
    BY <1>5, <1>6, <2>4
  <2> QED
    BY <1>3, <1>6, <1>7, <2>2, <2>3, <2>4
<1>11. Neighbours(g, G, c)
  <2> SUFFICES ASSUME NEW x \in G
               PROVE  /\ PrevOf(g, x) \in G \cup {Null}
                      /\ NextOf(g, x) \in G \cup {Null, Wild}
                      /\ NextOf(g, x) \in G =>
                           PrevOf(g, NextOf(g, x)) = x /\ c[NextOf(g, x)] = c[x]
                      /\ PrevOf(g, x) \in G => NextOf(g, PrevOf(g, x)) = x
    BY DEF Neighbours
  <2>1. /\ PrevOf(h, x) \in F \cup {Null} /\ NextOf(h, x) \in F \cup {Null, Wild}
        /\ NextOf(h, x) \in F => PrevOf(h, NextOf(h, x)) = x /\ c[NextOf(h, x)] = c[x]
        /\ PrevOf(h, x) \in F => NextOf(h, PrevOf(h, x)) = x
    BY <1>2 DEF Neighbours
  <2>2. x = prev => next # p
    BY <1>5, <1>6
  <2>3. x = next => prev # p
    BY <1>5, <1>6, <1>9
  <2>4. PrevOf(g, x) \in G \cup {Null}
    <3>1. CASE x = next
      BY <1>5, <1>6, <1>7, <2>3, <3>1
    <3>2. CASE x # next
      BY <1>10, <2>1, <3>2
    <3> QED
      BY <3>1, <3>2
  <2>5. NextOf(g, x) \in G \cup {Null, Wild}
    <3>1. CASE x = prev
      BY <1>6, <1>7, <2>2, <3>1
    <3>2. CASE x # prev
      BY <1>10, <2>1, <3>2
    <3> QED
      BY <3>1, <3>2
  <2>6. NextOf(g, x) \in G => PrevOf(g, NextOf(g, x)) = x /\ c[NextOf(g, x)] = c[x]
    <3> SUFFICES ASSUME NextOf(g, x) \in G
                 PROVE  PrevOf(g, NextOf(g, x)) = x /\ c[NextOf(g, x)] = c[x]
      OBVIOUS
    <3>1. CASE x = prev
      <4>1. NextOf(g, x) = next /\ next = NextOf(h, p) /\ NextOf(h, x) = p
        BY <1>6, <1>7, <1>9, <1>10, <3>1
      <4>2. c[next] = c[p] /\ c[p] = c[x]
        BY <1>5, <2>1, <4>1
      <4>3. PrevOf(g, next) = x
        BY <1>7, <3>1, <4>1
      <4> QED
        BY <4>1, <4>2, <4>3
    <3>2. CASE x # prev
      <4>1. NextOf(g, x) = NextOf(h, x) /\ NextOf(h, x) \in F
        BY <1>10, <3>2
      <4>2. PrevOf(h, NextOf(h, x)) = x /\ c[NextOf(h, x)] = c[x]
        BY <2>1, <4>1
      <4>3. NextOf(h, x) # next
        BY <1>5, <1>6, <1>9, <4>1, <4>2
      <4> QED
        BY <1>10, <4>1, <4>2, <4>3
    <3> QED
      BY <3>1, <3>2
  <2>7. PrevOf(g, x) \in G => NextOf(g, PrevOf(g, x)) = x
    <3> SUFFICES ASSUME PrevOf(g, x) \in G PROVE NextOf(g, PrevOf(g, x)) = x
      OBVIOUS
    <3>1. CASE x = next
      <4>1. PrevOf(g, x) = prev
        BY <1>7, <3>1
      <4> QED
        BY <1>7, <3>1, <4>1
    <3>2. CASE x # next
      <4>1. PrevOf(g, x) = PrevOf(h, x) /\ PrevOf(h, x) \in G
        BY <1>10, <3>2
      <4>2. NextOf(h, PrevOf(h, x)) = x
        BY <2>1, <4>1
      <4>3. PrevOf(h, x) # prev
        BY <1>10, <4>1, <4>2
      <4> QED
        BY <1>10, <4>1, <4>2, <4>3
    <3> QED
      BY <3>1, <3>2
  <2> QED
    BY <2>4, <2>5, <2>6, <2>7
<1>12. Headed(g, G, c)
  <2> SUFFICES ASSUME NEW j \in Lists
               PROVE  /\ g.head[j] \in G \cup {Null}
                      /\ g.head[j] \in G => c[g.head[j]] = j /\ PrevOf(g, g.head[j]) = Null
    BY DEF Headed
  <2>1. g.head[j] = IF h.head[j] = p THEN Null ELSE h.head[j]
    BY <1>3, <1>7
  <2>2. h.head[j] \in F \cup {Null}
        /\ (h.head[j] \in F => c[h.head[j]] = j /\ PrevOf(h, h.head[j]) = Null)
    BY <1>2 DEF Headed
  <2>3. ASSUME g.head[j] \in G PROVE PrevOf(g, g.head[j]) = Null
    <3>1. g.head[j] = h.head[j] /\ PrevOf(h, h.head[j]) = Null
      BY <1>9, <2>1, <2>2, <2>3
    <3>2. g.head[j] # next
      BY <1>5, <1>6, <1>9, <2>3, <3>1
    <3> QED
      BY <1>10, <2>3, <3>1, <3>2
  <2> QED
    BY <1>9, <2>1, <2>2, <2>3
<1>13. Unlinked(g, G)
  <2> SUFFICES ASSUME NEW r \in Rows \ LinkRows(G) PROVE LinkAt(g, r) \in {Null, Wild}
    BY DEF Unlinked
  <2>1. CASE r \in LinkRows(F)
    <3>1. r = p + 1 \/ r = p + 2
      BY <2>1 DEF LinkRows
    <3> QED
      BY <1>7, <3>1 DEF NextOf, PrevOf
  <2>2. CASE r \notin LinkRows(F)
    <3>1. g.mem[r] = h.mem[r]
      BY <1>8, <2>2 DEF OnLinks
    <3> QED
      BY <1>2, <2>2, <3>1 DEF Unlinked, LinkAt
  <2> QED
    BY <2>1, <2>2
<1>14. Spread(G)
  BY <1>2 DEF Spread
<1> QED
  BY <1>1, <1>3, <1>8, <1>11, <1>12, <1>13, <1>14 DEF Linked

-----------------------------------------------------------------------------
(* A heap between two calls: its blocks, and the lists of those that are free *)

FreeIn(h, B) == {p \in B : h.mem[p].allocated = 0}
Classes(h)   == [p \in Rows |-> ListIndex(Size(h, p))]

Full(h, B) ==
    /\ h.fault = "none" /\ h.end \in PageEnds
    /\ Tiles(h, B, 0, h.end)
    /\ Linked(h, FreeIn(h, B), Classes(h))
    /\ \A r \in Rows : r >= h.end => h.mem[r] = Zero

LEMMA ClassIn == \A n : ListIndex(n) \in Lists
  BY DEF ListIndex, Lists

LEMMA LinkedClasses ==
    ASSUME NEW h, NEW F, NEW c, NEW d, Linked(h, F, c), \A p \in F : d[p] = c[p]
    PROVE  Linked(h, F, d)
<1>1. Neighbours(h, F, c) /\ Headed(h, F, c)
  BY DEF Linked
<1>2. Neighbours(h, F, d)
  BY <1>1 DEF Neighbours
<1>3. Headed(h, F, d)
  BY <1>1 DEF Headed
<1> QED
  BY <1>2, <1>3 DEF Linked

LEMMA TilesSpread ==
    ASSUME NEW h, NEW B, NEW hi \in Nat, Tiles(h, B, 0, hi), NEW F, F \subseteq B
    PROVE  Spread(F)
<1> SUFFICES ASSUME NEW p \in F, NEW q \in F
             PROVE  /\ p \in Nat /\ p + 1 \in Rows /\ p + 2 \in Rows
                    /\ p = q \/ p + 4 <= q \/ q + 4 <= p
  BY DEF Spread
<1>1. Block(h, p) /\ Block(h, q)
  BY DEF Tiles
<1>2. p = q \/ p + Size(h, p) <= q \/ q + Size(h, q) <= p
  BY Apart
<1>3. /\ p \in Nat /\ Size(h, p) \in Nat /\ Size(h, p) >= 4 /\ p + 1 \in Rows /\ p + 2 \in Rows
      /\ q \in Nat /\ Size(h, q) \in Nat /\ Size(h, q) >= 4
  BY <1>1, BlockIn
<1> QED
  BY <1>2, <1>3

\* Links are not in headers or footers, nor in blocks that are not in F.
LEMMA LinksElsewhere ==
    ASSUME NEW h, NEW B, NEW hi \in Nat, Tiles(h, B, 0, hi), NEW F, F \subseteq B, NEW p \in B
    PROVE  /\ p \notin LinkRows(F) /\ Last(h, p) \notin LinkRows(F)
           /\ p \notin F => \A r \in p .. Last(h, p) : r \notin LinkRows(F)
<1>1. Block(h, p)
  BY DEF Tiles
<1>2. p \in Nat /\ Size(h, p) \in Nat /\ Size(h, p) >= 4 /\ Last(h, p) = p + Size(h, p) - 1
  BY <1>1, BlockIn
<1>3. ASSUME NEW q \in F
      PROVE  /\ p # q + 1 /\ p # q + 2 /\ Last(h, p) # q + 1 /\ Last(h, p) # q + 2
             /\ p # q => \A r \in p .. Last(h, p) : r # q + 1 /\ r # q + 2
  <2>1. Block(h, q)
    BY DEF Tiles
  <2>2. q \in Nat /\ Size(h, q) \in Nat /\ Size(h, q) >= 4
    BY <2>1, BlockIn
  <2>3. p = q \/ p + Size(h, p) <= q \/ q + Size(h, q) <= p
    BY Apart
  <2> QED
    BY <1>2, <2>2, <2>3
<1> QED
  BY <1>3 DEF LinkRows

\* What allocated blocks a change leaves as they are: all of B but those in X;
\* those in Y are new.
Others(h, B, g, C, X, Y) ==
    /\ \A q \in B \ X : h.mem[q].allocated = 1 =>
           q \in C \ Y /\ \A r \in q .. Last(h, q) : g.mem[r] = h.mem[r]
    /\ \A q \in C : g.mem[q].allocated = 1 =>
           q \in Y \/ (q \in B \ X /\ h.mem[q].allocated = 1)

Inside(B, a, b)  == {q \in B : a <= q /\ q < b}
Outside(B, a, b) == {q \in B : q < a \/ q >= b}
AllocatedIn(h, B) == {q \in B : h.mem[q].allocated = 1}

\* g is h but for the rows from a to e, without e, and the links of F.
SameOutside(h, g, F, a, e) ==
    \A r \in Rows : (r < a \/ r >= e) /\ r \notin LinkRows(F) => g.mem[r] = h.mem[r]

LEMMA Remade ==
    ASSUME NEW h, NEW B, Full(h, B), NEW g \in Heaps, g.fault = "none", g.end \in PageEnds,
           NEW a \in B \cup {h.end}, NEW b \in B \cup {h.end}, a <= b,
           NEW C, NEW e \in Nat, Tiles(g, C, a, e), a <= e,
           (e = b /\ g.end = h.end) \/ (b = h.end /\ g.end = e /\ b <= e),
           SameOutside(h, g, FreeIn(h, B), a, e),
           NEW G, G = Outside(FreeIn(h, B), a, b) \cup FreeIn(g, C),
           NEW c, Linked(g, G, c),
           \A q \in FreeIn(g, C) : c[q] = ListIndex(Size(g, q)),
           \A q \in Outside(FreeIn(h, B), a, b) : c[q] = ListIndex(Size(h, q))
    PROVE  /\ Full(g, Replaced(B, a, b, C))
           /\ Others(h, B, g, Replaced(B, a, b, C), Inside(B, a, b), AllocatedIn(g, C))
<1> DEFINE F == FreeIn(h, B)
           D == Replaced(B, a, b, C)
<1>1. h \in Heaps /\ h.end \in Nat /\ g.end \in Nat /\ Tiles(h, B, 0, h.end) /\ F \subseteq B
  BY HeapFields DEF Full, Linked, FreeIn
<1>2. a \in Nat /\ b \in Nat /\ a <= h.end /\ b <= h.end
  BY <1>1, StartIn
<1>3. ASSUME NEW p \in B, p < a \/ p >= b
      PROVE  /\ p \in Nat /\ Size(h, p) \in Nat /\ Size(h, p) >= 4 /\ Last(h, p) = p + Size(h, p) - 1
             /\ \A r \in p .. Last(h, p) : r \in Rows /\ (r < a \/ r >= e)
             /\ p \in p .. Last(h, p) /\ Last(h, p) \in p .. Last(h, p)
  <2>1. Block(h, p) /\ p < h.end /\ p + Size(h, p) <= h.end
        /\ \A r \in p .. p + Size(h, p) - 1 : r \in Rows /\ r < h.end
    BY <1>1, TilesInside
  <2>2. p \in Nat /\ Size(h, p) \in Nat /\ Size(h, p) >= 4 /\ Last(h, p) = p + Size(h, p) - 1
    BY <2>1, BlockIn
  <2>3. p < a => p + Size(h, p) <= a
    <3>1. CASE a = h.end
      BY <2>1, <3>1
    <3>2. CASE a \in B
      BY <1>1, <3>2 DEF Tiles
    <3> QED
      BY <3>1, <3>2
  <2>4. p >= b => e = b
    BY <1>2, <2>1, <2>2
  <2> QED
    BY <1>2, <1>3, <2>1, <2>2, <2>3, <2>4
<1>4. ASSUME NEW p \in B, p < a \/ p >= b
      PROVE  g.mem[p] = h.mem[p] /\ g.mem[Last(h, p)] = h.mem[Last(h, p)]
  <2>1. p \notin LinkRows(F) /\ Last(h, p) \notin LinkRows(F)
    BY <1>1, LinksElsewhere
  <2> QED
    BY <1>3, <1>4, <2>1 DEF SameOutside
<1>5. Tiles(g, D, 0, g.end)
  <2>1. \A p \in B : p < a \/ p >= b =>
             g.mem[p] = h.mem[p] /\ g.mem[Last(h, p)] = h.mem[Last(h, p)]
    BY <1>4
  <2>2. (e = b /\ g.end = h.end) \/ (b = h.end /\ g.end = e)
    OBVIOUS
  <2> QED
    BY <1>1, <2>1, <2>2, TilesReplaced
<1>6. FreeIn(g, D) = G
  <2>1. \A p \in B : p < a \/ p >= b => g.mem[p] = h.mem[p]
    BY <1>4
  <2> QED
    BY <2>1 DEF FreeIn, Outside, Replaced, Below, From
<1>7. Linked(g, G, Classes(g))
  <2>1. ASSUME NEW q \in G PROVE Classes(g)[q] = c[q]
    <3>1. q \in Rows
      BY SpreadIn DEF Linked
    <3>2. CASE q \in FreeIn(g, C)
      BY <3>1, <3>2 DEF Classes
    <3>3. CASE q \in F /\ (q < a \/ q >= b)
      <4>1. Size(g, q) = Size(h, q)
        BY <1>1, <1>4, <3>3 DEF Size
      <4> QED
        BY <3>1, <3>3, <4>1 DEF Classes, Outside
    <3> QED
      BY <3>2, <3>3 DEF Outside
  <2> QED
    BY <2>1, LinkedClasses
<1>8. ASSUME NEW r \in Rows, r >= g.end PROVE g.mem[r] = Zero
  <2>1. r \in Nat /\ r >= h.end /\ r >= e
    BY <1>1, <1>2, <1>8, RowsIn
  <2>2. r \notin LinkRows(F)
    <3>1. ASSUME NEW q \in F PROVE r # q + 1 /\ r # q + 2
      <4>1. q + Size(h, q) <= h.end /\ Block(h, q)
        BY <1>1, TilesInside
      <4>2. q \in Nat /\ Size(h, q) \in Nat /\ Size(h, q) >= 4
        BY <4>1, BlockIn
      <4> QED
        BY <1>1, <2>1, <4>1, <4>2
    <3> QED
      BY <3>1 DEF LinkRows
  <2> QED
    BY <2>1, <2>2 DEF Full, SameOutside
<1>9. Full(g, D)
  BY <1>5, <1>6, <1>7, <1>8 DEF Full
<1>10. ASSUME NEW q \in B, ~(a <= q /\ q < b), h.mem[q].allocated = 1
       PROVE  /\ q \in D /\ q \notin C
              /\ \A r \in q .. Last(h, q) : g.mem[r] = h.mem[r]
  <2>1. q \in Nat /\ (q < a \/ q >= b)
    <3>1. Block(h, q)
      BY <1>1 DEF Tiles
    <3> QED
      BY <1>2, <1>10, <3>1, BlockIn
  <2>2. q \in D
    BY <2>1 DEF Replaced, Below, From
  <2>3. q \notin C
    <3>1. q >= b => q >= e
      BY <1>3, <2>1
    <3>2. \A x \in C : a <= x /\ x < e
      BY DEF Tiles
    <3> QED
      BY <1>2, <2>1, <3>1, <3>2
  <2>4. q \notin F
    BY <1>10 DEF FreeIn
  <2>5. \A r \in q .. Last(h, q) : r \notin LinkRows(F) /\ r \in Rows /\ (r < a \/ r >= e)
    BY <1>1, <1>3, <2>1, <2>4, LinksElsewhere
  <2> QED
    BY <2>2, <2>3, <2>5 DEF SameOutside
<1>11. ASSUME NEW q \in D, g.mem[q].allocated = 1, q \notin C
       PROVE  q \in B /\ ~(a <= q /\ q < b) /\ h.mem[q].allocated = 1
  <2>1. q \in B /\ (q < a \/ q >= b)
    BY <1>11 DEF Replaced, Below, From
  <2>2. q \in Nat
    BY <1>3, <2>1
  <2> QED
    BY <1>2, <1>4, <1>11, <2>1, <2>2
<1> QED
  BY <1>9, <1>10, <1>11 DEF Others, Inside, AllocatedIn

LEMMA FullIn ==
    ASSUME NEW h, NEW B, Full(h, B)
    PROVE  /\ h \in Heaps /\ h.end \in Nat /\ h.end \in PageEnds /\ h.fault = "none"
           /\ Tiles(h, B, 0, h.end) /\ FreeIn(h, B) \subseteq B
           /\ Linked(h, FreeIn(h, B), Classes(h)) /\ Tagged(h, FreeIn(h, B))
           /\ \A p \in B : TagAt(h, p) = h.mem[p] /\ p \in Rows /\ h.mem[p] \in TagWords
                           /\ Classes(h)[p] = ListIndex(Size(h, p)) /\ Classes(h)[p] \in Lists
<1>1. h \in Heaps /\ h.end \in Nat /\ Tiles(h, B, 0, h.end) /\ FreeIn(h, B) \subseteq B
  BY HeapFields DEF Full, Linked, FreeIn
<1>2. ASSUME NEW p \in B
      PROVE  /\ TagAt(h, p) = h.mem[p] /\ p \in Rows /\ h.mem[p] \in TagWords /\ IsTag(h.mem[p])
             /\ Classes(h)[p] = ListIndex(Size(h, p)) /\ Classes(h)[p] \in Lists
  <2>1. p \in Rows /\ h.mem[p] \in TagWords
    BY <1>1 DEF Tiles, Block
  <2> QED
    BY <1>1, <2>1, TagReads, ClassIn DEF Classes
<1> QED
  BY <1>1, <1>2 DEF Full, Tagged

WroteTags(h, g, p, a, d, s, r) ==
    /\ Keeps(h, g) /\ g.fault = h.fault /\ g.head = h.head
    /\ g.mem[p] = Tag(a, d, s, 0) /\ g.mem[p + s - 1] = Tag(a, d, s, r)
    /\ \A x \in Rows : x # p /\ x # p + s - 1 => g.mem[x] = h.mem[x]

\* Writing a header and a footer, outside the links.
LEMMA TagsLinks ==
    ASSUME NEW h, NEW F, NEW c, Linked(h, F, c), NEW p \in Rows \ LinkRows(F),
           NEW a \in {0, 1}, NEW d \in {0, 1}, NEW s \in Nat, NEW r \in Nat, s >= MINSIZE,
           p + s - 1 \in Rows \ LinkRows(F)
    PROVE  LET g == SetTags(h, p, a, d, s, r)
           IN  Linked(g, F, c) /\ WroteTags(h, g, p, a, d, s, r)
<1> DEFINE k == Store(h, p, Tag(a, d, s, 0))
           g == Store(k, p + s - 1, Tag(a, d, s, r))
<1>1. Tag(a, d, s, 0) \in TagWords /\ Tag(a, d, s, r) \in TagWords
  BY TagIn
<1>2. Linked(k, F, c) /\ Wrote(h, k, p, Tag(a, d, s, 0)) /\ k.fault = h.fault
  BY <1>1, LinkedStored
<1> HIDE DEF k
<1>3. Linked(g, F, c) /\ Wrote(k, g, p + s - 1, Tag(a, d, s, r)) /\ g.fault = k.fault
  BY <1>1, <1>2, LinkedStored
<1> HIDE DEF g
<1>4. p # p + s - 1
  BY RowsIn DEF MINSIZE
<1>5. Keeps(h, g) /\ g.head = h.head
  BY <1>2, <1>3 DEF Wrote, Keeps
<1>6. /\ g.mem[p] = Tag(a, d, s, 0) /\ g.mem[p + s - 1] = Tag(a, d, s, r)
      /\ \A x \in Rows : x # p /\ x # p + s - 1 => g.mem[x] = h.mem[x]
  BY <1>2, <1>3, <1>4 DEF Wrote
<1> QED
  BY <1>2, <1>3, <1>5, <1>6 DEF WroteTags, SetTags, k, g

Made(h, p, a, d, s, r) ==
    /\ Block(h, p) /\ Size(h, p) = s /\ Last(h, p) = p + s - 1
    /\ h.mem[p].allocated = a /\ h.mem[p].padded = d
    /\ h.mem[Last(h, p)].requested_size = r

LEMMA BlockMade ==
    ASSUME NEW h, NEW p \in Rows, NEW a \in {0, 1}, NEW d \in {0, 1}, NEW s \in Nat, NEW r \in Nat,
           s >= MINSIZE, s % ALIGNMENT = 0, p + s - 1 \in Rows, a = 0 => d = 0,
           h.mem[p] = Tag(a, d, s, 0), h.mem[p + s - 1] = Tag(a, d, s, r)
    PROVE  Made(h, p, a, d, s, r)
<1>1. /\ Tag(a, d, s, 0) \in TagWords /\ Tag(a, d, s, r) \in TagWords
      /\ Tag(a, d, s, 0).allocated = a /\ Tag(a, d, s, 0).padded = d
      /\ Tag(a, d, s, 0).block_size = s
      /\ Tag(a, d, s, r).allocated = a /\ Tag(a, d, s, r).padded = d
      /\ Tag(a, d, s, r).block_size = s /\ Tag(a, d, s, r).requested_size = r
  BY TagIn
<1>2. Size(h, p) = s /\ Last(h, p) = p + s - 1
  BY <1>1 DEF Size, Last
<1> QED
  BY <1>1, <1>2 DEF Made, Block, Size

\* Two blocks, one after the other.
LEMMA TilesTwo ==
    ASSUME NEW h, NEW p, NEW q, Block(h, p), Block(h, q), q = p + Size(h, p)
    PROVE  Tiles(h, {p, q}, p, q + Size(h, q))
<1>1. /\ p \in Nat /\ Size(h, p) \in Nat /\ Size(h, p) >= 4
      /\ q \in Nat /\ Size(h, q) \in Nat /\ Size(h, q) >= 4
  BY BlockIn
<1>2. Tiles(h, {p}, p, q) /\ Tiles(h, {q}, q, q + Size(h, q))
  BY TilesSingle
<1>3. Tiles(h, {p} \cup {q}, p, q + Size(h, q))
  BY <1>1, <1>2, TilesJoined
<1> QED
  BY <1>3

\* A free block leaves its list.
LEMMA UnlinkFull ==
    ASSUME NEW h, NEW B, Full(h, B), NEW p \in FreeIn(h, B), Unlink(h, p).fault = "none"
    PROVE  LET g == Unlink(h, p)
           IN  Linked(g, FreeIn(h, B) \ {p}, Classes(h)) /\ OnLinks(h, g, FreeIn(h, B))
<1>1. /\ Linked(h, FreeIn(h, B), Classes(h)) /\ Tagged(h, FreeIn(h, B))
      /\ TagAt(h, p) = h.mem[p] /\ Classes(h)[p] = ListIndex(Size(h, p)) /\ Classes(h)[p] \in Lists
  BY FullIn
<1> QED
  BY <1>1, UnlinkLinks DEF Size

\* The rows of a block that is in no list are in no list's way.
LEMMA UnlistedRows ==
    ASSUME NEW h, NEW B, Full(h, B), NEW p \in B, NEW G, G \subseteq B, p \notin G
    PROVE  /\ \A r \in p .. p + Size(h, p) - 1 : r \in Rows \ LinkRows(G)
           /\ p \in Nat /\ p + Size(h, p) \in B \cup {h.end} /\ Block(h, p)
           /\ \A q \in G : q \in Nat /\ (q + 4 <= p \/ q >= p + Size(h, p))
<1>1. h.end \in Nat /\ Tiles(h, B, 0, h.end)
  BY FullIn
<1>2. /\ Block(h, p) /\ p + Size(h, p) \in B \cup {h.end}
      /\ \A r \in p .. p + Size(h, p) - 1 : r \in Rows
  BY <1>1, TilesInside
<1>3. p \in Nat /\ Size(h, p) \in Nat /\ Last(h, p) = p + Size(h, p) - 1
  BY <1>2, BlockIn
<1>4. \A r \in p .. p + Size(h, p) - 1 : r \notin LinkRows(G)
  BY <1>1, <1>3, LinksElsewhere
<1>5. ASSUME NEW q \in G PROVE q \in Nat /\ (q + 4 <= p \/ q >= p + Size(h, p))
  <2>1. Block(h, q)
    BY <1>1 DEF Tiles
  <2>2. q \in Nat /\ Size(h, q) \in Nat /\ Size(h, q) >= 4
    BY <2>1, BlockIn
  <2>3. p + Size(h, p) <= q \/ q + Size(h, q) <= p
    BY <1>1, Apart
  <2> QED
    BY <1>3, <2>2, <2>3
<1> QED
  BY <1>2, <1>3, <1>4, <1>5

-----------------------------------------------------------------------------
(* Allocating a block *)

\* Block p of the heap with blocks C was granted for a request of `size' rows,
\* which needs asize.
Granted(h, C, p, asize, size) ==
    /\ p \in C /\ h.mem[p].allocated = 1 /\ asize <= Size(h, p)
    /\ h.mem[Last(h, p)].requested_size = size
    /\ Size(h, p) = asize => h.mem[p].padded = Padded(size, asize)

\* u is the heap h with blocks B after p, of s rows, was taken out of its list;
\* G are the other free blocks.
TakenOut(h, B, p, s, G, u) ==
    /\ Full(h, B) /\ p \in FreeIn(h, B) /\ s = Size(h, p) /\ G = FreeIn(h, B) \ {p}
    /\ Linked(u, G, Classes(h)) /\ OnLinks(h, u, FreeIn(h, B))
    /\ u.fault = "none"

LEMMA TakenOutIn ==
    ASSUME NEW h, NEW B, NEW p, NEW s, NEW G, NEW u, TakenOut(h, B, p, s, G, u)
    PROVE  /\ p \in B \cup {h.end} /\ p + s \in B \cup {h.end} /\ p \in Nat
           /\ s \in Nat /\ s >= 4 /\ s % ALIGNMENT = 0
           /\ u \in Heaps /\ u.end = h.end /\ u.end \in PageEnds
           /\ \A r \in p .. p + s - 1 : r \in Rows \ LinkRows(G)
           /\ \A q \in G : q \in Nat /\ (q + 4 <= p \/ q >= p + s)
           /\ \A q \in G : Classes(h)[q] = ListIndex(Size(h, q))
           /\ Outside(FreeIn(h, B), p, p + s) = G /\ Inside(B, p, p + s) = {p}
           /\ SameOutside(h, u, FreeIn(h, B), p, p + s)
<1> DEFINE F == FreeIn(h, B)
<1>1. Full(h, B) /\ p \in F /\ F \subseteq B /\ h.end \in Nat /\ h.end \in PageEnds
      /\ Tiles(h, B, 0, h.end) /\ s = Size(h, p) /\ G = F \ {p}
      /\ \A q \in G : Classes(h)[q] = ListIndex(Size(h, q))
  BY FullIn DEF TakenOut
<1>2. /\ \A r \in p .. p + s - 1 : r \in Rows \ LinkRows(G)
      /\ p \in Nat /\ p + s \in B \cup {h.end} /\ Block(h, p)
      /\ \A q \in G : q \in Nat /\ (q + 4 <= p \/ q >= p + s)
  <2>1. G \subseteq B /\ p \notin G /\ p \in B
    BY <1>1
  <2> HIDE DEF F
  <2> QED
    BY <1>1, <2>1, UnlistedRows
<1>3. s \in Nat /\ s >= 4 /\ s % ALIGNMENT = 0
  BY <1>1, <1>2, BlockIn DEF Block, MINSIZE
<1>4. u \in Heaps /\ u.end = h.end /\ \A r \in Rows \ LinkRows(F) : u.mem[r] = h.mem[r]
  BY DEF TakenOut, OnLinks, Keeps
<1>5. Outside(F, p, p + s) = G
  <2>1. ASSUME NEW q \in F PROVE (q < p \/ q >= p + s) <=> q # p
    BY <1>1, <1>2, <1>3
  <2> HIDE DEF F
  <2> QED
    BY <1>1, <2>1 DEF Outside
<1>6. Inside(B, p, p + s) = {p}
  <2>1. ASSUME NEW q \in B, p <= q, q < p + s PROVE q = p
    <3>1. p = q \/ p + Size(h, p) <= q \/ q + Size(h, q) <= p
      BY <1>1, Apart
    <3>2. Block(h, q)
      BY <1>1 DEF Tiles
    <3>3. q \in Nat /\ Size(h, q) \in Nat /\ Size(h, q) >= 4
      BY <3>2, BlockIn
    <3> QED
      BY <1>1, <1>2, <1>3, <2>1, <3>1, <3>3
  <2>2. p \in B /\ p <= p /\ p < p + s
    BY <1>1, <1>2, <1>3
  <2> QED
    BY <2>1, <2>2 DEF Inside
<1> QED
  BY <1>1, <1>2, <1>3, <1>4, <1>5, <1>6 DEF SameOutside

LEMMA PaddedIn == \A size, n : Padded(size, n) \in {0, 1}
  BY DEF Padded

LEMMA AllocateWhole ==
    ASSUME NEW h, NEW B, NEW p, NEW s, NEW G, NEW u, TakenOut(h, B, p, s, G, u),
           NEW asize \in Nat, asize <= s, NEW size \in Nat
    PROVE  LET g == SetTags(u, p, 1, Padded(size, asize), s, size)
           IN  \E C : /\ Full(g, C) /\ Others(h, B, g, C, {p}, {p})
                      /\ Granted(g, C, p, asize, size)
<1> DEFINE F == FreeIn(h, B)
           b == p + s
           d == Padded(size, asize)
           g == SetTags(u, p, 1, d, s, size)
           c == Classes(h)
<1>1. /\ p \in B \cup {h.end} /\ b \in B \cup {h.end} /\ p \in Nat
      /\ s \in Nat /\ s >= 4 /\ s % ALIGNMENT = 0
      /\ u \in Heaps /\ u.end = h.end /\ u.end \in PageEnds
      /\ \A r \in p .. b - 1 : r \in Rows \ LinkRows(G)
      /\ \A q \in G : c[q] = ListIndex(Size(h, q))
      /\ Outside(F, p, b) = G /\ Inside(B, p, b) = {p}
      /\ SameOutside(h, u, F, p, b)
  BY TakenOutIn
<1>2. Full(h, B) /\ Linked(u, G, c) /\ u.fault = "none" /\ d \in {0, 1}
  BY PaddedIn DEF TakenOut
<1> HIDE DEF F, d, c
<1>3. p \in Rows \ LinkRows(G) /\ p + s - 1 \in Rows \ LinkRows(G) /\ s >= MINSIZE
  <2>1. p \in p .. b - 1 /\ p + s - 1 \in p .. b - 1
    BY <1>1
  <2> QED
    BY <1>1, <2>1 DEF MINSIZE
<1>4. Linked(g, G, c) /\ WroteTags(u, g, p, 1, d, s, size)
  BY <1>1, <1>2, <1>3, TagsLinks
<1> HIDE DEF g
<1>5. /\ Block(g, p) /\ Size(g, p) = s /\ Last(g, p) = p + s - 1
      /\ g.mem[p].allocated = 1 /\ g.mem[p].padded = d
      /\ g.mem[Last(g, p)].requested_size = size
  <2>1. Made(g, p, 1, d, s, size)
    BY <1>1, <1>2, <1>3, <1>4, BlockMade DEF WroteTags
  <2> QED
    BY <2>1 DEF Made
<1>6. g \in Heaps /\ g.fault = "none" /\ g.end = h.end /\ g.end \in PageEnds
  BY <1>1, <1>2, <1>4 DEF Keeps, WroteTags
<1>7. Tiles(g, {p}, p, b)
  BY <1>5, TilesSingle
<1>8. FreeIn(g, {p}) = {} /\ AllocatedIn(g, {p}) = {p}
  BY <1>5 DEF FreeIn, AllocatedIn
<1>9. SameOutside(h, g, F, p, b)
  <2> SUFFICES ASSUME NEW r \in Rows, r < p \/ r >= b, r \notin LinkRows(F)
               PROVE  g.mem[r] = h.mem[r]
    BY DEF SameOutside
  <2>1. r \in Nat
    BY RowsIn
  <2>2. r # p /\ r # p + s - 1
    BY <1>1, <2>1
  <2>3. g.mem[r] = u.mem[r]
    BY <1>4, <2>2 DEF WroteTags
  <2>4. u.mem[r] = h.mem[r]
    BY <1>1 DEF SameOutside
  <2> QED
    BY <2>3, <2>4
<1>10. p <= b /\ b \in Nat
  BY <1>1
<1> DEFINE C == Replaced(B, p, b, {p})
<1>11. Full(g, C) /\ Others(h, B, g, C, {p}, {p})
  <2>1. G = Outside(F, p, b) \cup FreeIn(g, {p})
    BY <1>1, <1>8
  <2>2. \A q \in FreeIn(g, {p}) : c[q] = ListIndex(Size(g, q))
    BY <1>8
  <2>3. \A q \in Outside(F, p, b) : c[q] = ListIndex(Size(h, q))
    BY <1>1
  <2>4. (b = b /\ g.end = h.end) \/ (b = h.end /\ g.end = b /\ b <= b)
    BY <1>6
  <2> HIDE DEF b
  <2>5. Full(g, C) /\ Others(h, B, g, C, Inside(B, p, b), AllocatedIn(g, {p}))
    BY <1>1, <1>2, <1>4, <1>6, <1>7, <1>9, <1>10, <2>1, <2>2, <2>3, <2>4, Remade DEF F
  <2> QED
    BY <1>1, <1>8, <2>5
<1>12. Granted(g, C, p, asize, size)
  <2>1. p \in C
    BY DEF Replaced
  <2> QED
    BY <1>5, <2>1 DEF Granted, d
<1> QED
  BY <1>11, <1>12 DEF g, d

LEMMA AllocateSplit ==
    ASSUME NEW h, NEW B, NEW p, NEW s, NEW G, NEW u, TakenOut(h, B, p, s, G, u),
           NEW asize \in Nat, asize >= MINSIZE, asize % ALIGNMENT = 0, s - asize >= MINSIZE,
           NEW size \in Nat
    PROVE  LET g == Allocate(u, p, s, asize, size)
           IN  \E C : /\ Full(g, C) /\ Others(h, B, g, C, {p}, {p})
                      /\ Granted(g, C, p, asize, size)
<1> DEFINE F == FreeIn(h, B)
           b == p + s
           rest == p + asize
           n == s - asize
           d == Padded(size, asize)
           i == ListIndex(n)
           t == SetTags(u, p, 1, d, asize, size)
           v == SetTags(t, rest, 0, 0, n, 0)
           w == SetPrev(v, rest, Null)
           g == Push(w, i, rest)
           c == Classes(h)
           e == [q \in Rows |-> IF q = rest THEN i ELSE c[q]]
<1>1. /\ p \in B \cup {h.end} /\ b \in B \cup {h.end} /\ p \in Nat
      /\ s \in Nat /\ s >= 4 /\ s % ALIGNMENT = 0
      /\ u \in Heaps /\ u.end = h.end /\ u.end \in PageEnds
      /\ \A r \in p .. b - 1 : r \in Rows \ LinkRows(G)
      /\ \A q \in G : q \in Nat /\ (q + 4 <= p \/ q >= b)
      /\ \A q \in G : c[q] = ListIndex(Size(h, q))
      /\ Outside(F, p, b) = G /\ Inside(B, p, b) = {p}
      /\ SameOutside(h, u, F, p, b)
  BY TakenOutIn
<1>2. Full(h, B) /\ Linked(u, G, c) /\ u.fault = "none" /\ d \in {0, 1}
  BY PaddedIn DEF TakenOut
<1>3. Allocate(u, p, s, asize, size) = g
  BY DEF Allocate
<1>4. /\ n \in Nat /\ n >= MINSIZE /\ n % ALIGNMENT = 0 /\ rest \in Nat /\ i \in Lists
      /\ n >= 4 /\ asize >= 4 /\ s = asize + n
  <2>1. n \in Nat /\ n >= 4 /\ asize >= 4
    BY <1>1 DEF MINSIZE
  <2>2. n % ALIGNMENT = 0
    BY <1>1, <2>1 DEF ALIGNMENT
  <2> QED
    BY <1>1, <2>1, <2>2, ClassIn
<1> HIDE DEF F, d, c, i, n
<1>5. \A r \in Nat : p <= r /\ r < b => r \in Rows \ LinkRows(G)
  BY <1>1
<1>6. rest + n = b /\ p < rest /\ rest < b /\ p + asize - 1 < rest
  BY <1>1, <1>4
<1>7. /\ p \in Rows \ LinkRows(G) /\ p + asize - 1 \in Rows \ LinkRows(G)
      /\ rest \in Rows \ LinkRows(G) /\ rest + n - 1 \in Rows \ LinkRows(G)
      /\ rest + 1 \in Rows \ LinkRows(G) /\ rest + 2 \in Rows \ LinkRows(G)
  <2>1. /\ p \in Nat /\ p <= p /\ p < b
        /\ p + asize - 1 \in Nat /\ p <= p + asize - 1 /\ p + asize - 1 < b
        /\ rest \in Nat /\ p <= rest /\ rest < b
        /\ rest + n - 1 \in Nat /\ p <= rest + n - 1 /\ rest + n - 1 < b
        /\ rest + 1 \in Nat /\ p <= rest + 1 /\ rest + 1 < b
        /\ rest + 2 \in Nat /\ p <= rest + 2 /\ rest + 2 < b
    BY <1>1, <1>4
  <2> HIDE DEF b, rest
  <2> QED
    BY <1>5, <2>1
<1>8. Linked(t, G, c) /\ WroteTags(u, t, p, 1, d, asize, size)
  BY <1>2, <1>7, TagsLinks
<1> HIDE DEF t, rest
<1>9. Linked(v, G, c) /\ WroteTags(t, v, rest, 0, 0, n, 0)
  BY <1>4, <1>7, <1>8, TagsLinks
<1> HIDE DEF v
<1>10. /\ Linked(w, G, c) /\ Wrote(v, w, rest + 2, Zero) /\ w.fault = v.fault
       /\ PrevOf(w, rest) = Null
  <2>1. w = Store(v, rest + 2, Zero)
    BY DEF SetPrev, Zero
  <2>2. Linked(w, G, c) /\ Wrote(v, w, rest + 2, Zero) /\ w.fault = v.fault
    BY <1>7, <1>9, <2>1, LinkedStored
  <2>3. w \in Heaps /\ w.mem[rest + 2] = Link(Null)
    BY <1>7, <2>2 DEF Wrote, Keeps, Zero
  <2> QED
    BY <1>7, <2>2, <2>3, LinkReads DEF PrevOf
<1> HIDE DEF w
<1>11. rest \notin G /\ Spread(G \cup {rest})
  <2>1. \A q \in G : q + 4 <= rest \/ rest + 4 <= q
    BY <1>1, <1>4, <1>6
  <2>2. rest \notin G
    BY <1>1, <1>4, <2>1
  <2>3. Spread(G)
    BY <1>2 DEF Linked
  <2> QED
    BY <1>4, <1>7, <2>1, <2>2, <2>3 DEF Spread
<1>12. e[rest] = i /\ \A q \in G : e[q] = c[q]
  <2>1. \A q \in G : q \in Rows
    BY <1>2, SpreadIn DEF Linked
  <2> QED
    BY <1>7, <1>11, <2>1
<1> HIDE DEF e
<1>13. Linked(g, G \cup {rest}, e) /\ OnLinks(w, g, G \cup {rest}) /\ g.fault = w.fault
  <2>1. Linked(w, G, e)
    BY <1>10, <1>12, LinkedClasses
  <2> QED
    BY <1>4, <1>10, <1>11, <1>12, <2>1, PushLinks
<1> HIDE DEF g
<1>14. /\ g \in Heaps /\ g.fault = "none" /\ g.end = h.end /\ g.end \in PageEnds
       /\ \A r \in Rows \ LinkRows(G \cup {rest}) : g.mem[r] = w.mem[r]
  BY <1>1, <1>2, <1>8, <1>9, <1>10, <1>13 DEF OnLinks, Keeps, WroteTags, Wrote
<1>15. /\ g.mem[p] = Tag(1, d, asize, 0) /\ g.mem[p + asize - 1] = Tag(1, d, asize, size)
       /\ g.mem[rest] = Tag(0, 0, n, 0) /\ g.mem[rest + n - 1] = Tag(0, 0, n, 0)
  <2>1. ASSUME NEW r \in {p, p + asize - 1, rest, rest + n - 1}
        PROVE  g.mem[r] = v.mem[r] /\ r \in Rows
    <3>1. r # rest + 1 /\ r # rest + 2
      BY <1>1, <1>4, <1>6, <2>1
    <3>2. r \in Rows \ LinkRows(G \cup {rest})
      BY <1>7, <2>1, <3>1 DEF LinkRows
    <3> QED
      BY <1>10, <1>14, <3>1, <3>2 DEF Wrote
  <2>2. ASSUME NEW r \in {p, p + asize - 1} PROVE v.mem[r] = t.mem[r]
    <3>1. r \in Rows /\ r # rest /\ r # rest + n - 1
      BY <1>1, <1>4, <1>6, <1>7, <2>2
    <3> QED
      BY <1>9, <3>1 DEF WroteTags
  <2> QED
    BY <1>8, <1>9, <2>1, <2>2 DEF WroteTags
<1>16. /\ Block(g, p) /\ Size(g, p) = asize /\ g.mem[p].allocated = 1 /\ g.mem[p].padded = d
       /\ g.mem[Last(g, p)].requested_size = size
  <2>1. p \in Rows /\ p + asize - 1 \in Rows
    BY <1>7
  <2>2. g.mem[p] = Tag(1, d, asize, 0) /\ g.mem[p + asize - 1] = Tag(1, d, asize, size)
    BY <1>15
  <2>3. Made(g, p, 1, d, asize, size)
    BY <1>2, <2>1, <2>2, BlockMade
  <2> QED
    BY <2>3 DEF Made
<1>17. Block(g, rest) /\ Size(g, rest) = n /\ g.mem[rest].allocated = 0
  BY <1>4, <1>7, <1>15, BlockMade DEF Made
<1>18. Tiles(g, {p, rest}, p, b)
  BY <1>6, <1>16, <1>17, TilesTwo DEF rest
<1>19. FreeIn(g, {p, rest}) = {rest} /\ AllocatedIn(g, {p, rest}) = {p}
  BY <1>16, <1>17 DEF FreeIn, AllocatedIn
<1>20. SameOutside(h, g, F, p, b)
  <2> SUFFICES ASSUME NEW r \in Rows, r < p \/ r >= b, r \notin LinkRows(F)
               PROVE  g.mem[r] = h.mem[r]
    BY DEF SameOutside
  <2>1. r \in Nat /\ r # p /\ r # p + asize - 1 /\ r # rest /\ r # rest + n - 1
        /\ r # rest + 1 /\ r # rest + 2
    BY <1>1, <1>4, <1>6, RowsIn
  <2>2. r \notin LinkRows(G)
    BY <1>1 DEF LinkRows, Outside
  <2>3. r \notin LinkRows(G \cup {rest})
    BY <2>1, <2>2 DEF LinkRows
  <2>4. g.mem[r] = w.mem[r] /\ w.mem[r] = v.mem[r] /\ v.mem[r] = t.mem[r] /\ t.mem[r] = u.mem[r]
    BY <1>8, <1>9, <1>10, <1>14, <2>1, <2>3 DEF WroteTags, Wrote
  <2>5. u.mem[r] = h.mem[r]
    BY <1>1 DEF SameOutside
  <2> QED
    BY <2>4, <2>5
<1> DEFINE C == Replaced(B, p, b, {p, rest})
<1>21. Full(g, C) /\ Others(h, B, g, C, {p}, {p})
  <2>1. G \cup {rest} = Outside(F, p, b) \cup FreeIn(g, {p, rest})
    BY <1>1, <1>19
  <2>2. \A q \in FreeIn(g, {p, rest}) : e[q] = ListIndex(Size(g, q))
    BY <1>12, <1>17, <1>19 DEF i
  <2>3. \A q \in Outside(F, p, b) : e[q] = ListIndex(Size(h, q))
    BY <1>1, <1>12
  <2>4. (b = b /\ g.end = h.end) \/ (b = h.end /\ g.end = b /\ b <= b)
    BY <1>14
  <2>5. p <= b /\ b \in Nat
    BY <1>1
  <2> HIDE DEF b
  <2>6. Full(g, C) /\ Others(h, B, g, C, Inside(B, p, b), AllocatedIn(g, {p, rest}))
    BY <1>1, <1>2, <1>13, <1>14, <1>18, <1>20, <2>1, <2>2, <2>3, <2>4, <2>5, Remade DEF F
  <2> QED
    BY <1>1, <1>19, <2>6
<1>22. Granted(g, C, p, asize, size)
  <2>1. p \in C
    BY DEF Replaced
  <2> QED
    BY <1>16, <2>1 DEF Granted, d
<1> QED
  BY <1>3, <1>21, <1>22

\* place
LEMMA PlaceFull ==
    ASSUME NEW h, NEW B, Full(h, B), NEW p \in FreeIn(h, B),
           NEW asize \in Nat, asize >= MINSIZE, asize % ALIGNMENT = 0, asize <= Size(h, p),
           NEW size \in Nat, Place(h, p, asize, size).fault = "none"
    PROVE  LET g == Place(h, p, asize, size)
           IN  \E C : /\ Full(g, C) /\ Others(h, B, g, C, {p}, {p})
                      /\ Granted(g, C, p, asize, size)
<1> DEFINE u == Unlink(h, p)
           s == Size(h, p)
           G == FreeIn(h, B) \ {p}
<1>1. h \in Heaps /\ Rec(h) /\ TagAt(h, p).block_size = s /\ p \in B
  BY FullIn, HeapFields DEF Size
<1>2. Place(h, p, asize, size) = Allocate(u, p, s, asize, size)
  BY <1>1 DEF Place
<1>3. u.fault = "none"
  <2>1. Rec(u)
    BY <1>1, UnlinkFrame DEF Frame
  <2> HIDE DEF u, s
  <2> QED
    BY <1>2, <2>1, AllocateFrame DEF Frame
<1>4. TakenOut(h, B, p, s, G, u)
  BY <1>3, UnlinkFull DEF TakenOut
<1>5. s \in Nat
  BY <1>4, TakenOutIn
<1> HIDE DEF u, s, G
<1>6. CASE s - asize >= MINSIZE
  BY <1>2, <1>4, <1>6, AllocateSplit
<1>7. CASE ~(s - asize >= MINSIZE)
  <2>1. Allocate(u, p, s, asize, size) = SetTags(u, p, 1, Padded(size, asize), s, size)
    BY <1>7 DEF Allocate
  <2>2. asize <= s
    BY DEF s
  <2> QED
    BY <1>2, <1>4, <2>1, <2>2, AllocateWhole
<1> QED
  BY <1>6, <1>7

-----------------------------------------------------------------------------
(* Joining and freeing *)

\* What merging block q with the rows up to b leaves.
Merged(h, F, q, b, g) ==
    /\ Keeps(h, g) /\ g.fault = "none"
    /\ g.mem[q] = Tag(0, 0, b - q, 0)
    /\ b - 1 \in Rows /\ g.mem[b - 1] \in TagWords
    /\ g.mem[b - 1].allocated = 0 /\ g.mem[b - 1].padded = 0 /\ g.mem[b - 1].block_size = b - q
    /\ \A r \in Rows \ LinkRows(F) : r # q /\ r # b - 1 => g.mem[r] = h.mem[r]

LEMMA TagResized ==
    ASSUME NEW w \in TagWords, NEW s \in Nat
    PROVE  LET v == [w EXCEPT !.block_size = s]
           IN  /\ v \in TagWords /\ v.block_size = s /\ v.allocated = w.allocated
               /\ v.padded = w.padded /\ v.requested_size = w.requested_size
  BY DEF TagWords

LEMMA TagsEqual ==
    ASSUME NEW w \in TagWords
    PROVE  w = Tag(w.allocated, w.padded, w.block_size, w.requested_size)
  BY DEF TagWords, Tag

\* Join writes one header and one footer.
LEMMA JoinLinks ==
    ASSUME NEW h, NEW G, NEW c, Linked(h, G, c), h.fault = "none", NEW q, NEW n \in Nat, NEW m, NEW s \in Nat,
           q \in Rows \ LinkRows(G), h.mem[q] = Tag(0, 0, n, 0), TagAt(h, m).block_size = s,
           m + s - 1 \in Rows \ LinkRows(G), h.mem[m + s - 1] \in TagWords,
           h.mem[m + s - 1].allocated = 0, h.mem[m + s - 1].padded = 0,
           m = q + n, n >= 4
    PROVE  LET g == Join(h, q, m)
           IN  Linked(g, G, c) /\ Merged(h, {}, q, m + s, g)
<1> DEFINE whole == n + s
           last == m + s - 1
           w == [h.mem[q] EXCEPT !.block_size = whole]
           v == [h.mem[last] EXCEPT !.block_size = whole]
           k == Store(h, q, w)
           g == Store(k, last, v)
<1>1. h \in Heaps /\ q \in Nat /\ m \in Nat /\ whole \in Nat
  BY RowsIn DEF Linked
<1>2. Tag(0, 0, n, 0) \in TagWords /\ Tag(0, 0, n, 0).block_size = n
  BY TagIn
<1>3. TagAt(h, q) = h.mem[q] /\ TagAt(h, last) = h.mem[last]
  BY <1>1, <1>2, TagReads
<1>4. Join(h, q, m) = g
  BY <1>2, <1>3 DEF Join
<1>5. w \in TagWords /\ v \in TagWords /\ w = Tag(0, 0, whole, 0)
      /\ v.block_size = whole /\ v.allocated = 0 /\ v.padded = 0
  <2>1. /\ w \in TagWords /\ w.block_size = whole /\ w.allocated = 0
        /\ w.padded = 0 /\ w.requested_size = 0
    BY <1>1, <1>2, TagResized, TagIn
  <2>2. v \in TagWords /\ v.block_size = whole /\ v.allocated = 0 /\ v.padded = 0
    BY <1>1, TagResized
  <2> HIDE DEF w, v
  <2> QED
    BY <2>1, <2>2, TagsEqual
<1>6. q # last /\ whole = m + s - q /\ last = m + s - 1 /\ last \in Rows \ LinkRows(G)
      /\ w \in TagWords \cup DataWords \cup {Zero} /\ v \in TagWords \cup DataWords \cup {Zero}
  BY <1>1, <1>5
<1> HIDE DEF w, v, last
<1>7. Linked(k, G, c) /\ Wrote(h, k, q, w) /\ k.fault = h.fault
  BY <1>6, LinkedStored
<1> HIDE DEF k
<1>8. Linked(g, G, c) /\ Wrote(k, g, last, v) /\ g.fault = k.fault
  <2>1. Linked(k, G, c) /\ last \in Rows \ LinkRows(G) /\ v \in TagWords \cup DataWords \cup {Zero}
    BY <1>6, <1>7
  <2> QED
    BY <2>1, LinkedStored
<1> HIDE DEF g
<1>9. Keeps(h, g) /\ g.fault = "none"
  BY <1>7, <1>8 DEF Wrote, Keeps
<1>10. g.mem[q] = w /\ g.mem[last] = v
  BY <1>6, <1>7, <1>8 DEF Wrote
<1>11. \A r \in Rows : r # q /\ r # last => g.mem[r] = h.mem[r]
  BY <1>7, <1>8 DEF Wrote
<1>12. Merged(h, {}, q, m + s, g)
  <2>1. last \in Rows /\ g.mem[last] \in TagWords
        /\ g.mem[last].allocated = 0 /\ g.mem[last].padded = 0 /\ g.mem[last].block_size = whole
    BY <1>5, <1>6, <1>10
  <2>2. g.mem[q] = Tag(0, 0, whole, 0)
    BY <1>5, <1>10
  <2> HIDE DEF whole
  <2> QED
    BY <1>6, <1>9, <1>11, <2>1, <2>2 DEF Merged
<1> QED
  BY <1>4, <1>8, <1>12

\* No list leads to the row after the last block, which holds nothing.
LEMMA UnlinkEnd ==
    ASSUME NEW h, NEW F, NEW c, Linked(h, F, c), Tagged(h, F), NEW m \in Rows, m \notin F,
           m + 1 \in Rows, m + 2 \in Rows, m + 1 \notin LinkRows(F), m + 2 \notin LinkRows(F),
           h.mem[m + 1] = Zero, h.mem[m + 2] = Zero, Unlink(h, m).fault = "none"
    PROVE  LET g == Unlink(h, m)
           IN  Linked(g, F, c) /\ Keeps(h, g) /\ \A r \in Rows : g.mem[r] = h.mem[r]
<1> DEFINE i == ListIndex(TagAt(h, m).block_size)
           T == {x \in Rows : NextOf(h, x) = m}
           before == Seek(h, h.head[i], T)
           d == Drop(h, i, m)
           k == SetNext(d, m, Null)
           g == SetPrev(k, m, Null)
<1>1. h \in Heaps /\ Spread(F) /\ Neighbours(h, F, c) /\ Headed(h, F, c) /\ i \in Lists
  BY ClassIn DEF Linked
<1>2. NextOf(h, m) = Null /\ PrevOf(h, m) = Null
  BY <1>1, LinkReads DEF NextOf, PrevOf, Zero
<1>3. m # Null /\ m # Wild
  BY RowsIn
<1>4. h.head[i] \in F \cup {Null} /\ h.head[i] # m
  BY <1>1, <1>3 DEF Headed
<1>5. before \in {Null, Wild, Loop}
  <2>1. \A q \in F : q \in Rows /\ IsTag(h.mem[q])
    BY <1>1, SpreadIn DEF Tagged
  <2>2. \A q \in F : NextOf(h, q) \in F \cup {Null, Wild}
    BY <1>1 DEF Neighbours
  <2>3. before \in (F \cap T) \cup {Null, Wild, Loop}
    <3> HIDE DEF T
    <3> QED
      BY <1>4, <2>1, <2>2, SoughtIn
  <2>4. F \cap T = {}
    BY <1>3, <2>2
  <2> QED
    BY <2>3, <2>4
<1>6. d.fault = "none"
  <2>1. Rec(d) /\ Frame(d, Detach(d, m))
    BY <1>1, HeapFields, DropFrame, DetachFrame DEF Frame
  <2> QED
    BY <2>1 DEF Unlink, Frame
<1>7. d = h
  <2>1. d = Cut(h, i, m, before)
    BY DEF Drop
  <2> HIDE DEF before, d, i
  <2>2. before = Null
    <3>1. [h EXCEPT !.fault = "wild"].fault # "none" /\ [h EXCEPT !.fault = "loop"].fault # "none"
      <4>1. Rec(h)
        BY <1>1, HeapFields
      <4> QED
        BY <4>1 DEF Rec
    <3>2. CASE before = Wild
      <4>1. d = [h EXCEPT !.fault = "wild"]
        BY <1>4, <2>1, <3>2, RowsIn DEF Cut
      <4> QED
        BY <1>6, <3>1, <4>1
    <3>3. CASE before = Loop
      <4>1. d = [h EXCEPT !.fault = "loop"]
        BY <1>4, <2>1, <3>3, RowsIn DEF Cut
      <4> QED
        BY <1>6, <3>1, <4>1
    <3> QED
      BY <1>5, <3>2, <3>3
  <2>3. h.head[i] # m
    BY <1>4 DEF i
  <2> QED
    BY <2>1, <2>2, <2>3, RowsIn DEF Cut
<1>8. Unlink(h, m) = g
  BY <1>2, <1>7 DEF Unlink, Detach, Bypass
<1> HIDE DEF d
<1>9. Linked(k, F, c) /\ Wrote(h, k, m + 1, Zero)
  <2>1. k = Store(h, m + 1, Zero)
    BY <1>7 DEF SetNext, Zero
  <2> HIDE DEF k
  <2> QED
    BY <2>1, LinkedStored
<1> HIDE DEF k
<1>10. Linked(g, F, c) /\ Wrote(k, g, m + 2, Zero)
  <2>1. g = Store(k, m + 2, Zero)
    BY DEF SetPrev, Zero
  <2> HIDE DEF g
  <2> QED
    BY <1>9, <2>1, LinkedStored
<1> HIDE DEF g
<1>11. Keeps(h, g) /\ \A r \in Rows : g.mem[r] = h.mem[r]
  BY <1>9, <1>10 DEF Wrote, Keeps
<1> QED
  BY <1>8, <1>10, <1>11

\* Block q of n rows is free and in no list; the lists are those of F.
Loose(h, F, c, q, n) ==
    /\ Linked(h, F, c) /\ Tagged(h, F) /\ h.fault = "none"
    /\ q \in Nat /\ n \in Nat /\ n >= 4
    /\ \A r \in Nat : q <= r /\ r < q + n => r \in Rows \ LinkRows(F)
    /\ \A p \in F : p \in Nat /\ (p + 4 <= q \/ p >= q + n)
    /\ h.mem[q] = Tag(0, 0, n, 0) /\ h.mem[q + n - 1] = Tag(0, 0, n, 0)

\* What begins at m: a free block up to b, the end of the heap, or (with the end of
\* memory) what reads as an allocated block.
FreeNext(h, F, c, m, b) ==
    /\ m \in F /\ Block(h, m) /\ h.mem[m].allocated = 0 /\ b = m + Size(h, m)
    /\ c[m] = ListIndex(Size(h, m)) /\ c[m] \in Lists
    /\ m \notin LinkRows(F) /\ Last(h, m) \notin LinkRows(F)

EndNext(h, F, m) ==
    /\ m \in Rows /\ m + 1 \in Rows /\ m + 2 \in Rows /\ m \notin F
    /\ m + 1 \notin LinkRows(F) /\ m + 2 \notin LinkRows(F)
    /\ h.mem[m] = Zero /\ h.mem[m + 1] = Zero /\ h.mem[m + 2] = Zero

TakenNext(h, F, m) ==
    m \notin F /\ (m \in Rows => h.mem[m] \in TagWords /\ h.mem[m].allocated = 1)

Followed(h, F, c, m, b) ==
    \/ FreeNext(h, F, c, m, b)
    \/ b = m /\ EndNext(h, F, m)
    \/ b = m /\ TakenNext(h, F, m)

LEMMA LooseIn ==
    ASSUME NEW h, NEW F, NEW c, NEW q, NEW n, Loose(h, F, c, q, n)
    PROVE  /\ h \in Heaps /\ q \in Nat /\ n \in Nat /\ n >= 4 /\ q \notin F
           /\ q \in Rows \ LinkRows(F) /\ q + 1 \in Rows \ LinkRows(F) /\ q + 2 \in Rows \ LinkRows(F)
           /\ q + n - 1 \in Rows \ LinkRows(F)
           /\ TagAt(h, q) = h.mem[q] /\ TagAt(h, q).block_size = n
           /\ h.mem[q + n - 1] \in TagWords /\ h.mem[q + n - 1].allocated = 0
           /\ h.mem[q + n - 1].padded = 0 /\ h.mem[q + n - 1].block_size = n
<1>1. h \in Heaps /\ q \in Nat /\ n \in Nat /\ n >= 4
  BY DEF Loose, Linked
<1>2. /\ q \in Rows \ LinkRows(F) /\ q + 1 \in Rows \ LinkRows(F) /\ q + 2 \in Rows \ LinkRows(F)
      /\ q + n - 1 \in Rows \ LinkRows(F)
  <2>1. /\ q \in Nat /\ q <= q /\ q < q + n
        /\ q + 1 \in Nat /\ q <= q + 1 /\ q + 1 < q + n
        /\ q + 2 \in Nat /\ q <= q + 2 /\ q + 2 < q + n
        /\ q + n - 1 \in Nat /\ q <= q + n - 1 /\ q + n - 1 < q + n
    BY <1>1
  <2> QED
    BY <2>1 DEF Loose
<1>3. q \notin F
  BY <1>1 DEF Loose
<1>4. /\ Tag(0, 0, n, 0) \in TagWords /\ Tag(0, 0, n, 0).block_size = n
      /\ Tag(0, 0, n, 0).allocated = 0 /\ Tag(0, 0, n, 0).padded = 0
  BY <1>1, TagIn
<1>5. h.mem[q] = Tag(0, 0, n, 0) /\ h.mem[q + n - 1] = Tag(0, 0, n, 0)
  BY DEF Loose
<1>6. TagAt(h, q) = h.mem[q] /\ TagAt(h, q).block_size = n
  BY <1>1, <1>2, <1>4, <1>5, TagReads
<1>7. /\ h.mem[q + n - 1] \in TagWords /\ h.mem[q + n - 1].allocated = 0
      /\ h.mem[q + n - 1].padded = 0 /\ h.mem[q + n - 1].block_size = n
  BY <1>4, <1>5
<1> QED
  BY <1>1, <1>2, <1>3, <1>6, <1>7

\* A free block follows: it leaves its list and is joined.
LEMMA MergeFree ==
    ASSUME NEW h, NEW F, NEW c, NEW q, NEW n, Loose(h, F, c, q, n),
           NEW m, m = q + n, NEW b, FreeNext(h, F, c, m, b), Merge(h, q, m).fault = "none"
    PROVE  LET g == Merge(h, q, m) IN Linked(g, F \ {m}, c) /\ Merged(h, F, q, b, g)
<1> DEFINE u == Unlink(h, m)
           s == Size(h, m)
           g == Join(u, q, m)
           G == F \ {m}
<1>1. /\ h \in Heaps /\ q \in Nat /\ n \in Nat /\ n >= 4 /\ m \in Nat
      /\ q \in Rows \ LinkRows(F) /\ h.mem[q] = Tag(0, 0, n, 0)
      /\ Linked(h, F, c) /\ Tagged(h, F)
  <2>1. h \in Heaps /\ q \in Nat /\ n \in Nat /\ n >= 4 /\ q \in Rows \ LinkRows(F)
    BY LooseIn
  <2>2. h.mem[q] = Tag(0, 0, n, 0) /\ Linked(h, F, c) /\ Tagged(h, F)
    BY DEF Loose
  <2> QED
    BY <2>1, <2>2
<1>2. m \in F /\ Block(h, m) /\ b = m + s /\ m \in Rows \ LinkRows(F) /\ Last(h, m) \in Rows \ LinkRows(F)
      /\ h.mem[m] \in TagWords /\ h.mem[m].allocated = 0
      /\ c[m] = ListIndex(s) /\ c[m] \in Lists
  BY DEF FreeNext, Block
<1>3. s \in Nat /\ Last(h, m) = m + s - 1
  BY <1>2, BlockIn
<1>4. TagAt(h, m) = h.mem[m] /\ TagAt(h, m).block_size = s
  BY <1>1, <1>2, TagReads DEF Size
<1>5. Merge(h, q, m) = g
  BY <1>2, <1>4 DEF Merge
<1>6. u.fault = "none"
  <2>1. Rec(h)
    BY <1>1, HeapFields
  <2>2. Rec(u)
    BY <2>1, UnlinkFrame DEF Frame
  <2> HIDE DEF u
  <2>3. Frame(u, g)
    BY <2>2, MergeFrame
  <2> QED
    BY <1>5, <2>3 DEF Frame
<1>7. Linked(u, G, c) /\ OnLinks(h, u, F)
  BY <1>1, <1>2, <1>4, <1>6, UnlinkLinks
<1> HIDE DEF u, s
<1>8. u.mem[q] = h.mem[q] /\ u.mem[m] = h.mem[m] /\ u.mem[m + s - 1] = h.mem[m + s - 1] /\ u \in Heaps
  BY <1>1, <1>2, <1>3, <1>7 DEF OnLinks, Keeps
<1>9. LinkRows(G) \subseteq LinkRows(F)
  BY DEF LinkRows
<1>10. TagAt(u, m).block_size = s
  BY <1>2, <1>4, <1>8, <1>1, TagReads
<1>11. /\ u.mem[m + s - 1] \in TagWords /\ u.mem[m + s - 1].allocated = 0
       /\ u.mem[m + s - 1].padded = 0
  BY <1>2, <1>3, <1>8 DEF Block
<1>12. q \in Rows \ LinkRows(G) /\ m + s - 1 \in Rows \ LinkRows(G)
  BY <1>1, <1>2, <1>3, <1>9
<1> HIDE DEF G
<1>13. Linked(g, G, c) /\ Merged(u, {}, q, b, g)
  BY <1>1, <1>2, <1>3, <1>6, <1>7, <1>8, <1>10, <1>11, <1>12, JoinLinks
<1> HIDE DEF g
<1>14. Merged(h, F, q, b, g)
  <2>1. LinkRows({}) = {}
    BY DEF LinkRows
  <2> QED
    BY <1>7, <1>13, <2>1 DEF Merged, OnLinks, Keeps
<1> QED
  BY <1>5, <1>13, <1>14 DEF G

\* The end of the heap follows, and reads as a free block of no rows.
LEMMA MergeEnd ==
    ASSUME NEW h, NEW F, NEW c, NEW q, NEW n, Loose(h, F, c, q, n),
           NEW m, m = q + n, EndNext(h, F, m), Merge(h, q, m).fault = "none"
    PROVE  LET g == Merge(h, q, m) IN Linked(g, F \ {m}, c) /\ Merged(h, F, q, m, g)
<1> DEFINE u == Unlink(h, m)
           g == Join(u, q, m)
<1>1. /\ h \in Heaps /\ q \in Nat /\ n \in Nat /\ n >= 4 /\ m \in Nat
      /\ q \in Rows \ LinkRows(F) /\ h.mem[q] = Tag(0, 0, n, 0)
      /\ q + n - 1 \in Rows \ LinkRows(F) /\ h.mem[q + n - 1] \in TagWords
      /\ h.mem[q + n - 1].allocated = 0 /\ h.mem[q + n - 1].padded = 0
      /\ Linked(h, F, c) /\ Tagged(h, F)
  BY LooseIn DEF Loose
<1>2. m \in Rows /\ h.mem[m] \notin TagWords
  BY WordKinds, WordsIn, RowsIn DEF EndNext
<1>3. TagAt(h, m) = Tag(0, 0, 0, 0)
  BY <1>1, <1>2, TagReads
<1>4. Tag(0, 0, 0, 0).allocated = 0 /\ Tag(0, 0, 0, 0).block_size = 0
  BY DEF Tag
<1>5. Merge(h, q, m) = g
  BY <1>3, <1>4 DEF Merge
<1>6. u.fault = "none"
  <2>1. Rec(h)
    BY <1>1, HeapFields
  <2>2. Rec(u)
    BY <2>1, UnlinkFrame DEF Frame
  <2> HIDE DEF u
  <2>3. Frame(u, g)
    BY <2>2, MergeFrame
  <2> QED
    BY <1>5, <2>3 DEF Frame
<1>7. Linked(u, F, c) /\ Keeps(h, u) /\ \A r \in Rows : u.mem[r] = h.mem[r]
  BY <1>1, <1>6, UnlinkEnd DEF EndNext
<1> HIDE DEF u
<1>8. u \in Heaps /\ TagAt(u, m).block_size = 0
  <2>1. u \in Heaps /\ u.mem[m] = h.mem[m]
    BY <1>2, <1>7 DEF Keeps
  <2> QED
    BY <1>2, <1>4, <2>1, TagReads
<1>9. /\ m + 0 - 1 = q + n - 1 /\ m + 0 = m
  BY <1>1
<1>10. u.mem[q] = h.mem[q] /\ u.mem[q + n - 1] = h.mem[q + n - 1]
  BY <1>1, <1>7
<1>11. Linked(g, F, c) /\ Merged(u, {}, q, m + 0, g)
  <2>1. /\ q \in Rows \ LinkRows(F) /\ u.mem[q] = Tag(0, 0, n, 0)
        /\ m + 0 - 1 \in Rows \ LinkRows(F) /\ u.mem[m + 0 - 1] \in TagWords
        /\ u.mem[m + 0 - 1].allocated = 0 /\ u.mem[m + 0 - 1].padded = 0
    BY <1>1, <1>9, <1>10
  <2>2. Linked(u, F, c) /\ u.fault = "none" /\ TagAt(u, m).block_size = 0 /\ 0 \in Nat
        /\ m = q + n /\ n \in Nat /\ n >= 4
    BY <1>1, <1>6, <1>7, <1>8
  <2> QED
    BY <2>1, <2>2, JoinLinks
<1> HIDE DEF g
<1>12. Merged(h, F, q, m, g)
  <2>1. LinkRows({}) = {}
    BY DEF LinkRows
  <2> QED
    BY <1>7, <1>9, <1>11, <2>1 DEF Merged, Keeps
<1>13. F \ {m} = F
  BY DEF EndNext
<1> QED
  BY <1>5, <1>11, <1>12, <1>13

LEMMA MergeLinks ==
    ASSUME NEW h, NEW F, NEW c, NEW q, NEW n, Loose(h, F, c, q, n),
           NEW m, m = q + n, NEW b, Followed(h, F, c, m, b), Merge(h, q, m).fault = "none"
    PROVE  LET g == Merge(h, q, m) IN Linked(g, F \ {m}, c) /\ Merged(h, F, q, b, g)
<1>1. CASE FreeNext(h, F, c, m, b)
  BY <1>1, MergeFree
<1>2. CASE b = m /\ EndNext(h, F, m)
  BY <1>2, MergeEnd
<1>3. CASE b = m /\ TakenNext(h, F, m)
  <2>1. TagAt(h, m).allocated = 1
    <3>1. CASE m \in Rows
      BY <1>3, <3>1, LooseIn, TagReads DEF TakenNext
    <3>2. CASE m \notin Rows
      BY <3>2 DEF TagAt, Tag
    <3> QED
      BY <3>1, <3>2
  <2>2. Merge(h, q, m) = h /\ F \ {m} = F
    BY <1>3, <2>1 DEF Merge, TakenNext
  <2>3. Merged(h, F, q, m, h)
    <3>1. /\ h \in Heaps /\ q \in Nat /\ n \in Nat
          /\ q + n - 1 \in Rows /\ h.mem[q + n - 1] \in TagWords /\ h.mem[q + n - 1].allocated = 0
          /\ h.mem[q + n - 1].padded = 0 /\ h.mem[q + n - 1].block_size = n
      BY LooseIn
    <3>2. m - q = n /\ m - 1 = q + n - 1
      BY <3>1
    <3> QED
      BY <3>1, <3>2 DEF Merged, Keeps, Loose
  <2> QED
    BY <1>3, <2>2, <2>3 DEF Loose
<1> QED
  BY <1>1, <1>2, <1>3 DEF Followed

\* What coalesce leaves of a heap k in which q was free and in no list: the block
\* up to b, in the list e says, and the other free blocks in theirs.
Coalesced(k, F, c, q, m, b, e, g) ==
    /\ Linked(g, (F \ {m}) \cup {q}, e)
    /\ Merged(k, F \cup {q}, q, b, g)
    /\ e[q] = ListIndex(b - q) /\ \A x \in F \ {m} : e[x] = c[x]
    /\ g.head[e[q]] = q

LEMMA InsertHead ==
    ASSUME NEW h \in Heaps, NEW i \in Lists, NEW p PROVE Insert(h, i, p).head[i] = p
<1> DEFINE k == IF h.head[i] = Null THEN SetNext(h, p, Null) ELSE h
           f == k.head[i]
           w == IF f = Null THEN k ELSE SetPrev(SetNext(k, p, f), f, p)
<1>1. Insert(h, i, p) = [w EXCEPT !.head[i] = p]
  BY DEF Insert, Push
<1>2. \A g, q, v : Rec(g) => Rec(Store(g, q, v)) /\ Store(g, q, v).head = g.head
  BY DEF Rec, Store
<1>3. Rec(h) /\ h.head \in [Lists -> Rows \cup {Null}]
  BY HeapFields
<1>4. Rec(k) /\ k.head = h.head
  BY <1>2, <1>3 DEF SetNext
<1> HIDE DEF k, f
<1>5. Rec(w) /\ w.head = h.head
  BY <1>2, <1>4 DEF SetNext, SetPrev
<1> HIDE DEF w
<1>6. [w EXCEPT !.head[i] = p].head = [w.head EXCEPT ![i] = p]
  BY <1>5 DEF Rec
<1> QED
  BY <1>1, <1>3, <1>5, <1>6

LEMMA FollowedKept ==
    ASSUME NEW h, NEW F, NEW c, NEW m \in Nat, NEW b, Followed(h, F, c, m, b), NEW g,
           \A r \in Rows : r >= m => g.mem[r] = h.mem[r]
    PROVE  Followed(g, F, c, m, b) /\ (b = m \/ (b = m + Size(h, m) /\ Block(h, m)))
<1>1. CASE FreeNext(h, F, c, m, b)
  <2>1. Block(h, m) /\ m \in Rows /\ Last(h, m) \in Rows /\ b = m + Size(h, m)
    BY <1>1 DEF FreeNext, Block
  <2>2. Last(h, m) >= m
    BY <2>1, BlockIn
  <2>3. g.mem[m] = h.mem[m] /\ g.mem[Last(h, m)] = h.mem[Last(h, m)]
    <3>1. m >= m
      OBVIOUS
    <3> QED
      BY <2>1, <2>2, <3>1
  <2>4. Block(g, m) /\ Size(g, m) = Size(h, m) /\ Last(g, m) = Last(h, m)
    BY <2>1, <2>3, BlockKept
  <2>5. FreeNext(g, F, c, m, b)
    BY <1>1, <2>3, <2>4 DEF FreeNext
  <2> QED
    BY <2>1, <2>5 DEF Followed
<1>2. CASE b = m /\ EndNext(h, F, m)
  BY <1>2 DEF EndNext, Followed
<1>3. CASE b = m /\ TakenNext(h, F, m)
  BY <1>3 DEF TakenNext, Followed
<1> QED
  BY <1>1, <1>2, <1>3 DEF Followed

\* coalesce
LEMMA CoalesceLinks ==
    ASSUME NEW k, NEW F, NEW c, NEW q, NEW n, Loose(k, F, c, q, n),
           NEW m, m = q + n, NEW b, Followed(k, F, c, m, b), Coalesce(k, q).fault = "none"
    PROVE  \E e : Coalesced(k, F, c, q, m, b, e, Coalesce(k, q))
<1> DEFINE h == SetPrev(k, q, Null)
           v == Merge(h, q, m)
           i == ListIndex(b - q)
           g == Insert(v, i, q)
           G == F \ {m}
           e == [x \in Rows |-> IF x = q THEN i ELSE c[x]]
<1>1. /\ k \in Heaps /\ q \in Nat /\ n \in Nat /\ n >= 4 /\ q \notin F /\ m \in Nat
      /\ q \in Rows \ LinkRows(F) /\ q + 1 \in Rows \ LinkRows(F) /\ q + 2 \in Rows \ LinkRows(F)
      /\ q + n - 1 \in Rows \ LinkRows(F) /\ TagAt(k, q).block_size = n
  BY LooseIn
<1>2. Linked(k, F, c) /\ Tagged(k, F) /\ k.fault = "none"
      /\ \A p \in F : p \in Nat /\ (p + 4 <= q \/ p >= q + n)
      /\ \A r \in Nat : q <= r /\ r < q + n => r \in Rows \ LinkRows(F)
      /\ k.mem[q] = Tag(0, 0, n, 0) /\ k.mem[q + n - 1] = Tag(0, 0, n, 0)
  BY DEF Loose
<1>3. Coalesce(k, q) = Enlist(v, q)
  BY <1>1 DEF Coalesce
<1>4. Linked(h, F, c) /\ Wrote(k, h, q + 2, Zero) /\ h.fault = k.fault
  <2>1. h = Store(k, q + 2, Zero)
    BY DEF SetPrev, Zero
  <2> QED
    BY <1>1, <1>2, <2>1, LinkedStored
<1> HIDE DEF h
<1>5. \A r \in Rows : r # q + 2 => h.mem[r] = k.mem[r]
  BY <1>4 DEF Wrote
<1>6. Loose(h, F, c, q, n)
  <2>1. Tagged(h, F)
    <3>1. \A p \in F : p \in Rows /\ p # q + 2
      BY <1>1, <1>2, SpreadIn DEF Linked
    <3> QED
      BY <1>2, <1>5, <3>1 DEF Tagged
  <2>2. h.mem[q] = k.mem[q] /\ h.mem[q + n - 1] = k.mem[q + n - 1]
    <3>1. q # q + 2 /\ q + n - 1 # q + 2
      BY <1>1
    <3> QED
      BY <1>1, <1>5, <3>1
  <2> QED
    BY <1>1, <1>2, <1>4, <2>1, <2>2 DEF Loose
<1>7. Followed(h, F, c, m, b) /\ b \in Nat /\ b >= m
  <2>1. \A r \in Rows : r >= m => h.mem[r] = k.mem[r]
    BY <1>1, <1>5
  <2>2. Followed(h, F, c, m, b) /\ (b = m \/ (b = m + Size(k, m) /\ Block(k, m)))
    BY <1>1, <2>1, FollowedKept
  <2> QED
    BY <1>1, <2>2, BlockIn
<1>8. v.fault = "none"
  <2>1. Rec(h)
    BY <1>4, HeapFields DEF Linked
  <2>2. Rec(v)
    BY <2>1, MergeFrame DEF Frame
  <2> HIDE DEF v
  <2>3. Frame(v, Enlist(v, q))
    BY <2>2, MergeFrame
  <2> QED
    BY <1>3, <2>3 DEF Frame
<1>9. Linked(v, G, c) /\ Merged(h, F, q, b, v)
  BY <1>6, <1>7, <1>8, MergeLinks
<1> HIDE DEF v, G
<1>10. G \subseteq F /\ LinkRows(G) \subseteq LinkRows(F)
  BY DEF G, LinkRows
<1>11. v \in Heaps /\ TagAt(v, q).block_size = b - q /\ PrevOf(v, q) = Null
  <2>1. v \in Heaps /\ v.mem[q] = Tag(0, 0, b - q, 0)
    BY <1>9 DEF Merged, Keeps
  <2>2. b - q \in Nat
    BY <1>1, <1>7
  <2>3. TagAt(v, q).block_size = b - q
    <3>1. v.mem[q] \in TagWords /\ v.mem[q].block_size = b - q
      BY <2>1, <2>2, TagIn
    <3> QED
      BY <1>1, <2>1, <3>1, TagReads
  <2>4. v.mem[q + 2] = h.mem[q + 2]
    <3>1. q + 2 # q /\ q + 2 # b - 1
      BY <1>1, <1>7
    <3> QED
      BY <1>1, <1>9, <3>1 DEF Merged
  <2>5. h.mem[q + 2] = Link(Null)
    BY <1>1, <1>4 DEF Wrote, Zero
  <2>6. PrevOf(v, q) = Null
    BY <1>1, <2>1, <2>4, <2>5, LinkReads DEF PrevOf
  <2> QED
    BY <2>1, <2>3, <2>6
<1>12. Enlist(v, q) = g
  BY <1>11 DEF Enlist
<1>13. q \notin G /\ Spread(G \cup {q})
  <2>1. \A p \in G : p \in Nat /\ (p + 4 <= q \/ q + 4 <= p)
    BY <1>1, <1>2, <1>10
  <2>2. Spread(G)
    BY <1>9 DEF Linked
  <2> QED
    BY <1>1, <1>10, <2>1, <2>2 DEF Spread
<1>14. e[q] = i /\ i \in Lists /\ \A p \in G : e[p] = c[p]
  <2>1. \A p \in G : p \in Rows
    BY <1>9, SpreadIn DEF Linked
  <2> QED
    BY <1>1, <1>13, <2>1, ClassIn
<1>15. g.head[i] = q
  BY <1>11, <1>14, InsertHead
<1> HIDE DEF e, i
<1>16. Linked(g, G \cup {q}, e) /\ OnLinks(v, g, G \cup {q}) /\ g.fault = v.fault
  <2>1. Linked(v, G, e)
    BY <1>9, <1>14, LinkedClasses
  <2> QED
    BY <1>11, <1>13, <1>14, <2>1, InsertLinks
<1> HIDE DEF g
<1>17. Merged(k, F \cup {q}, q, b, g)
  <2>1. LinkRows(G \cup {q}) \subseteq LinkRows(F \cup {q})
    BY <1>10 DEF LinkRows
  <2>2. \A r \in Rows \ LinkRows(F \cup {q}) : g.mem[r] = v.mem[r]
    BY <1>16, <2>1 DEF OnLinks
  <2>3. \A r \in Rows \ LinkRows(F \cup {q}) : r \notin LinkRows(F) /\ r # q + 2
    BY DEF LinkRows
  <2>4. q \in Rows \ LinkRows(F \cup {q})
    BY <1>1 DEF LinkRows
  <2>5. b - 1 \in Rows \ LinkRows(F \cup {q})
    <3>1. b - 1 \in Rows \ LinkRows(F)
      <4>1. CASE FreeNext(k, F, c, m, b)
        <5>1. Block(k, m) /\ b = m + Size(k, m) /\ Last(k, m) \in Rows \ LinkRows(F)
          BY <4>1 DEF FreeNext, Block
        <5>2. Last(k, m) = b - 1
          BY <5>1, BlockIn
        <5> QED
          BY <5>1, <5>2
      <4>2. CASE b = m
        <5>1. b - 1 = q + n - 1
          BY <1>1, <4>2
        <5> QED
          BY <1>1, <5>1
      <4> QED
        BY <4>1, <4>2 DEF Followed
    <3>2. b - 1 # q + 1 /\ b - 1 # q + 2
      BY <1>1, <1>7
    <3> QED
      BY <3>1, <3>2 DEF LinkRows
  <2>6. Keeps(k, g) /\ g.fault = "none"
    BY <1>4, <1>8, <1>9, <1>16 DEF OnLinks, Keeps, Wrote, Merged
  <2>7. ASSUME NEW r \in Rows \ LinkRows(F \cup {q}), r # q, r # b - 1
        PROVE  g.mem[r] = k.mem[r]
    <3>1. g.mem[r] = v.mem[r] /\ r \notin LinkRows(F) /\ r # q + 2
      BY <2>2, <2>3
    <3>2. v.mem[r] = h.mem[r] /\ h.mem[r] = k.mem[r]
      BY <1>5, <1>9, <2>7, <3>1 DEF Merged
    <3> QED
      BY <3>1, <3>2
  <2>8. g.mem[q] = v.mem[q] /\ g.mem[b - 1] = v.mem[b - 1]
    BY <2>2, <2>4, <2>5
  <2> QED
    BY <1>9, <2>6, <2>7, <2>8 DEF Merged
<1>18. Coalesced(k, F, c, q, m, b, e, g)
  <2>1. \A x \in F \ {m} : e[x] = c[x]
    BY <1>14 DEF G
  <2> QED
    BY <1>14, <1>15, <1>16, <1>17, <2>1 DEF Coalesced, i, G
<1> QED
  BY <1>3, <1>12, <1>18

\* What coalesce leaves is a block.
LEMMA MergedBlock ==
    ASSUME NEW k, NEW F, NEW q \in Rows, NEW b \in Nat, NEW g, Merged(k, F, q, b, g),
           b - q >= 4, (b - q) % ALIGNMENT = 0
    PROVE  Block(g, q) /\ Size(g, q) = b - q /\ g.mem[q].allocated = 0 /\ q + Size(g, q) = b
<1>1. q \in Nat /\ b - q \in Nat
  BY RowsIn
<1>2. /\ g.mem[q] = Tag(0, 0, b - q, 0) /\ b - 1 \in Rows /\ g.mem[b - 1] \in TagWords
      /\ g.mem[b - 1].allocated = 0 /\ g.mem[b - 1].padded = 0 /\ g.mem[b - 1].block_size = b - q
  BY DEF Merged
<1>3. /\ g.mem[q] \in TagWords /\ Size(g, q) = b - q /\ g.mem[q].allocated = 0
      /\ g.mem[q].padded = 0
  BY <1>1, <1>2, TagIn DEF Size
<1>4. Last(g, q) = b - 1 /\ q + Size(g, q) = b
  BY <1>1, <1>3 DEF Last
<1> QED
  BY <1>2, <1>3, <1>4 DEF Block, MINSIZE

\* The free blocks among those replaced need no mention.
LEMMA OthersFewer ==
    ASSUME NEW h, NEW B, NEW g, NEW C, NEW X, NEW Y, Others(h, B, g, C, X, Y),
           NEW Z, Z \subseteq X, \A q \in X : q \in B /\ h.mem[q].allocated = 1 => q \in Z
    PROVE  Others(h, B, g, C, Z, Y)
  BY DEF Others

\* What follows a block of the heap.
LEMMA FollowedIn ==
    ASSUME NEW h, NEW B, Full(h, B), NEW p \in B, NEW m, m = p + Size(h, p)
    PROVE  \E b \in B \cup {h.end} :
               /\ Followed(h, FreeIn(h, B), Classes(h), m, b)
               /\ m \in Nat /\ b \in Nat /\ p < m /\ m <= b /\ (b - m) % ALIGNMENT = 0
               /\ Outside(FreeIn(h, B), p, b) = FreeIn(h, B) \ {p, m}
               /\ p \in Inside(B, p, b)
               /\ \A q \in Inside(B, p, b) : h.mem[q].allocated = 1 => q = p
<1> DEFINE F == FreeIn(h, B)
           c == Classes(h)
<1>1. /\ h \in Heaps /\ h.end \in Nat /\ h.end \in PageEnds /\ Tiles(h, B, 0, h.end)
      /\ F \subseteq B /\ Linked(h, F, c)
      /\ \A q \in B : q \in Rows /\ c[q] = ListIndex(Size(h, q)) /\ c[q] \in Lists
  BY FullIn
<1>2. \A q \in B : q \in Nat /\ Size(h, q) \in Nat /\ Size(h, q) >= 4 /\ Block(h, q)
  BY <1>1, BlockIn DEF Tiles
<1>3. m \in B \cup {h.end} /\ m \in Nat /\ p \in Nat /\ p < m
  BY <1>1, <1>2 DEF Tiles
<1>4. \A q \in F : h.mem[q].allocated = 0
  BY DEF FreeIn
<1> HIDE DEF c
<1>5. ASSUME NEW b \in B \cup {h.end}, Followed(h, F, c, m, b), b \in Nat, m <= b,
             (b - m) % ALIGNMENT = 0, m \in F => m < b,
             \A q \in B : p <= q /\ q < b => q = p \/ q \in F \cap {m}
      PROVE  /\ Outside(F, p, b) = F \ {p, m}
             /\ p \in Inside(B, p, b)
             /\ \A q \in Inside(B, p, b) : h.mem[q].allocated = 1 => q = p
  <2>1. ASSUME NEW q \in F PROVE (q < p \/ q >= b) <=> (q # p /\ q # m)
    <3>1. q \in B /\ q \in Nat
      BY <1>1, <1>2
    <3>2. q # p /\ q # m => q < p \/ q >= b
      BY <1>3, <1>5, <3>1
    <3>3. q = p => ~(q < p \/ q >= b)
      BY <1>3, <1>5
    <3>4. q = m => ~(q < p \/ q >= b)
      BY <1>3, <1>5
    <3> QED
      BY <3>2, <3>3, <3>4
  <2>2. Outside(F, p, b) = F \ {p, m}
    <3> HIDE DEF F
    <3> QED
      BY <2>1 DEF Outside
  <2>3. p \in Inside(B, p, b)
    BY <1>3, <1>5 DEF Inside
  <2>4. ASSUME NEW q \in Inside(B, p, b), h.mem[q].allocated = 1 PROVE q = p
    <3>1. q \notin F
      BY <1>4, <2>4
    <3> QED
      BY <1>5, <3>1 DEF Inside
  <2> QED
    BY <2>2, <2>3, <2>4
<1>6. \A q \in B : p <= q /\ q < m => q = p
  <2> SUFFICES ASSUME NEW q \in B, p <= q, q < m, q # p PROVE FALSE
    OBVIOUS
  <2>1. p + Size(h, p) <= q \/ q + Size(h, q) <= p
    BY <1>1, Apart
  <2> QED
    BY <1>2, <2>1
<1>7. CASE m \in F
  <2> DEFINE b == m + Size(h, m)
  <2>1. m \in B /\ Block(h, m) /\ b \in B \cup {h.end} /\ h.mem[m].allocated = 0
    BY <1>1, <1>2, <1>4, <1>7 DEF Tiles
  <2>2. m \notin LinkRows(F) /\ Last(h, m) \notin LinkRows(F)
    BY <1>1, <2>1, LinksElsewhere
  <2>3. Followed(h, F, c, m, b)
    BY <1>1, <1>7, <2>1, <2>2 DEF Followed, FreeNext
  <2>4. b \in Nat /\ m < b /\ (b - m) % ALIGNMENT = 0
    <3>1. Size(h, m) \in Nat /\ Size(h, m) >= 4 /\ Size(h, m) % ALIGNMENT = 0
      BY <1>2, <2>1 DEF Block
    <3>2. b - m = Size(h, m)
      BY <1>3, <3>1
    <3> QED
      BY <1>3, <3>1, <3>2
  <2>5. \A q \in B : p <= q /\ q < b => q = p \/ q \in F \cap {m}
    <3> SUFFICES ASSUME NEW q \in B, p <= q, q < b, q # p, q # m PROVE FALSE
      BY <1>7
    <3>1. m + Size(h, m) <= q \/ q + Size(h, q) <= m
      BY <1>1, <2>1, Apart
    <3> QED
      BY <1>2, <1>3, <1>6, <2>1, <3>1
  <2> HIDE DEF b
  <2> QED
    BY <1>3, <1>5, <2>1, <2>3, <2>4, <2>5 DEF c
<1>8. CASE m \notin F
  <2>1. Followed(h, F, c, m, m)
    <3>1. CASE m \in B
      <4>1. h.mem[m] \in TagWords /\ h.mem[m].allocated = 1
        BY <1>2, <1>8, <3>1, TagFields DEF Block, FreeIn
      <4> QED
        BY <1>8, <4>1 DEF Followed, TakenNext
    <3>2. CASE m \notin B
      <4>1. m = h.end
        BY <1>3, <3>2
      <4>2. CASE m \notin Rows
        BY <1>8, <4>2 DEF Followed, TakenNext
      <4>3. CASE m \in Rows
        <5>1. m + 1 \in Rows /\ m + 2 \in Rows /\ m + 1 \in Nat /\ m + 2 \in Nat
          <6>1. h.end < Pages * PAGE_SZ
            BY <4>1, <4>3, BoundsAssumption, PageAssumption DEF Rows
          <6>2. h.end + PAGE_SZ \in PageEnds /\ PAGE_SZ \in Nat /\ PAGE_SZ >= 4
            BY <1>1, <6>1, PageEndIn, PageAssumption DEF MINSIZE
          <6>3. m + 1 \in Nat /\ m + 1 < h.end + PAGE_SZ /\ m + 2 \in Nat /\ m + 2 < h.end + PAGE_SZ
            BY <1>1, <4>1, <6>2
          <6> QED
            BY <6>2, <6>3, RowsIn
        <5>2. h.mem[m] = Zero /\ h.mem[m + 1] = Zero /\ h.mem[m + 2] = Zero
          <6>1. m >= h.end /\ m + 1 >= h.end /\ m + 2 >= h.end
            BY <1>1, <4>1
          <6> QED
            BY <4>3, <5>1, <6>1 DEF Full
        <5>3. \A r \in LinkRows(F) : r < h.end
          <6>1. \A q \in F : q + 4 <= h.end /\ q \in Nat
            <7> TAKE q \in F
            <7>1. q \in B
              BY <1>1
            <7>2. q + Size(h, q) <= h.end
              BY <1>1, <7>1, TilesInside
            <7> QED
              BY <1>1, <1>2, <7>1, <7>2
          <6> HIDE DEF F
          <6> QED
            BY <1>1, <6>1 DEF LinkRows
        <5>4. m + 1 \notin LinkRows(F) /\ m + 2 \notin LinkRows(F)
          <6> HIDE DEF F
          <6> QED
            BY <1>1, <4>1, <5>3
        <5>5. EndNext(h, F, m)
          <6> HIDE DEF F
          <6> QED
            BY <1>8, <4>3, <5>1, <5>2, <5>4 DEF EndNext
        <5> QED
          BY <5>5 DEF Followed
      <4> QED
        BY <4>2, <4>3
    <3> QED
      BY <3>1, <3>2
  <2>2. m <= m /\ (m - m) % ALIGNMENT = 0
    BY <1>3 DEF ALIGNMENT
  <2> QED
    BY <1>3, <1>5, <1>6, <1>8, <2>1, <2>2 DEF c
<1> QED
  BY <1>7, <1>8

\* A block is all there is between its first row and the next block.
LEMMA InsideOne ==
    ASSUME NEW h, NEW B, Full(h, B), NEW p \in B
    PROVE  Inside(B, p, p + Size(h, p)) = {p}
<1>1. h.end \in Nat /\ Tiles(h, B, 0, h.end)
  BY FullIn
<1>2. \A q \in B : q \in Nat /\ Size(h, q) \in Nat /\ Size(h, q) >= 4
  BY <1>1, BlockIn DEF Tiles
<1>3. ASSUME NEW q \in B, p <= q, q < p + Size(h, p) PROVE q = p
  <2>1. p = q \/ p + Size(h, p) <= q \/ q + Size(h, q) <= p
    BY <1>1, Apart
  <2> QED
    BY <1>2, <1>3, <2>1
<1>4. p <= p /\ p < p + Size(h, p)
  BY <1>2
<1> QED
  BY <1>3, <1>4 DEF Inside

\* A free block that is in no list yet, after header and footer were written.
LEMMA LooseMade ==
    ASSUME NEW h, NEW B, Full(h, B), NEW p \in B, h.mem[p].allocated = 1,
           NEW k, Linked(k, FreeIn(h, B), Classes(h)), k.fault = "none",
           \A r \in Rows : r < p \/ r >= p + Size(h, p) => k.mem[r] = h.mem[r],
           NEW q \in Nat, NEW n \in Nat, n >= 4, p <= q, q + n = p + Size(h, p),
           k.mem[q] = Tag(0, 0, n, 0), k.mem[q + n - 1] = Tag(0, 0, n, 0)
    PROVE  Loose(k, FreeIn(h, B), Classes(h), q, n)
<1> DEFINE F == FreeIn(h, B)
           m == p + Size(h, p)
<1>1. F \subseteq B /\ Tagged(h, F) /\ p \notin F
  BY FullIn DEF FreeIn
<1>2. /\ \A r \in p .. p + Size(h, p) - 1 : r \in Rows \ LinkRows(F)
      /\ p \in Nat /\ p + Size(h, p) \in B \cup {h.end} /\ Block(h, p)
      /\ \A x \in F : x \in Nat /\ (x + 4 <= p \/ x >= p + Size(h, p))
  <2>1. F \subseteq B /\ p \notin F /\ p \in B /\ Full(h, B)
    BY <1>1
  <2> HIDE DEF F
  <2> QED
    BY <2>1, UnlistedRows
<1>3. Size(h, p) \in Nat
  BY <1>2, BlockIn
<1>4. Tagged(k, F)
  <2>1. \A x \in F : x \in Rows
    BY SpreadIn DEF Linked
  <2>2. \A x \in F : x < p \/ x >= p + Size(h, p)
    BY <1>2
  <2> HIDE DEF F
  <2> QED
    BY <1>1, <2>1, <2>2 DEF Tagged
<1>5. \A r \in Nat : q <= r /\ r < q + n => r \in Rows \ LinkRows(F)
  BY <1>2, <1>3
<1>6. \A x \in F : x \in Nat /\ (x + 4 <= q \/ x >= q + n)
  BY <1>2, <1>3
<1> QED
  BY <1>4, <1>5, <1>6 DEF Loose

\* p is the first block of its list, with at least s rows.
Leads(g, p, s) ==
    /\ p \in Rows /\ IsTag(g.mem[p]) /\ Size(g, p) \in Nat /\ Size(g, p) >= s
    /\ g.head[ListIndex(Size(g, p))] = p

\* sf_free of a block
LEMMA FreeFull ==
    ASSUME NEW h, NEW B, Full(h, B), NEW p \in B, h.mem[p].allocated = 1, Free(h, p).fault = "none"
    PROVE  LET g == Free(h, p)
           IN  (\E C : Full(g, C) /\ Others(h, B, g, C, {p}, {})) /\ Leads(g, p, Size(h, p))
<1> DEFINE F == FreeIn(h, B)
           c == Classes(h)
           s == Size(h, p)
           m == p + s
           k == SetTags(h, p, 0, 0, s, 0)
           g == Coalesce(k, p)
<1>1. /\ h \in Heaps /\ h.end \in Nat /\ h.end \in PageEnds /\ h.fault = "none"
      /\ F \subseteq B /\ Linked(h, F, c) /\ TagAt(h, p) = h.mem[p] /\ p \in Rows /\ p \notin F
      /\ \A q \in B : c[q] = ListIndex(Size(h, q))
  <2>1. p \notin F
    BY DEF FreeIn
  <2> QED
    BY <2>1, FullIn
<1>2. Free(h, p) = g
  <2>1. ~Rejected(h, p)
    <3>1. [h EXCEPT !.fault = "abort"].fault # "none"
      <4>1. Rec(h)
        BY <1>1, HeapFields
      <4> QED
        BY <4>1 DEF Rec
    <3> QED
      BY <3>1 DEF Free
  <2> QED
    BY <1>1, <2>1 DEF Free, Size
<1>3. /\ \A r \in p .. p + Size(h, p) - 1 : r \in Rows \ LinkRows(F)
      /\ p \in Nat /\ p + Size(h, p) \in B \cup {h.end} /\ Block(h, p)
      /\ \A q \in F : q \in Nat /\ (q + 4 <= p \/ q >= p + Size(h, p))
  <2>1. F \subseteq B /\ p \notin F /\ p \in B /\ Full(h, B)
    BY <1>1
  <2> HIDE DEF F
  <2> QED
    BY <2>1, UnlistedRows
<1>4. s \in Nat /\ s >= 4 /\ s % ALIGNMENT = 0 /\ s >= MINSIZE
  BY <1>3, BlockIn DEF Block, MINSIZE
<1>5. PICK b \in B \cup {h.end} :
          /\ Followed(h, F, c, m, b)
          /\ m \in Nat /\ b \in Nat /\ p < m /\ m <= b /\ (b - m) % ALIGNMENT = 0
          /\ Outside(F, p, b) = F \ {p, m}
          /\ p \in Inside(B, p, b)
          /\ \A q \in Inside(B, p, b) : h.mem[q].allocated = 1 => q = p
  BY FollowedIn
<1> HIDE DEF F, c
<1>6. Linked(k, F, c) /\ WroteTags(h, k, p, 0, 0, s, 0)
  <2>1. p \in Rows \ LinkRows(F) /\ p + s - 1 \in Rows \ LinkRows(F)
    BY <1>3, <1>4
  <2>2. k = SetTags(h, p, 0, 0, s, 0)
    OBVIOUS
  <2> HIDE DEF k, s
  <2>3. /\ Linked(h, F, c) /\ p \in Rows \ LinkRows(F) /\ p + s - 1 \in Rows \ LinkRows(F)
        /\ s \in Nat /\ s >= MINSIZE /\ 0 \in {0, 1} /\ 0 \in Nat
    BY <1>1, <1>4, <2>1
  <2>4. Linked(SetTags(h, p, 0, 0, s, 0), F, c)
        /\ WroteTags(h, SetTags(h, p, 0, 0, s, 0), p, 0, 0, s, 0)
    BY <2>3, TagsLinks
  <2> QED
    BY <2>2, <2>4
<1> HIDE DEF k
<1>7. \A r \in Rows : r < p \/ r >= m => k.mem[r] = h.mem[r]
  BY <1>3, <1>4, <1>6, RowsIn DEF WroteTags
<1>8. Loose(k, F, c, p, s)
  <2>1. p <= p /\ p + s = p + Size(h, p) /\ k.fault = "none"
    BY <1>1, <1>3, <1>6 DEF WroteTags
  <2> QED
    BY <1>3, <1>4, <1>6, <1>7, <2>1, LooseMade DEF F, c, WroteTags
<1>9. Followed(k, F, c, m, b)
  <2>1. \A r \in Rows : r >= m => k.mem[r] = h.mem[r]
    BY <1>7
  <2> QED
    BY <1>5, <2>1, FollowedKept
<1>10. PICK e : Coalesced(k, F, c, p, m, b, e, g)
  BY <1>2, <1>8, <1>9, CoalesceLinks
<1> HIDE DEF g
<1>11. /\ Linked(g, (F \ {m}) \cup {p}, e) /\ Merged(k, F \cup {p}, p, b, g)
       /\ e[p] = ListIndex(b - p) /\ \A x \in F \ {m} : e[x] = c[x]
  BY <1>10 DEF Coalesced
<1>12. Block(g, p) /\ Size(g, p) = b - p /\ g.mem[p].allocated = 0 /\ p + Size(g, p) = b
  <2>1. b - p >= 4
    BY <1>3, <1>4, <1>5
  <2>2. (b - p) % ALIGNMENT = 0
    BY <1>3, <1>4, <1>5 DEF ALIGNMENT
  <2> QED
    BY <1>1, <1>5, <1>11, <2>1, <2>2, MergedBlock
<1>13. g \in Heaps /\ g.fault = "none" /\ g.end = h.end /\ g.end \in PageEnds
  BY <1>1, <1>6, <1>11 DEF Merged, Keeps, WroteTags
<1>14. SameOutside(h, g, F, p, b)
  <2> SUFFICES ASSUME NEW r \in Rows, r < p \/ r >= b, r \notin LinkRows(F)
               PROVE  g.mem[r] = h.mem[r]
    BY DEF SameOutside
  <2>1. r # p /\ r # b - 1 /\ r # p + 1 /\ r # p + 2 /\ (r < p \/ r >= m)
    BY <1>3, <1>4, <1>5, RowsIn
  <2>2. r \notin LinkRows(F \cup {p})
    BY <2>1 DEF LinkRows
  <2> QED
    BY <1>7, <1>11, <2>1, <2>2 DEF Merged
<1> DEFINE C == Replaced(B, p, b, {p})
<1>15. Tiles(g, {p}, p, b)
  BY <1>12, TilesSingle
<1>16. FreeIn(g, {p}) = {p} /\ AllocatedIn(g, {p}) = {}
  BY <1>12 DEF FreeIn, AllocatedIn
<1>17. Full(g, C) /\ Others(h, B, g, C, Inside(B, p, b), {})
  <2>1. (F \ {m}) \cup {p} = Outside(F, p, b) \cup FreeIn(g, {p})
    BY <1>5, <1>16
  <2>2. \A q \in FreeIn(g, {p}) : e[q] = ListIndex(Size(g, q))
    BY <1>11, <1>12, <1>16
  <2>3. \A q \in Outside(F, p, b) : e[q] = ListIndex(Size(h, q))
    BY <1>1, <1>5, <1>11
  <2>4. p \in B \cup {h.end} /\ p <= b /\ ((b = b /\ g.end = h.end) \/ (b = h.end /\ g.end = b /\ b <= b))
    BY <1>3, <1>5, <1>13
  <2> HIDE DEF m
  <2>5. Full(g, C) /\ Others(h, B, g, C, Inside(B, p, b), AllocatedIn(g, {p}))
    BY <1>5, <1>11, <1>13, <1>14, <1>15, <2>1, <2>2, <2>3, <2>4, Remade DEF F
  <2> QED
    BY <1>16, <2>5
<1>18. Others(h, B, g, C, {p}, {})
  <2>1. {p} \subseteq Inside(B, p, b)
        /\ \A q \in Inside(B, p, b) : q \in B /\ h.mem[q].allocated = 1 => q \in {p}
    BY <1>5
  <2> HIDE DEF C
  <2> QED
    BY <1>17, <2>1, OthersFewer
<1>19. Leads(g, p, s)
  <2>1. b - p \in Nat /\ b - p >= s
    BY <1>3, <1>4, <1>5
  <2>2. IsTag(g.mem[p])
    BY <1>12, BlockIn, WordKinds DEF Block
  <2>3. g.head[ListIndex(b - p)] = p
    BY <1>10 DEF Coalesced
  <2> QED
    BY <1>1, <1>12, <2>1, <2>2, <2>3 DEF Leads
<1> HIDE DEF C
<1> QED
  BY <1>2, <1>17, <1>18, <1>19

-----------------------------------------------------------------------------
(* Shrinking a block *)

\* Of the block p of a heap h that is asked to hold `size' rows, which take asize,
\* this is left: the others, and the first rows of its payload.
Shrunk(h, B, p, asize, size, g) ==
    /\ \E C : Full(g, C) /\ Others(h, B, g, C, {p}, {p}) /\ Granted(g, C, p, asize, size)
    /\ \A r \in Nat : p < r /\ r < p + asize - 1 => g.mem[r] = h.mem[r]

LEMMA ShrinkWhole ==
    ASSUME NEW h, NEW B, Full(h, B), NEW p \in B, h.mem[p].allocated = 1,
           NEW s, s = Size(h, p), NEW asize \in Nat, asize <= s, NEW size \in Nat
    PROVE  Shrunk(h, B, p, asize, size, SetTags(h, p, 1, Padded(size, s), s, size))
<1> DEFINE F == FreeIn(h, B)
           c == Classes(h)
           b == p + s
           d == Padded(size, s)
           g == SetTags(h, p, 1, d, s, size)
           C == Replaced(B, p, b, {p})
<1>1. /\ h \in Heaps /\ h.end \in Nat /\ h.end \in PageEnds /\ h.fault = "none"
      /\ F \subseteq B /\ Linked(h, F, c) /\ p \in Rows /\ p \notin F
      /\ \A q \in B : c[q] = ListIndex(Size(h, q))
  <2>1. p \notin F
    BY DEF FreeIn
  <2> QED
    BY <2>1, FullIn
<1>2. d \in {0, 1} /\ Inside(B, p, b) = {p}
  BY PaddedIn, InsideOne
<1>3. /\ \A r \in p .. p + Size(h, p) - 1 : r \in Rows \ LinkRows(F)
      /\ p \in Nat /\ p + Size(h, p) \in B \cup {h.end} /\ Block(h, p)
      /\ \A q \in F : q \in Nat /\ (q + 4 <= p \/ q >= p + Size(h, p))
  <2>1. F \subseteq B /\ p \notin F /\ p \in B /\ Full(h, B)
    BY <1>1
  <2> HIDE DEF F
  <2> QED
    BY <2>1, UnlistedRows
<1>4. s \in Nat /\ s >= 4 /\ s % ALIGNMENT = 0 /\ s >= MINSIZE /\ b \in B \cup {h.end} /\ b \in Nat /\ p <= b
  <2>1. s \in Nat /\ s >= 4 /\ s % ALIGNMENT = 0 /\ s >= MINSIZE
    BY <1>3, BlockIn DEF Block, MINSIZE
  <2> QED
    BY <1>3, <2>1
<1>5. p \in Rows \ LinkRows(F) /\ p + s - 1 \in Rows \ LinkRows(F)
  BY <1>3, <1>4
<1>6. Outside(F, p, b) = F
  <2>1. \A q \in F : q < p \/ q >= b
    BY <1>3, <1>4
  <2> HIDE DEF F, b
  <2> QED
    BY <2>1 DEF Outside
<1> HIDE DEF F, c, d
<1>7. Linked(g, F, c) /\ WroteTags(h, g, p, 1, d, s, size)
  <2>1. /\ Linked(h, F, c) /\ p \in Rows \ LinkRows(F) /\ 1 \in {0, 1} /\ d \in {0, 1}
        /\ s \in Nat /\ s >= MINSIZE /\ p + s - 1 \in Rows \ LinkRows(F)
    BY <1>1, <1>2, <1>4, <1>5
  <2> QED
    BY <2>1, TagsLinks
<1> HIDE DEF g
<1>8. /\ Block(g, p) /\ Size(g, p) = s /\ Last(g, p) = p + s - 1
      /\ g.mem[p].allocated = 1 /\ g.mem[p].padded = d
      /\ g.mem[Last(g, p)].requested_size = size
  <2>1. /\ p \in Rows /\ 1 \in {0, 1} /\ d \in {0, 1} /\ s \in Nat /\ s >= MINSIZE
        /\ s % ALIGNMENT = 0 /\ p + s - 1 \in Rows
        /\ g.mem[p] = Tag(1, d, s, 0) /\ g.mem[p + s - 1] = Tag(1, d, s, size)
    BY <1>2, <1>4, <1>5, <1>7 DEF WroteTags
  <2>2. Made(g, p, 1, d, s, size)
    BY <2>1, BlockMade
  <2> QED
    BY <2>2 DEF Made
<1>9. g \in Heaps /\ g.fault = "none" /\ g.end = h.end /\ g.end \in PageEnds
  BY <1>1, <1>7 DEF Keeps, WroteTags
<1>10. Tiles(g, {p}, p, b)
  BY <1>8, TilesSingle
<1>11. FreeIn(g, {p}) = {} /\ AllocatedIn(g, {p}) = {p}
  BY <1>8 DEF FreeIn, AllocatedIn
<1>12. SameOutside(h, g, F, p, b)
  BY <1>3, <1>4, <1>7, RowsIn DEF SameOutside, WroteTags
<1>13. Full(g, C) /\ Others(h, B, g, C, {p}, {p})
  <2>1. F = Outside(F, p, b) \cup FreeIn(g, {p})
    BY <1>6, <1>11
  <2>2. \A q \in FreeIn(g, {p}) : c[q] = ListIndex(Size(g, q))
    BY <1>11
  <2>3. \A q \in Outside(F, p, b) : c[q] = ListIndex(Size(h, q))
    BY <1>1, <1>6
  <2>4. p \in B \cup {h.end} /\ ((b = b /\ g.end = h.end) \/ (b = h.end /\ g.end = b /\ b <= b))
    BY <1>9
  <2> HIDE DEF b
  <2>5. Full(g, C) /\ Others(h, B, g, C, Inside(B, p, b), AllocatedIn(g, {p}))
    BY <1>4, <1>7, <1>9, <1>10, <1>12, <2>1, <2>2, <2>3, <2>4, Remade DEF F
  <2> QED
    BY <1>2, <1>11, <2>5
<1>14. Granted(g, C, p, asize, size)
  <2>1. p \in C
    BY DEF Replaced
  <2> HIDE DEF C
  <2> QED
    BY <1>8, <2>1 DEF Granted, d
<1>15. \A r \in Nat : p < r /\ r < p + asize - 1 => g.mem[r] = h.mem[r]
  <2> SUFFICES ASSUME NEW r \in Nat, p < r, r < p + asize - 1 PROVE g.mem[r] = h.mem[r]
    OBVIOUS
  <2>1. r \in p .. p + Size(h, p) - 1 /\ r # p /\ r # p + s - 1
    BY <1>3, <1>4
  <2>2. r \in Rows
    BY <1>3, <2>1
  <2> QED
    BY <1>7, <2>1, <2>2 DEF WroteTags
<1> HIDE DEF C
<1> QED
  BY <1>13, <1>14, <1>15 DEF Shrunk, g, d

LEMMA ShrinkSplit ==
    ASSUME NEW h, NEW B, Full(h, B), NEW p \in B, h.mem[p].allocated = 1,
           NEW s, s = Size(h, p), NEW asize \in Nat, asize >= MINSIZE, asize % ALIGNMENT = 0,
           NEW n, n = s - asize, n >= MINSIZE, NEW size \in Nat, NEW rest, rest = p + asize,
           NEW cut, cut = [SetTags(h, rest, 0, 0, n, 0) EXCEPT !.mem[p].block_size = asize],
           Coalesce(cut, rest).fault = "none"
    PROVE  Shrunk(h, B, p, asize, size,
                  SetTags(Coalesce(cut, rest), p, 1, Padded(size, asize), asize, size))
<1> DEFINE F == FreeIn(h, B)
           c == Classes(h)
           m == p + s
           t == SetTags(h, rest, 0, 0, n, 0)
           w == [h.mem[p] EXCEPT !.block_size = asize]
           v == Coalesce(cut, rest)
           d == Padded(size, asize)
           g == SetTags(v, p, 1, d, asize, size)
           G == (F \ {m}) \cup {rest}
<1>1. /\ h \in Heaps /\ h.end \in Nat /\ h.end \in PageEnds /\ h.fault = "none"
      /\ F \subseteq B /\ Linked(h, F, c) /\ p \in Rows /\ p \notin F
      /\ h.mem[p] \in TagWords
      /\ \A q \in B : c[q] = ListIndex(Size(h, q))
  <2>1. p \notin F
    BY DEF FreeIn
  <2> QED
    BY <2>1, FullIn
<1>2. /\ \A r \in p .. p + Size(h, p) - 1 : r \in Rows \ LinkRows(F)
      /\ p \in Nat /\ p + Size(h, p) \in B \cup {h.end} /\ Block(h, p)
      /\ \A q \in F : q \in Nat /\ (q + 4 <= p \/ q >= p + Size(h, p))
  <2>1. F \subseteq B /\ p \notin F /\ p \in B /\ Full(h, B)
    BY <1>1
  <2> HIDE DEF F
  <2> QED
    BY <2>1, UnlistedRows
<1>3. /\ s \in Nat /\ s >= 4 /\ s % ALIGNMENT = 0
      /\ n \in Nat /\ n >= 4 /\ n % ALIGNMENT = 0 /\ asize >= 4 /\ s = asize + n
      /\ rest \in Nat /\ m \in Nat /\ rest + n = m /\ p < rest /\ rest < m
      /\ d \in {0, 1}
  <2>1. s \in Nat /\ s >= 4 /\ s % ALIGNMENT = 0
    BY <1>2, BlockIn DEF Block
  <2>2. n \in Nat /\ n >= 4 /\ asize >= 4 /\ s = asize + n
    BY <2>1 DEF MINSIZE
  <2>3. n % ALIGNMENT = 0
    BY <2>1, <2>2 DEF ALIGNMENT
  <2>4. rest \in Nat /\ m \in Nat /\ rest + n = m /\ p < rest /\ rest < m
    BY <1>2, <2>1, <2>2
  <2> QED
    BY <2>1, <2>2, <2>3, <2>4, PaddedIn
<1>4. PICK b \in B \cup {h.end} :
          /\ Followed(h, F, c, m, b)
          /\ m \in Nat /\ b \in Nat /\ p < m /\ m <= b /\ (b - m) % ALIGNMENT = 0
          /\ Outside(F, p, b) = F \ {p, m}
          /\ p \in Inside(B, p, b)
          /\ \A q \in Inside(B, p, b) : h.mem[q].allocated = 1 => q = p
  BY FollowedIn
<1> HIDE DEF F, c, d
<1>5. /\ p \in Rows \ LinkRows(F) /\ p + asize - 1 \in Rows \ LinkRows(F)
      /\ rest \in Rows \ LinkRows(F) /\ rest + n - 1 \in Rows \ LinkRows(F)
  <2>1. /\ p \in p .. p + Size(h, p) - 1 /\ p + asize - 1 \in p .. p + Size(h, p) - 1
        /\ rest \in p .. p + Size(h, p) - 1 /\ rest + n - 1 \in p .. p + Size(h, p) - 1
    BY <1>2, <1>3
  <2> QED
    BY <1>2, <2>1
<1>6. Linked(t, F, c) /\ WroteTags(h, t, rest, 0, 0, n, 0)
  <2>1. n >= MINSIZE /\ 0 \in {0, 1} /\ 0 \in Nat
    OBVIOUS
  <2> QED
    BY <1>1, <1>3, <1>5, <2>1, TagsLinks
<1> HIDE DEF t
<1>7. p # rest /\ p # rest + n - 1 /\ t.mem[p] = h.mem[p]
  <2>1. p # rest /\ p # rest + n - 1
    BY <1>2, <1>3
  <2> QED
    BY <1>1, <1>6, <2>1 DEF WroteTags
<1>8. cut = Store(t, p, w) /\ w \in TagWords
  <2>1. w \in TagWords
    BY <1>1, TagResized
  <2>2. Rec(t) /\ t.mem = [r \in Rows |-> t.mem[r]]
    BY <1>6, HeapFields DEF Linked
  <2>3. cut = [t EXCEPT !.mem[p].block_size = asize]
    BY DEF t
  <2>4. cut = Store(t, p, w)
    BY <1>1, <1>7, <2>2, <2>3 DEF Store, Rec
  <2> QED
    BY <2>1, <2>4
<1> HIDE DEF w
<1>9. Linked(cut, F, c) /\ Wrote(t, cut, p, w) /\ cut.fault = t.fault
  <2>1. w \in TagWords \cup DataWords \cup {Zero} /\ Linked(t, F, c) /\ p \in Rows \ LinkRows(F)
    BY <1>5, <1>6, <1>8
  <2>2. /\ Linked(Store(t, p, w), F, c) /\ Wrote(t, Store(t, p, w), p, w)
        /\ Store(t, p, w).fault = t.fault
    BY <2>1, LinkedStored
  <2> QED
    BY <1>8, <2>2
<1>10. \A r \in Rows : r # p /\ r # rest /\ r # rest + n - 1 => cut.mem[r] = h.mem[r]
  BY <1>6, <1>9 DEF Wrote, WroteTags
<1>11. cut.mem[rest] = Tag(0, 0, n, 0) /\ cut.mem[rest + n - 1] = Tag(0, 0, n, 0)
  BY <1>5, <1>6, <1>7, <1>9 DEF Wrote, WroteTags
<1>12. \A r \in Rows : r < p \/ r >= m => cut.mem[r] = h.mem[r]
  BY <1>2, <1>3, <1>10, RowsIn
<1>13. Loose(cut, F, c, rest, n)
  <2>1. p <= rest /\ rest + n = p + Size(h, p) /\ cut.fault = "none"
    BY <1>1, <1>2, <1>3, <1>6, <1>9 DEF WroteTags
  <2> QED
    BY <1>3, <1>9, <1>11, <1>12, <2>1, LooseMade DEF F, c
<1>14. Followed(cut, F, c, m, b)
  <2>1. \A r \in Rows : r >= m => cut.mem[r] = h.mem[r]
    BY <1>12
  <2>2. m \in Nat /\ Followed(h, F, c, m, b)
    BY <1>4
  <2> HIDE DEF m
  <2>3. ASSUME NEW k, \A r \in Rows : r >= m => k.mem[r] = h.mem[r]
        PROVE  Followed(k, F, c, m, b)
    BY <2>2, <2>3, FollowedKept
  <2> QED
    BY <2>1, <2>3
<1>15. PICK e : Coalesced(cut, F, c, rest, m, b, e, v)
  <2>1. m = rest + n
    BY <1>3
  <2> HIDE DEF m
  <2> QED
    BY <1>13, <1>14, <2>1, CoalesceLinks
<1> HIDE DEF v
<1>16. /\ Linked(v, G, e) /\ Merged(cut, F \cup {rest}, rest, b, v)
       /\ e[rest] = ListIndex(b - rest) /\ \A x \in F \ {m} : e[x] = c[x]
  BY <1>15 DEF Coalesced
<1>17. Block(v, rest) /\ Size(v, rest) = b - rest /\ v.mem[rest].allocated = 0
       /\ rest + Size(v, rest) = b /\ Last(v, rest) = b - 1
  <2>1. b - rest >= 4
    BY <1>3, <1>4
  <2>2. (b - rest) % ALIGNMENT = 0
    BY <1>3, <1>4 DEF ALIGNMENT
  <2>3. Block(v, rest) /\ Size(v, rest) = b - rest /\ v.mem[rest].allocated = 0
        /\ rest + Size(v, rest) = b
    BY <1>4, <1>5, <1>16, <2>1, <2>2, MergedBlock
  <2> QED
    BY <1>3, <1>4, <2>3, BlockIn
<1>18. p \in Rows \ LinkRows(G) /\ p + asize - 1 \in Rows \ LinkRows(G)
  <2>1. p # rest + 1 /\ p # rest + 2 /\ p + asize - 1 # rest + 1 /\ p + asize - 1 # rest + 2
    BY <1>2, <1>3
  <2> HIDE DEF m
  <2> QED
    BY <1>5, <2>1 DEF LinkRows
<1> HIDE DEF G
<1>19. Linked(g, G, e) /\ WroteTags(v, g, p, 1, d, asize, size)
  BY <1>3, <1>16, <1>18, TagsLinks
<1> HIDE DEF g
<1>20. /\ Block(g, p) /\ Size(g, p) = asize /\ Last(g, p) = p + asize - 1
       /\ g.mem[p].allocated = 1 /\ g.mem[p].padded = d
       /\ g.mem[Last(g, p)].requested_size = size
  <2>1. Made(g, p, 1, d, asize, size)
    BY <1>3, <1>5, <1>19, BlockMade DEF WroteTags
  <2> QED
    BY <2>1 DEF Made
<1>21. Block(g, rest) /\ Size(g, rest) = b - rest /\ g.mem[rest].allocated = 0 /\ rest + Size(g, rest) = b
  <2>1. /\ rest # p /\ rest # p + asize - 1 /\ b - 1 # p /\ b - 1 # p + asize - 1
        /\ b - 1 \in Rows /\ rest \in Rows
    <3>1. b - 1 \in Rows
      BY <1>16 DEF Merged
    <3> QED
      BY <1>2, <1>3, <1>4, <1>5, <3>1
  <2>2. g.mem[rest] = v.mem[rest] /\ g.mem[b - 1] = v.mem[b - 1]
    BY <1>19, <2>1 DEF WroteTags
  <2>3. Block(g, rest) /\ Size(g, rest) = Size(v, rest)
    BY <1>17, <2>2, BlockKept
  <2> QED
    BY <1>17, <2>2, <2>3
<1>22. g \in Heaps /\ g.fault = "none" /\ g.end = h.end /\ g.end \in PageEnds
  BY <1>1, <1>6, <1>9, <1>16, <1>19 DEF Merged, Keeps, WroteTags, Wrote
<1>23. ASSUME NEW r \in Rows, r \notin LinkRows(F),
              r < p \/ r >= b \/ (p < r /\ r < p + asize - 1)
       PROVE  g.mem[r] = h.mem[r]
  <2>1. /\ r # p /\ r # p + asize - 1 /\ r # rest /\ r # rest + n - 1 /\ r # rest + 1 /\ r # rest + 2
        /\ r # b - 1
    BY <1>2, <1>3, <1>4, <1>23, RowsIn
  <2>2. r \notin LinkRows(F \cup {rest})
    BY <1>23, <2>1 DEF LinkRows
  <2>3. g.mem[r] = v.mem[r] /\ v.mem[r] = cut.mem[r] /\ cut.mem[r] = h.mem[r]
    BY <1>10, <1>16, <1>19, <2>1, <2>2 DEF WroteTags, Merged
  <2> QED
    BY <2>3
<1>24. SameOutside(h, g, F, p, b)
  BY <1>23 DEF SameOutside
<1>25. Tiles(g, {p, rest}, p, b)
  BY <1>20, <1>21, TilesTwo
<1>26. FreeIn(g, {p, rest}) = {rest} /\ AllocatedIn(g, {p, rest}) = {p}
  BY <1>20, <1>21 DEF FreeIn, AllocatedIn
<1> DEFINE C == Replaced(B, p, b, {p, rest})
<1>27. Full(g, C) /\ Others(h, B, g, C, Inside(B, p, b), {p})
  <2>1. G = Outside(F, p, b) \cup FreeIn(g, {p, rest})
    BY <1>1, <1>4, <1>26 DEF G, F
  <2>2. \A q \in FreeIn(g, {p, rest}) : e[q] = ListIndex(Size(g, q))
    BY <1>16, <1>21, <1>26
  <2>3. \A q \in Outside(F, p, b) : e[q] = ListIndex(Size(h, q))
    BY <1>1, <1>4, <1>16 DEF F
  <2>4. p \in B \cup {h.end} /\ p <= b /\ ((b = b /\ g.end = h.end) \/ (b = h.end /\ g.end = b /\ b <= b))
    BY <1>2, <1>4, <1>22
  <2> HIDE DEF m
  <2>5. Full(g, C) /\ Others(h, B, g, C, Inside(B, p, b), AllocatedIn(g, {p, rest}))
    BY <1>4, <1>19, <1>22, <1>24, <1>25, <2>1, <2>2, <2>3, <2>4, Remade DEF F
  <2> QED
    BY <1>26, <2>5
<1>28. Others(h, B, g, C, {p}, {p})
  <2>1. {p} \subseteq Inside(B, p, b)
        /\ \A q \in Inside(B, p, b) : q \in B /\ h.mem[q].allocated = 1 => q \in {p}
    BY <1>4
  <2> HIDE DEF C
  <2> QED
    BY <1>27, <2>1, OthersFewer
<1>29. Granted(g, C, p, asize, size)
  <2>1. p \in C
    BY DEF Replaced
  <2> HIDE DEF C
  <2> QED
    BY <1>20, <2>1 DEF Granted, d
<1>30. \A r \in Nat : p < r /\ r < p + asize - 1 => g.mem[r] = h.mem[r]
  <2> SUFFICES ASSUME NEW r \in Nat, p < r, r < p + asize - 1 PROVE g.mem[r] = h.mem[r]
    OBVIOUS
  <2>1. r \in p .. p + Size(h, p) - 1
    BY <1>2, <1>3
  <2>2. r \in Rows /\ r \notin LinkRows(F)
    BY <1>2, <2>1
  <2> QED
    BY <1>23, <2>2
<1> HIDE DEF C
<1> QED
  BY <1>27, <1>28, <1>29, <1>30 DEF Shrunk, g, v, d

LEMMA ShrinkFull ==
    ASSUME NEW h, NEW B, Full(h, B), NEW p \in B, h.mem[p].allocated = 1, NEW size \in Nat,
           Adjusted(size) <= Size(h, p), Shrink(h, p, size).fault = "none"
    PROVE  Shrunk(h, B, p, Adjusted(size), size, Shrink(h, p, size))
<1> DEFINE s == Size(h, p)
           asize == Adjusted(size)
           n == s - asize
           rest == p + asize
           tagged == SetTags(h, rest, 0, 0, n, 0)
           cut == [tagged EXCEPT !.mem[p].block_size = asize]
           v == Coalesce(cut, rest)
<1>1. h \in Heaps /\ Rec(h) /\ TagAt(h, p).block_size = s
  BY FullIn, HeapFields DEF Size
<1>2. asize \in Nat /\ asize >= MINSIZE /\ asize % ALIGNMENT = 0
  BY AdjustedIn
<1>3. s \in Nat
  BY FullIn, BlockIn DEF Tiles
<1>4. CASE n > MINSIZE
  <2>1. Shrink(h, p, size) = SetTags(v, p, 1, Padded(size, asize), asize, size)
    BY <1>1, <1>4 DEF Shrink
  <2>2. v.fault = "none"
    <3>1. Rec(tagged)
      BY <1>1, TagsFrame DEF Frame
    <3> HIDE DEF tagged
    <3>2. Rec(cut)
      BY <3>1 DEF Rec
    <3> HIDE DEF cut
    <3>3. Rec(v)
      BY <3>2, CoalesceFrame DEF Frame
    <3> HIDE DEF v
    <3>4. Frame(v, Shrink(h, p, size))
      BY <2>1, <3>3, TagsFrame
    <3> QED
      BY <3>4 DEF Frame
  <2>3. n >= MINSIZE
    BY <1>2, <1>3, <1>4 DEF MINSIZE
  <2>4. cut = [SetTags(h, rest, 0, 0, n, 0) EXCEPT !.mem[p].block_size = asize] /\ n = s - asize
        /\ rest = p + asize /\ s = Size(h, p)
    OBVIOUS
  <2>5. Coalesce(cut, rest).fault = "none"
    BY <2>2
  <2> HIDE DEF cut, n, rest, s, asize
  <2>6. Shrunk(h, B, p, asize, size,
               SetTags(Coalesce(cut, rest), p, 1, Padded(size, asize), asize, size))
    BY <1>2, <2>3, <2>4, <2>5, ShrinkSplit
  <2> QED
    BY <2>1, <2>6 DEF asize
<1>5. CASE ~(n > MINSIZE)
  <2>1. Shrink(h, p, size) = SetTags(h, p, 1, Padded(size, s), s, size)
    BY <1>1, <1>5 DEF Shrink
  <2>2. asize <= s /\ s = Size(h, p)
    OBVIOUS
  <2> HIDE DEF s, asize
  <2>3. Shrunk(h, B, p, asize, size, SetTags(h, p, 1, Padded(size, s), s, size))
    BY <1>2, <2>2, ShrinkWhole
  <2> QED
    BY <2>1, <2>3 DEF asize
<1> QED
  BY <1>4, <1>5

-----------------------------------------------------------------------------
(* Pages *)

\* The last block of the heap is free and has at least n rows.
EndsFree(h, B, n) == \E q \in FreeIn(h, B) : q + Size(h, q) = h.end /\ Size(h, q) >= n

LEMMA LastBlock ==
    ASSUME NEW h, NEW B, Full(h, B), h.end > 0
    PROVE  \E q \in B : /\ q + Size(h, q) = h.end /\ LastSize(h) = Size(h, q)
                        /\ h.end - LastSize(h) = q
                        /\ LastFree(h) <=> h.mem[q].allocated = 0
<1>1. h \in Heaps /\ h.end \in Nat /\ Tiles(h, B, 0, h.end)
  BY FullIn
<1>2. PICK q \in B : q + Size(h, q) = h.end
  BY <1>1, TilesLast
<1>3. Block(h, q)
  BY <1>1 DEF Tiles
<1>4. q \in Nat /\ Size(h, q) \in Nat /\ Last(h, q) = h.end - 1
  BY <1>2, <1>3, BlockIn
<1>5. TagAt(h, h.end - 1) = h.mem[h.end - 1]
  BY <1>1, <1>3, <1>4, TagReads DEF Block
<1>6. LastSize(h) = Size(h, q) /\ TagAt(h, h.end - 1).allocated = h.mem[q].allocated
  BY <1>3, <1>4, <1>5 DEF LastSize, Block
<1>7. h.end - LastSize(h) = q
  BY <1>1, <1>2, <1>4, <1>6
<1> QED
  BY <1>2, <1>6, <1>7 DEF LastFree

\* A page has been added to the heap h: the rows from p on, where the last block
\* began if it was free, are a block that no list leads to.
Paged(h, B, p, x) ==
    /\ Full(h, B) /\ (p = h.end \/ (p \in FreeIn(h, B) /\ p + Size(h, p) = h.end))
    /\ Linked(x, FreeIn(h, B) \ {p}, Classes(h)) /\ PrevOf(x, p) = Null /\ x.fault = "none"
    /\ x.end = h.end + PAGE_SZ /\ x.end \in PageEnds
    /\ \A r \in Rows \ LinkRows(FreeIn(h, B) \cup {p}) : x.mem[r] = h.mem[r]

PagedIn(h, B, p, x) ==
    /\ p \in B \cup {h.end} /\ p \in Nat /\ p <= h.end /\ p + 4 <= x.end /\ x.end \in Nat
    /\ (x.end - p) % ALIGNMENT = 0
    /\ \A r \in Nat : p <= r /\ r < x.end => r \in Rows \ LinkRows(FreeIn(h, B) \ {p})
    /\ \A q \in FreeIn(h, B) \ {p} : q \in Nat /\ q + 4 <= p
    /\ Outside(FreeIn(h, B), p, h.end) = FreeIn(h, B) \ {p}
    /\ \A q \in Inside(B, p, h.end) : q \in B /\ h.mem[q].allocated = 0

LEMMA PagedFacts ==
    ASSUME NEW h, NEW B, NEW p, NEW x, Paged(h, B, p, x) PROVE PagedIn(h, B, p, x)
<1> DEFINE F == FreeIn(h, B)
           G == F \ {p}
<1>1. /\ h \in Heaps /\ h.end \in Nat /\ h.end \in PageEnds /\ Tiles(h, B, 0, h.end)
      /\ F \subseteq B
  BY FullIn DEF Paged
<1>2. \A q \in B : q \in Nat /\ Size(h, q) \in Nat /\ Size(h, q) >= 4 /\ Size(h, q) % ALIGNMENT = 0
                   /\ q + Size(h, q) <= h.end
  <2> TAKE q \in B
  <2>1. Block(h, q) /\ q + Size(h, q) <= h.end
    BY <1>1, TilesInside
  <2> QED
    BY <2>1, BlockIn DEF Block
<1>3. p = h.end \/ (p \in F /\ p + Size(h, p) = h.end)
  BY DEF Paged
<1>4. PAGE_SZ \in Nat /\ PAGE_SZ >= 4 /\ PAGE_SZ % ALIGNMENT = 0 /\ x.end = h.end + PAGE_SZ /\ x.end \in PageEnds
  BY PageAssumption DEF Paged, MINSIZE
<1>5. p \in B \cup {h.end} /\ p \in Nat /\ p <= h.end /\ p + 4 <= x.end /\ x.end \in Nat
  BY <1>1, <1>2, <1>3, <1>4
<1>6. (x.end - p) % ALIGNMENT = 0
  <2>1. CASE p = h.end
    <3>1. x.end - p = PAGE_SZ
      BY <1>1, <1>4, <2>1
    <3> QED
      BY <1>4, <3>1
  <2>2. CASE p \in F /\ p + Size(h, p) = h.end
    <3>1. Size(h, p) \in Nat /\ Size(h, p) % ALIGNMENT = 0
      BY <1>1, <1>2, <2>2
    <3>2. x.end - p = Size(h, p) + PAGE_SZ
      BY <1>4, <1>5, <2>2, <3>1
    <3> QED
      BY <1>4, <3>1, <3>2 DEF ALIGNMENT
  <2> QED
    BY <1>3, <2>1, <2>2
<1>7. ASSUME NEW q \in B, q # p PROVE q \in Nat /\ q + 4 <= p
  <2>1. CASE p = h.end
    BY <1>1, <1>2, <2>1
  <2>2. CASE p \in F /\ p + Size(h, p) = h.end
    <3>1. p + Size(h, p) <= q \/ q + Size(h, q) <= p
      BY <1>1, <1>7, <2>2, Apart
    <3> QED
      BY <1>1, <1>2, <2>2, <3>1
  <2> QED
    BY <1>3, <2>1, <2>2
<1>8. \A q \in G : q \in Nat /\ q + 4 <= p
  BY <1>1, <1>7
<1>9. \A r \in Nat : p <= r /\ r < x.end => r \in Rows \ LinkRows(G)
  <2> SUFFICES ASSUME NEW r \in Nat, p <= r, r < x.end PROVE r \in Rows \ LinkRows(G)
    OBVIOUS
  <2>1. r \in Rows
    BY <1>4, RowsIn
  <2> HIDE DEF G
  <2>2. r \notin LinkRows(G)
    BY <1>5, <1>8 DEF LinkRows
  <2> QED
    BY <2>1, <2>2
<1>10. Outside(F, p, h.end) = G
  <2>1. ASSUME NEW q \in F PROVE (q < p \/ q >= h.end) <=> q # p
    <3>1. q \in B /\ q \in Nat /\ q < h.end
      BY <1>1, <1>2
    <3>2. q # p => q < p
      BY <1>5, <1>7, <3>1
    <3> QED
      BY <1>1, <1>5, <3>1, <3>2
  <2> HIDE DEF F
  <2> QED
    BY <2>1 DEF Outside
<1>11. ASSUME NEW q \in Inside(B, p, h.end) PROVE q \in B /\ h.mem[q].allocated = 0
  <2>1. q \in B /\ p <= q /\ q < h.end
    BY <1>11 DEF Inside
  <2>2. q = p
    BY <1>5, <1>7, <2>1
  <2>3. p \in F
    BY <1>1, <1>3, <2>1, <2>2
  <2> QED
    BY <2>1, <2>2, <2>3 DEF FreeIn
<1> QED
  BY <1>5, <1>6, <1>8, <1>9, <1>10, <1>11 DEF PagedIn

\* The page enters the list of its size, and is a block.
LEMMA PageFull ==
    ASSUME NEW h, NEW B, NEW p, NEW x, Paged(h, B, p, x),
           NEW n, n = x.end - p, NEW i, i = ListIndex(n),
           NEW g, g = SetTags(Insert(x, i, p), p, 0, 0, n, 0)
    PROVE  \E C : /\ Full(g, C) /\ Others(h, B, g, C, {}, {})
                  /\ p \in FreeIn(g, C) /\ p + Size(g, p) = g.end /\ Size(g, p) = n
<1> DEFINE F == FreeIn(h, B)
           G == F \ {p}
           c == Classes(h)
           e == [q \in Rows |-> IF q = p THEN i ELSE c[q]]
           v == Insert(x, i, p)
           hi == h.end
           top == x.end
<1>1. /\ Full(h, B) /\ Linked(x, G, c) /\ PrevOf(x, p) = Null /\ x.fault = "none"
      /\ x.end = h.end + PAGE_SZ /\ x.end \in PageEnds
      /\ \A r \in Rows \ LinkRows(F \cup {p}) : x.mem[r] = h.mem[r]
  BY DEF Paged
<1>2. /\ p \in B \cup {hi} /\ p \in Nat /\ p <= hi /\ p + 4 <= top /\ top \in Nat
      /\ n % ALIGNMENT = 0
      /\ \A r \in Nat : p <= r /\ r < top => r \in Rows \ LinkRows(G)
      /\ \A q \in G : q \in Nat /\ q + 4 <= p
      /\ Outside(F, p, hi) = G
      /\ \A q \in Inside(B, p, hi) : q \in B /\ h.mem[q].allocated = 0
  BY PagedFacts DEF PagedIn
<1>3. hi \in Nat /\ \A q \in B : c[q] = ListIndex(Size(h, q))
  BY <1>1, FullIn
<1>4. F \subseteq B
  BY DEF FreeIn
<1>5. n \in Nat /\ n >= 4 /\ p + n = top /\ n >= MINSIZE /\ i \in Lists
  BY <1>2, ClassIn DEF MINSIZE
<1> HIDE DEF F, c
<1>6. /\ p \in Rows \ LinkRows(G) /\ p + 1 \in Rows /\ p + 2 \in Rows
      /\ p + n - 1 \in Rows \ LinkRows(G)
  <2>1. /\ p \in Nat /\ p <= p /\ p < top
        /\ p + 1 \in Nat /\ p <= p + 1 /\ p + 1 < top
        /\ p + 2 \in Nat /\ p <= p + 2 /\ p + 2 < top
        /\ p + n - 1 \in Nat /\ p <= p + n - 1 /\ p + n - 1 < top
    BY <1>2, <1>5
  <2> HIDE DEF G, top
  <2> QED
    BY <1>2, <2>1
<1>7. p \notin G /\ Spread(G \cup {p})
  <2>1. Spread(G)
    BY <1>1 DEF Linked
  <2> QED
    BY <1>2, <1>6, <2>1 DEF Spread
<1>8. e[p] = i /\ \A q \in G : e[q] = c[q]
  <2>1. \A q \in G : q \in Rows
    BY <1>1, SpreadIn DEF Linked
  <2> QED
    BY <1>6, <1>7, <2>1
<1> HIDE DEF e
<1>9. Linked(v, G \cup {p}, e) /\ OnLinks(x, v, G \cup {p}) /\ v.fault = x.fault
  <2>1. Linked(x, G, e)
    BY <1>1, <1>8, LinkedClasses
  <2> HIDE DEF G
  <2> QED
    BY <1>1, <1>5, <1>7, <1>8, <2>1, InsertLinks
<1> HIDE DEF v
<1>10. p \in Rows \ LinkRows(G \cup {p}) /\ p + n - 1 \in Rows \ LinkRows(G \cup {p})
  <2>1. p # p + 1 /\ p # p + 2 /\ p + n - 1 # p + 1 /\ p + n - 1 # p + 2
    BY <1>2, <1>5
  <2> HIDE DEF G
  <2> QED
    BY <1>6, <2>1 DEF LinkRows
<1>11. Linked(g, G \cup {p}, e) /\ WroteTags(v, g, p, 0, 0, n, 0)
  <2>1. g = SetTags(v, p, 0, 0, n, 0)
    BY DEF v
  <2>2. /\ Linked(v, G \cup {p}, e) /\ p \in Rows \ LinkRows(G \cup {p}) /\ 0 \in {0, 1} /\ 0 \in Nat
        /\ n \in Nat /\ n >= MINSIZE /\ p + n - 1 \in Rows \ LinkRows(G \cup {p})
    BY <1>5, <1>9, <1>10
  <2> HIDE DEF G
  <2>3. Linked(SetTags(v, p, 0, 0, n, 0), G \cup {p}, e)
        /\ WroteTags(v, SetTags(v, p, 0, 0, n, 0), p, 0, 0, n, 0)
    BY <2>2, TagsLinks
  <2> QED
    BY <2>1, <2>3
<1>12. Block(g, p) /\ Size(g, p) = n /\ g.mem[p].allocated = 0
  <2>1. /\ p \in Rows /\ 0 \in {0, 1} /\ p + n - 1 \in Rows /\ 0 \in Nat
        /\ g.mem[p] = Tag(0, 0, n, 0) /\ g.mem[p + n - 1] = Tag(0, 0, n, 0)
    BY <1>6, <1>11 DEF WroteTags
  <2>2. Made(g, p, 0, 0, n, 0)
    BY <1>2, <1>5, <2>1, BlockMade
  <2> QED
    BY <2>2 DEF Made
<1>13. g \in Heaps /\ g.fault = "none" /\ g.end = top /\ g.end \in PageEnds
  BY <1>1, <1>9, <1>11 DEF OnLinks, Keeps, WroteTags
<1>14. SameOutside(h, g, F, p, top)
  <2> SUFFICES ASSUME NEW r \in Rows, r < p \/ r >= top, r \notin LinkRows(F)
               PROVE  g.mem[r] = h.mem[r]
    BY DEF SameOutside
  <2>1. r # p /\ r # p + 1 /\ r # p + 2 /\ r # p + n - 1
    BY <1>2, <1>5, RowsIn
  <2>2. r \notin LinkRows(F \cup {p}) /\ r \notin LinkRows(G \cup {p})
    BY <2>1 DEF LinkRows
  <2>3. g.mem[r] = v.mem[r] /\ v.mem[r] = x.mem[r]
    BY <1>9, <1>11, <2>1, <2>2 DEF OnLinks, WroteTags
  <2> QED
    BY <1>1, <2>2, <2>3
<1>15. Tiles(g, {p}, p, top)
  <2>1. p + Size(g, p) = top
    BY <1>5, <1>12
  <2> HIDE DEF top
  <2> QED
    BY <1>12, <2>1, TilesSingle
<1>16. FreeIn(g, {p}) = {p} /\ AllocatedIn(g, {p}) = {}
  BY <1>12 DEF FreeIn, AllocatedIn
<1> DEFINE C == Replaced(B, p, hi, {p})
<1>17. Full(g, C) /\ Others(h, B, g, C, Inside(B, p, hi), {})
  <2> DEFINE H == G \cup {p}
             D == {p}
             R == FreeIn(h, B)
  <2>1. H = Outside(R, p, hi) \cup FreeIn(g, D)
    BY <1>2, <1>16 DEF F
  <2>2. \A q \in FreeIn(g, D) : e[q] = ListIndex(Size(g, q))
    BY <1>8, <1>12, <1>16
  <2>3. \A q \in Outside(R, p, hi) : e[q] = ListIndex(Size(h, q))
    BY <1>2, <1>3, <1>4, <1>8 DEF F
  <2>4. p \in B \cup {h.end} /\ hi \in B \cup {h.end}
        /\ ((top = hi /\ g.end = h.end) \/ (hi = h.end /\ g.end = top /\ hi <= top))
    BY <1>2, <1>3, <1>13, <1>1, PageAssumption
  <2>5. p <= hi /\ top \in Nat /\ p <= top
    BY <1>2, <1>3
  <2>6. /\ Full(h, B) /\ g \in Heaps /\ g.fault = "none" /\ g.end \in PageEnds
        /\ Tiles(g, D, p, top) /\ SameOutside(h, g, R, p, top) /\ Linked(g, H, e)
    BY <1>1, <1>11, <1>13, <1>14, <1>15 DEF F
  <2> HIDE DEF top, hi, H, D
  <2>7. Full(g, Replaced(B, p, hi, D)) /\ Others(h, B, g, Replaced(B, p, hi, D), Inside(B, p, hi), AllocatedIn(g, D))
    BY <2>1, <2>2, <2>3, <2>4, <2>5, <2>6, Remade
  <2> QED
    BY <1>16, <2>7 DEF D
<1>18. Others(h, B, g, C, {}, {})
  <2>1. {} \subseteq Inside(B, p, hi)
        /\ \A q \in Inside(B, p, hi) : q \in B /\ h.mem[q].allocated = 1 => q \in {}
    BY <1>2
  <2> HIDE DEF C, hi
  <2> QED
    BY <1>17, <2>1, OthersFewer
<1>19. p \in FreeIn(g, C) /\ p + Size(g, p) = g.end
  <2>1. p \in C
    BY DEF Replaced
  <2> QED
    BY <1>5, <1>12, <1>13, <2>1 DEF FreeIn
<1> HIDE DEF C
<1> QED
  BY <1>12, <1>17, <1>18, <1>19

LEMMA StoreIs ==
    ASSUME NEW h, Rec(h), NEW p \in Rows, NEW w
    PROVE  LET g == Store(h, p, w)
           IN  /\ Rec(g) /\ g.mem = [h.mem EXCEPT ![p] = w] /\ g.head = h.head
               /\ g.end = h.end /\ g.fault = h.fault /\ g.disordered = h.disordered
  BY DEF Store, Rec

\* A heap of which only the end and the history have changed.
LEMMA LongerHeaps ==
    ASSUME NEW h \in Heaps, NEW g, Rec(g), g.mem = h.mem, g.head = h.head, g.fault = h.fault,
           g.end \in Nat, g.disordered \in BOOLEAN
    PROVE  g \in Heaps
<1>1. h.mem \in [Rows -> Words] /\ h.head \in [Lists -> Rows \cup {Null}]
      /\ h.fault \in {"none", "wild", "loop", "abort"}
  BY HeapFields
<1> QED
  BY <1>1 DEF Rec, Heaps

\* The heap with its last block out of its list, or with none, and a page longer.
LEMMA PageAdded ==
    ASSUME NEW h, NEW B, Full(h, B), CanGrow(h), NEW d, Rec(d), d.end = h.end, d.disordered \in BOOLEAN,
           NEW p, p = h.end \/ (p \in FreeIn(h, B) /\ p + Size(h, p) = h.end), p + 2 \in Rows,
           NEW v, v = SetPrev(d, p, Null), Linked(v, FreeIn(h, B) \ {p}, Classes(h)),
           PrevOf(v, p) = Null, v.fault = "none",
           \A r \in Rows \ LinkRows(FreeIn(h, B) \cup {p}) : v.mem[r] = h.mem[r],
           NEW x, x = SetPrev(Longer(h, d), p, Null)
    PROVE  Paged(h, B, p, x)
<1> DEFINE k == Longer(h, d)
<1>1. h.end \in PageEnds /\ h.end \in Nat /\ h.end < Pages * PAGE_SZ
  BY FullIn DEF CanGrow
<1>2. h.end + PAGE_SZ \in PageEnds /\ h.end + PAGE_SZ \in Nat
  BY <1>1, PageEndIn
<1>3. /\ Rec(k) /\ k.end = h.end + PAGE_SZ /\ k.mem = d.mem /\ k.head = d.head
      /\ k.fault = d.fault /\ k.disordered = (d.disordered \/ Disorders(h))
  BY LongerIs
<1> HIDE DEF k
<1>4. k.disordered \in BOOLEAN
  BY <1>3
<1>5. /\ v.mem = [d.mem EXCEPT ![p + 2] = Link(Null)] /\ v.head = d.head /\ v.fault = d.fault
  BY StoreIs DEF SetPrev
<1>6. /\ Rec(x) /\ x.mem = [k.mem EXCEPT ![p + 2] = Link(Null)] /\ x.head = k.head
      /\ x.end = k.end /\ x.fault = k.fault /\ x.disordered = k.disordered
  <2>1. x = Store(k, p + 2, Link(Null))
    BY DEF SetPrev, k
  <2> QED
    BY <1>3, <2>1, StoreIs
<1>7. x.mem = v.mem /\ x.head = v.head /\ x.fault = v.fault
  BY <1>3, <1>5, <1>6
<1>8. x \in Heaps
  <2>1. v \in Heaps
    BY DEF Linked
  <2> QED
    BY <1>2, <1>3, <1>4, <1>6, <1>7, <2>1, LongerHeaps
<1>9. Linked(x, FreeIn(h, B) \ {p}, Classes(h))
  BY <1>7, <1>8, LinkedSame
<1>10. PrevOf(x, p) = Null
  BY <1>7 DEF PrevOf, LinkAt
<1> QED
  BY <1>2, <1>3, <1>6, <1>7, <1>9, <1>10 DEF Paged

\* new_page, when it leaves no disorder
LEMMA NewPageFull ==
    ASSUME NEW h, NEW B, Full(h, B), CanGrow(h), NewPage(h).fault = "none", ~Disorders(h),
           NEW n \in Nat, n = 0 \/ EndsFree(h, B, n)
    PROVE  LET g == NewPage(h)
           IN  \E C : /\ Full(g, C) /\ Others(h, B, g, C, {}, {}) /\ EndsFree(g, C, n + PAGE_SZ)
<1> DEFINE F == FreeIn(h, B)
           c == Classes(h)
           p == IF LastFree(h) THEN h.end - LastSize(h) ELSE h.end
           i == ListIndex(IF LastFree(h) THEN TagAt(h, p).block_size ELSE PAGE_SZ)
           d == IF LastFree(h) THEN Drop(h, i, p) ELSE h
           k == Longer(h, d)
           x == SetPrev(k, p, Null)
           v == SetPrev(d, p, Null)
           g == SetTags(Insert(x, i, p), p, 0, 0, k.end - p, 0)
<1>1. NewPage(h) = g
  BY DEF NewPage, Longer
<1>2. /\ h \in Heaps /\ Rec(h) /\ h.end \in Nat /\ h.end \in PageEnds /\ h.fault = "none"
      /\ F \subseteq B /\ Linked(h, F, c) /\ Tagged(h, F) /\ h.disordered \in BOOLEAN
      /\ Tiles(h, B, 0, h.end)
      /\ \A q \in B : TagAt(h, q).block_size = Size(h, q) /\ c[q] = ListIndex(Size(h, q)) /\ c[q] \in Lists
  BY FullIn, HeapFields DEF Size
<1>3. PAGE_SZ \in Nat /\ PAGE_SZ >= 4
  BY PageAssumption DEF MINSIZE
<1>4. h.end + PAGE_SZ \in PageEnds /\ h.end + PAGE_SZ \in Nat
  BY <1>2, PageEndIn DEF CanGrow
<1>5. Rec(d) /\ d.end = h.end /\ d.disordered = h.disordered
  BY <1>2, DropFrame DEF Frame, Rec
<1>6. Rec(k) /\ k.end = h.end + PAGE_SZ /\ k.fault = d.fault
  BY <1>5, LongerIs
<1>7. x.fault = "none" /\ d.fault = "none" /\ x.end = k.end
  <2> HIDE DEF d, i, p
  <2> DEFINE y == Insert(x, i, p)
  <2> HIDE DEF k
  <2>1. Frame(k, x)
    BY <1>6, LinkFrame
  <2> HIDE DEF x
  <2>2. Frame(x, y)
    BY <2>1, InsertFrame DEF Frame
  <2> HIDE DEF y
  <2>3. Frame(y, g)
    BY <2>2, TagsFrame DEF Frame, y
  <2> QED
    BY <1>1, <1>6, <2>1, <2>2, <2>3 DEF Frame
<1>8. /\ p = h.end \/ (p \in F /\ p + Size(h, p) = h.end)
      /\ p + 2 \in Rows /\ Linked(v, F \ {p}, c) /\ PrevOf(v, p) = Null /\ v.fault = "none"
      /\ \A r \in Rows \ LinkRows(F \cup {p}) : v.mem[r] = h.mem[r]
      /\ i = ListIndex(h.end + PAGE_SZ - p)
      /\ n + PAGE_SZ <= h.end + PAGE_SZ - p
  <2>1. CASE LastFree(h)
    <3>1. h.end > 0
      BY <2>1 DEF LastFree
    <3>2. PICK q \in B : /\ q + Size(h, q) = h.end /\ LastSize(h) = Size(h, q)
                         /\ h.end - LastSize(h) = q
                         /\ LastFree(h) <=> h.mem[q].allocated = 0
      BY <3>1, LastBlock
    <3>3. p = q /\ q \in F
      BY <2>1, <3>2 DEF FreeIn
    <3>4. i = c[q] /\ c[q] \in Lists /\ d = Drop(h, c[q], q)
      BY <1>2, <2>1, <3>3
    <3>5. /\ i = ListIndex(LastSize(h) + PAGE_SZ)
          /\ \A r \in Rows : LinkAt(d, r) # q
      <4>1. p = h.end - LastSize(h) /\ i = ListIndex(TagAt(h, p).block_size) /\ d = Drop(h, i, p)
        BY <2>1
      <4> HIDE DEF p, i, d
      <4> QED
        BY <2>1, <3>3, <4>1 DEF Disorders
    <3>6. q \in Nat /\ Size(h, q) \in Nat /\ q + 2 \in Rows
      BY <1>2, BlockIn DEF Tiles
    <3>7. h.end + PAGE_SZ - p = LastSize(h) + PAGE_SZ
      BY <1>2, <1>3, <3>2, <3>3, <3>6
    <3>8. Linked(v, F \ {q}, c) /\ OnLinks(h, v, F) /\ v.fault = "none" /\ PrevOf(v, q) = Null
      <4>1. v = SetPrev(d, q, Null)
        BY <3>3
      <4>2. /\ Linked(h, F, c) /\ Tagged(h, F) /\ q \in F /\ c[q] \in Lists
            /\ d = Drop(h, c[q], q) /\ d.fault = "none" /\ \A r \in Rows : LinkAt(d, r) # q
        BY <1>2, <1>7, <3>3, <3>4, <3>5
      <4> HIDE DEF F, c, d, v, p, i
      <4>3. /\ Linked(SetPrev(d, q, Null), F \ {q}, c) /\ OnLinks(h, SetPrev(d, q, Null), F)
            /\ SetPrev(d, q, Null).fault = "none" /\ PrevOf(SetPrev(d, q, Null), q) = Null
        BY <4>2, DroppedLinks
      <4> QED
        BY <4>1, <4>3
    <3>9. n <= Size(h, q)
      <4>1. CASE n = 0
        BY <3>6, <4>1
      <4>2. CASE EndsFree(h, B, n)
        <5>1. PICK y \in F : y + Size(h, y) = h.end /\ Size(h, y) >= n
          BY <4>2 DEF EndsFree
        <5>2. y \in B /\ y \in Nat /\ Size(h, y) \in Nat /\ Size(h, y) >= 4
          BY <1>2, BlockIn DEF Tiles
        <5>3. y = q \/ y + Size(h, y) <= q \/ q + Size(h, q) <= y
          BY <1>2, <5>2, Apart
        <5>4. Size(h, q) >= 4
          BY <1>2, BlockIn DEF Tiles
        <5> QED
          BY <3>2, <3>6, <5>1, <5>2, <5>3, <5>4
      <4> QED
        BY <4>1, <4>2
    <3>10. n + PAGE_SZ <= h.end + PAGE_SZ - p
      BY <1>3, <3>2, <3>6, <3>7, <3>9
    <3>11. \A r \in Rows \ LinkRows(F \cup {p}) : v.mem[r] = h.mem[r]
      <4>1. LinkRows(F) \subseteq LinkRows(F \cup {p})
        BY DEF LinkRows
      <4> HIDE DEF F, v, p
      <4> QED
        BY <3>8, <4>1 DEF OnLinks
    <3> HIDE DEF F, c, v, i, p
    <3> QED
      BY <3>2, <3>3, <3>5, <3>6, <3>7, <3>8, <3>10, <3>11
  <2>2. CASE ~LastFree(h)
    <3>1. p = h.end /\ i = ListIndex(PAGE_SZ) /\ d = h
      BY <2>2
    <3>2. p + 2 \in Rows \ LinkRows(F)
      <4>1. p + 2 \in Rows
        BY <1>2, <1>3, <1>4, <3>1, RowsIn
      <4>2. \A q \in F : q \in Nat /\ q + 4 <= h.end
        <5> TAKE q \in F
        <5>1. q \in B
          BY <1>2
        <5>2. Block(h, q) /\ q + Size(h, q) <= h.end
          BY <1>2, <5>1, TilesInside
        <5>3. q \in Nat /\ Size(h, q) \in Nat /\ Size(h, q) >= 4
          BY <5>2, BlockIn
        <5> QED
          BY <1>2, <5>2, <5>3
      <4> HIDE DEF F, p
      <4>3. p + 2 \notin LinkRows(F)
        BY <1>2, <3>1, <4>2 DEF LinkRows
      <4> QED
        BY <4>1, <4>3
    <3>3. v = Store(h, p + 2, Zero)
      BY <3>1 DEF SetPrev, Zero
    <3> HIDE DEF F, c, v, d, p, i
    <3>4. Linked(v, F, c) /\ Wrote(h, v, p + 2, Zero) /\ v.fault = "none"
      BY <1>2, <3>2, <3>3, LinkedStored
    <3>5. PrevOf(v, p) = Null
      <4>1. v \in Heaps /\ v.mem[p + 2] = Link(Null)
        BY <3>2, <3>4 DEF Wrote, Keeps, Zero
      <4> QED
        BY <3>2, <4>1, LinkReads DEF PrevOf
    <3>6. F \ {p} = F
      <4>1. h.end \notin B
        BY <1>2 DEF Tiles
      <4> QED
        BY <1>2, <3>1, <4>1
    <3>7. \A r \in Rows \ LinkRows(F \cup {p}) : v.mem[r] = h.mem[r]
      <4>1. p + 2 \in LinkRows(F \cup {p})
        BY DEF LinkRows
      <4> QED
        BY <3>4, <4>1 DEF Wrote
    <3>8. h.end + PAGE_SZ - p = PAGE_SZ
      BY <1>2, <1>3, <3>1
    <3>9. n = 0
      <4> SUFFICES ASSUME EndsFree(h, B, n) PROVE FALSE
        OBVIOUS
      <4>1. PICK y \in F : y + Size(h, y) = h.end
        BY DEF EndsFree, F
      <4>2. y \in B /\ y \in Nat /\ Size(h, y) \in Nat /\ Size(h, y) >= 4 /\ h.mem[y].allocated = 0
        BY <1>2, BlockIn DEF Tiles, F, FreeIn
      <4>3. h.end > 0
        BY <1>2, <4>1, <4>2
      <4>4. PICK q \in B : q + Size(h, q) = h.end /\ (LastFree(h) <=> h.mem[q].allocated = 0)
        BY <4>3, LastBlock
      <4>5. q \in Nat /\ Size(h, q) \in Nat /\ Size(h, q) >= 4
        BY <1>2, BlockIn DEF Tiles
      <4>6. y = q \/ y + Size(h, y) <= q \/ q + Size(h, q) <= y
        BY <1>2, <4>2, Apart
      <4>7. y = q
        BY <4>1, <4>2, <4>4, <4>5, <4>6
      <4> QED
        BY <2>2, <4>2, <4>4, <4>7
    <3>10. n + PAGE_SZ <= h.end + PAGE_SZ - p
      BY <1>3, <3>8, <3>9
    <3>11. i = ListIndex(h.end + PAGE_SZ - p)
      BY <3>1, <3>8
    <3> QED
      BY <3>1, <3>2, <3>4, <3>5, <3>6, <3>7, <3>10, <3>11
  <2> QED
    BY <2>1, <2>2
<1> HIDE DEF p, i, d, F, c
<1>9. Paged(h, B, p, x)
  <2>1. d.disordered \in BOOLEAN
    BY <1>2, <1>5
  <2>2. p = h.end \/ (p \in FreeIn(h, B) /\ p + Size(h, p) = h.end)
    BY <1>8 DEF F
  <2>3. Linked(v, FreeIn(h, B) \ {p}, Classes(h))
        /\ \A r \in Rows \ LinkRows(FreeIn(h, B) \cup {p}) : v.mem[r] = h.mem[r]
    BY <1>8 DEF F, c
  <2>4. v = SetPrev(d, p, Null) /\ x = SetPrev(Longer(h, d), p, Null)
    OBVIOUS
  <2>5. p + 2 \in Rows /\ PrevOf(v, p) = Null /\ v.fault = "none"
    BY <1>8
  <2> HIDE DEF v, x, k
  <2> QED
    BY <1>5, <2>1, <2>2, <2>3, <2>4, <2>5, PageAdded
<1>13. p \in Nat /\ x.end \in Nat /\ x.end - p \in Int
  <2>1. PagedIn(h, B, p, x)
    BY <1>9, PagedFacts
  <2> QED
    BY <2>1 DEF PagedIn
<1>10. \E C : /\ Full(g, C) /\ Others(h, B, g, C, {}, {})
              /\ p \in FreeIn(g, C) /\ p + Size(g, p) = g.end /\ Size(g, p) = x.end - p
  <2> HIDE DEF x, k
  <2>1. x.end = h.end + PAGE_SZ /\ k.end = x.end
    BY <1>6, <1>7
  <2>2. i = ListIndex(h.end + PAGE_SZ - p)
    BY <1>8
  <2>4. h.end + PAGE_SZ - p = x.end - p
    BY <1>2, <1>3, <1>13, <2>1
  <2>5. i = ListIndex(x.end - p) /\ k.end - p = x.end - p
    BY <2>1, <2>2, <2>4
  <2>3. i = ListIndex(x.end - p) /\ g = SetTags(Insert(x, i, p), p, 0, 0, x.end - p, 0)
    BY <2>5
  <2> HIDE DEF g
  <2> QED
    BY <1>9, <2>3, PageFull
<1>11. PICK C : /\ Full(g, C) /\ Others(h, B, g, C, {}, {})
                /\ p \in FreeIn(g, C) /\ p + Size(g, p) = g.end /\ Size(g, p) = x.end - p
  BY <1>10
<1> HIDE DEF x, g, k
<1>12. n + PAGE_SZ <= x.end - p
  <2>1. x.end = h.end + PAGE_SZ
    BY <1>6, <1>7
  <2>2. n + PAGE_SZ <= h.end + PAGE_SZ - p
    BY <1>8
  <2> QED
    BY <1>2, <1>3, <1>13, <2>1, <2>2
<1>14. EndsFree(g, C, n + PAGE_SZ)
  BY <1>3, <1>11, <1>12, <1>13 DEF EndsFree
<1> QED
  BY <1>1, <1>11, <1>14

-----------------------------------------------------------------------------
(* sf_malloc: new pages, the search, and the grant *)

\* One change after another.
LEMMA OthersTrans ==
    ASSUME NEW h, NEW B, Full(h, B), NEW k, NEW D, NEW g, NEW C, NEW X, NEW Y, NEW U, NEW V,
           Others(h, B, k, D, X, Y), Others(k, D, g, C, U, V)
    PROVE  Others(h, B, g, C, X \cup (U \ Y), V \cup (Y \ U))
<1>1. ASSUME NEW q \in B, q \notin X, q \notin U \ Y, h.mem[q].allocated = 1
      PROVE  /\ q \in C /\ q \notin V \cup (Y \ U)
             /\ \A r \in q .. Last(h, q) : g.mem[r] = h.mem[r]
  <2>1. q \in D /\ q \notin Y /\ \A r \in q .. Last(h, q) : k.mem[r] = h.mem[r]
    BY <1>1 DEF Others
  <2>2. q \in q .. Last(h, q)
    <3>1. Block(h, q)
      BY FullIn DEF Tiles
    <3> QED
      BY <3>1, BlockIn
  <2>3. k.mem[q] = h.mem[q] /\ Last(k, q) = Last(h, q)
    BY <2>1, <2>2 DEF Last, Size
  <2>4. q \in C \ V /\ \A r \in q .. Last(k, q) : g.mem[r] = k.mem[r]
    BY <1>1, <2>1, <2>3 DEF Others
  <2> QED
    BY <2>1, <2>3, <2>4
<1>2. ASSUME NEW q \in C, g.mem[q].allocated = 1, q \notin V \cup (Y \ U)
      PROVE  q \in B \ (X \cup (U \ Y)) /\ h.mem[q].allocated = 1
  <2>1. q \in D \ U /\ k.mem[q].allocated = 1
    BY <1>2 DEF Others
  <2> QED
    BY <1>2, <2>1 DEF Others
<1> QED
  BY <1>1, <1>2 DEF Others

\* A heap that still runs and is in no disorder.
Orderly(h) == h.fault = "none" /\ h.disordered # TRUE

LEMMA PageOrderly ==
    ASSUME NEW h, Rec(h), Orderly(TryPage(h))
    PROVE  Orderly(h) /\ (CanGrow(h) => ~Disorders(h))
<1>1. CASE ~CanGrow(h)
  BY <1>1 DEF TryPage
<1>2. CASE CanGrow(h)
  <2> DEFINE p == IF LastFree(h) THEN h.end - LastSize(h) ELSE h.end
             i == ListIndex(IF LastFree(h) THEN TagAt(h, p).block_size ELSE PAGE_SZ)
             d == IF LastFree(h) THEN Drop(h, i, p) ELSE h
             k == Longer(h, d)
  <2>1. TryPage(h) = SetTags(Insert(SetPrev(k, p, Null), i, p), p, 0, 0, k.end - p, 0)
    BY <1>2 DEF TryPage, NewPage, Longer
  <2>2. Frame(h, d)
    BY DropFrame DEF Frame
  <2> HIDE DEF d
  <2>3. Rec(k) /\ k.disordered = (h.disordered \/ Disorders(h)) /\ k.fault = d.fault
    BY <2>2, LongerIs DEF Frame
  <2> HIDE DEF k, i, p
  <2>4. Frame(k, TryPage(h))
    BY <2>1, <2>3, LinkFrame, InsertFrame, TagsFrame, FrameTrans DEF Frame
  <2>5. k.fault = "none" /\ k.disordered # TRUE
    BY <2>4 DEF Frame, Orderly
  <2> QED
    BY <2>2, <2>3, <2>5 DEF Frame, Orderly
<1> QED
  BY <1>1, <1>2

\* What the blocks are after n calls of new_page.
Grown(h, B, g, n) ==
    \E C : /\ Full(g, C) /\ Others(h, B, g, C, {}, {})
           /\ n = 0 \/ EndsFree(g, C, n * PAGE_SZ)

LEMMA OthersSame == ASSUME NEW h, NEW B PROVE Others(h, B, h, B, {}, {})
  BY DEF Others

LEMMA GrownByOne ==
    ASSUME NEW h, NEW B, Full(h, B), NEW g, NEW n \in Nat, Grown(h, B, g, n), CanGrow(g),
           Orderly(TryPage(g))
    PROVE  Grown(h, B, TryPage(g), n + 1)
<1>1. PICK D : Full(g, D) /\ Others(h, B, g, D, {}, {}) /\ (n = 0 \/ EndsFree(g, D, n * PAGE_SZ))
  BY DEF Grown
<1>2. PAGE_SZ \in Nat /\ n * PAGE_SZ \in Nat /\ n * PAGE_SZ + PAGE_SZ = (n + 1) * PAGE_SZ
  BY PageAssumption
<1>3. n * PAGE_SZ = 0 \/ EndsFree(g, D, n * PAGE_SZ)
  BY <1>1, <1>2
<1>4. TryPage(g) = NewPage(g) /\ ~Disorders(g) /\ NewPage(g).fault = "none"
  <2>1. Rec(g)
    BY <1>1, FullIn, HeapFields
  <2> QED
    BY <2>1, PageOrderly DEF TryPage, Orderly
<1> DEFINE m == n * PAGE_SZ
<1>5. m \in Nat /\ (m = 0 \/ EndsFree(g, D, m))
  BY <1>2, <1>3
<1> HIDE DEF m
<1>6. \E C : /\ Full(NewPage(g), C) /\ Others(g, D, NewPage(g), C, {}, {})
             /\ EndsFree(NewPage(g), C, m + PAGE_SZ)
  BY <1>1, <1>4, <1>5, NewPageFull
<1>7. PICK C : /\ Full(NewPage(g), C) /\ Others(g, D, NewPage(g), C, {}, {})
               /\ EndsFree(NewPage(g), C, m + PAGE_SZ)
  BY <1>6
<1>8. Others(h, B, NewPage(g), C, {} \cup ({} \ {}), {} \cup ({} \ {}))
  BY <1>1, <1>7, OthersTrans
<1>9. Others(h, B, NewPage(g), C, {}, {})
  BY <1>8
<1>10. EndsFree(NewPage(g), C, (n + 1) * PAGE_SZ)
  BY <1>2, <1>7 DEF m
<1> QED
  BY <1>4, <1>7, <1>9, <1>10 DEF Grown

\* The heap while sf_malloc's loop adds pages: as many as can be had.
Growing(h, B, g, n) ==
    \/ Grown(h, B, g, n)
    \/ ~CanGrow(g) /\ Grown(h, B, g, 0)

LEMMA GrowingByOne ==
    ASSUME NEW h, NEW B, Full(h, B), NEW g, NEW n \in Nat, Growing(h, B, g, n),
           Orderly(TryPage(g))
    PROVE  Growing(h, B, TryPage(g), n + 1)
<1>1. CASE CanGrow(g)
  BY <1>1, GrownByOne DEF Growing
<1>2. CASE ~CanGrow(g)
  <2>1. TryPage(g) = g
    BY <1>2 DEF TryPage
  <2>2. Grown(h, B, g, 0)
    BY DEF Growing, Grown
  <2> QED
    BY <1>2, <2>1, <2>2 DEF Growing
<1> QED
  BY <1>1, <1>2

LEMMA GrowFull ==
    ASSUME NEW h, NEW B, Full(h, B), NEW n \in Nat, Orderly(Grow(h, n))
    PROVE  Growing(h, B, Grow(h, n), n)
<1>1. PICK g : Grows(g, h, n) /\ Grow(h, n) = g[n]
  BY GrowIs
<1>2. Rec(h) /\ h.fault = "none"
  BY FullIn, HeapFields
<1>3. g[0] = h /\ \A k \in 0 .. n : k # 0 => g[k] = TryPage(g[k - 1])
  BY <1>1 DEF Grows
<1>4. \A k \in 0 .. n : Rec(g[k])
  <2> DEFINE Bad == {k \in 0 .. n : ~Rec(g[k])}
  <2> SUFFICES ASSUME Bad # {} PROVE FALSE
    OBVIOUS
  <2>1. Bad \in SUBSET Nat
    OBVIOUS
  <2>2. PICK k \in Bad : \A j \in Bad : k <= j
    <3> HIDE DEF Bad
    <3> QED
      BY <2>1, LeastNatural
  <2>3. k # 0 /\ k \in 0 .. n /\ ~Rec(g[k])
    BY <1>2, <1>3, <2>2
  <2>4. k - 1 \in 0 .. n /\ k - 1 \notin Bad
    BY <2>2, <2>3
  <2>5. Rec(g[k - 1])
    BY <2>4
  <2>6. g[k] = TryPage(g[k - 1])
    BY <1>3, <2>3
  <2> QED
    BY <2>3, <2>5, <2>6, PageGrowth DEF Growth
<1>5. \A k \in 0 .. n : k # 0 /\ Orderly(g[k]) => Orderly(g[k - 1])
  <2> TAKE k \in 0 .. n
  <2> HAVE k # 0 /\ Orderly(g[k])
  <2>1. k - 1 \in 0 .. n /\ g[k] = TryPage(g[k - 1])
    BY <1>3
  <2> QED
    BY <1>4, <2>1, PageOrderly
<1> DEFINE Bad == {k \in 0 .. n : ~(Orderly(g[k]) => Growing(h, B, g[k], k))}
<1> SUFFICES ASSUME Bad # {} PROVE FALSE
  BY <1>1
<1>6. PICK k \in Bad : \A j \in Bad : k <= j
  <2>1. Bad \in SUBSET Nat
    OBVIOUS
  <2> HIDE DEF Bad
  <2> QED
    BY <2>1, LeastNatural
<1>7. k \in 0 .. n /\ Orderly(g[k]) /\ ~Growing(h, B, g[k], k)
  BY <1>6
<1>8. CASE k = 0
  <2>1. Grown(h, B, h, 0)
    BY OthersSame DEF Grown
  <2> QED
    BY <1>3, <1>7, <1>8, <2>1 DEF Growing
<1>9. CASE k # 0
  <2>1. k - 1 \in 0 .. n /\ k - 1 \notin Bad
    BY <1>6, <1>7, <1>9
  <2>2. Orderly(g[k - 1])
    BY <1>5, <1>7, <1>9
  <2>3. Growing(h, B, g[k - 1], k - 1)
    BY <2>1, <2>2
  <2>4. g[k] = TryPage(g[k - 1])
    BY <1>3, <1>7, <1>9
  <2>5. k - 1 \in Nat /\ (k - 1) + 1 = k
    BY <1>7, <1>9
  <2>6. Growing(h, B, g[k], (k - 1) + 1)
    BY <1>7, <2>3, <2>4, <2>5, GrowingByOne
  <2> QED
    BY <1>7, <2>5, <2>6
<1> QED
  BY <1>8, <1>9

\* What sf_malloc answers with, and the heap it leaves.
Served(h, B, a, size) ==
    \/ a.block = Null /\ \E C : Full(a.heap, C) /\ Others(h, B, a.heap, C, {}, {})
    \/ /\ size > 0 /\ a.block # Null
       /\ \E C : /\ Full(a.heap, C) /\ Others(h, B, a.heap, C, {}, {a.block})
                 /\ Granted(a.heap, C, a.block, Adjusted(size), size)

LEMMA LinkedReads ==
    ASSUME NEW h, NEW F, NEW c, Linked(h, F, c)
    PROVE  /\ \A q \in F : NextOf(h, q) \in F \cup {Null, Wild} /\ PrevOf(h, q) \in F \cup {Null}
           /\ \A i \in Lists : h.head[i] \in F \cup {Null}
  BY DEF Linked, Neighbours, Headed

\* find_fit comes to a free block that is large enough, if it comes to one.
LEMMA FoundFit ==
    ASSUME NEW h, NEW B, Full(h, B), NEW asize \in Nat
    PROVE  \/ FindFit(h, asize) \in {Null, Wild, Loop}
           \/ FindFit(h, asize) \in FreeIn(h, B) /\ Size(h, FindFit(h, asize)) >= asize
<1> DEFINE F == FreeIn(h, B)
           fits == {p \in Rows : TagAt(h, p).block_size >= asize}
           found == [i \in ListIndex(asize) .. 4 |-> Seek(h, h.head[i], fits)]
           hits == {i \in DOMAIN found : found[i] # Null}
           least == CHOOSE i \in hits : \A j \in hits : i <= j
<1>1. FindFit(h, asize) = IF hits = {} THEN Null ELSE found[least]
  BY DEF FindFit
<1>2. Linked(h, F, Classes(h)) /\ Tagged(h, F) /\ F \subseteq B
      /\ \A p \in B : p \in Rows /\ TagAt(h, p) = h.mem[p]
  BY FullIn
<1>3. ASSUME NEW i \in Lists
      PROVE  Seek(h, h.head[i], fits) \in (F \cap fits) \cup {Null, Wild, Loop}
  <2> HIDE DEF fits, F
  <2>1. /\ \A q \in F : q \in Rows /\ IsTag(h.mem[q])
        /\ \A q \in F : NextOf(h, q) \in F \cup {Null, Wild}
        /\ h.head[i] \in F \cup {Null}
    BY <1>2, LinkedReads DEF Tagged
  <2> QED
    BY <2>1, SoughtIn
<1>4. hits \subseteq Lists /\ hits \subseteq Nat /\ \A i \in hits : found[i] = Seek(h, h.head[i], fits)
  <2>1. ListIndex(asize) .. 4 \subseteq Lists
    BY ClassIn DEF Lists
  <2> HIDE DEF fits
  <2> QED
    BY <2>1 DEF Lists
<1>5. ASSUME hits # {} PROVE least \in hits
  <2> HIDE DEF hits
  <2>1. \E i \in hits : \A j \in hits : i <= j
    BY <1>4, <1>5, LeastNatural
  <2> QED
    BY <2>1
<1>6. \A p \in F \cap fits : Size(h, p) >= asize
  BY <1>2 DEF Size
<1> HIDE DEF found, hits, least, fits, F
<1>7. CASE hits = {}
  BY <1>1, <1>7
<1>8. CASE hits # {}
  <2>1. FindFit(h, asize) \in (F \cap fits) \cup {Null, Wild, Loop}
    BY <1>1, <1>3, <1>4, <1>5, <1>8
  <2> QED
    BY <1>6, <2>1 DEF F
<1> QED
  BY <1>7, <1>8

\* Placing a request in a free block, after others were added to the heap.
LEMMA PlaceServed ==
    ASSUME NEW h, NEW B, Full(h, B), NEW k, NEW D, Full(k, D), Others(h, B, k, D, {}, {}),
           NEW p \in FreeIn(k, D), NEW size \in Nat, size > 0, Adjusted(size) <= Size(k, p),
           NEW e, Place(k, p, Adjusted(size), size).fault = "none"
    PROVE  Served(h, B, Answer(Place(k, p, Adjusted(size), size), p, e), size)
<1> DEFINE a == Adjusted(size)
           g == Place(k, p, a, size)
<1>1. a \in Nat /\ a >= MINSIZE /\ a % ALIGNMENT = 0
  BY AdjustedIn
<1>2. a <= Size(k, p) /\ g.fault = "none"
  OBVIOUS
<1> HIDE DEF a
<1>3. \E C : Full(g, C) /\ Others(k, D, g, C, {p}, {p}) /\ Granted(g, C, p, a, size)
  BY <1>1, <1>2, PlaceFull
<1> HIDE DEF g
<1>4. PICK C : Full(g, C) /\ Others(k, D, g, C, {p}, {p}) /\ Granted(g, C, p, a, size)
  BY <1>3
<1>5. Others(k, D, g, C, {}, {p})
  <2>1. {} \subseteq {p} /\ \A q \in {p} : q \in D /\ k.mem[q].allocated = 1 => q \in {}
    BY DEF FreeIn
  <2> QED
    BY <1>4, <2>1, OthersFewer
<1>6. Others(h, B, g, C, {} \cup ({} \ {}), {p} \cup ({} \ {}))
  BY <1>5, OthersTrans
<1>7. Others(h, B, g, C, {}, {p})
  <2>1. {} \cup ({} \ {}) = {} /\ {p} \cup ({} \ {}) = {p}
    OBVIOUS
  <2> QED
    BY <1>6, <2>1
<1>8. p # Null
  BY FullIn, RowsIn DEF FreeIn
<1> DEFINE x == Answer(g, p, e)
<1>9. x.block = p /\ x.heap = g
  BY DEF Answer
<1> HIDE DEF x
<1>10. Served(h, B, x, size)
  BY <1>4, <1>7, <1>8, <1>9 DEF Served, a
<1> QED
  BY <1>10 DEF x, g, a

LEMMA EndsOnce ==
    ASSUME NEW h, NEW B, Full(h, B), NEW p \in B, NEW q \in B,
           p + Size(h, p) = h.end, q + Size(h, q) = h.end
    PROVE  p = q
<1>1. h.end \in Nat /\ Tiles(h, B, 0, h.end)
  BY FullIn
<1>2. p \in Nat /\ q \in Nat /\ Size(h, p) \in Nat /\ Size(h, q) \in Nat
      /\ Size(h, p) >= 4 /\ Size(h, q) >= 4
  BY <1>1, BlockIn DEF Tiles
<1>3. p = q \/ p + Size(h, p) <= q \/ q + Size(h, q) <= p
  BY <1>1, Apart
<1> QED
  BY <1>1, <1>2, <1>3

\* The last block is large enough when the loop has added its pages.
LEMMA ExtendFull ==
    ASSUME NEW h, NEW B, Full(h, B), NEW n \in Nat, NEW k, Growing(h, B, k, n),
           NEW size \in Nat, size > 0, Adjusted(size) < n * PAGE_SZ + PAGE_SZ,
           Orderly(Extend(k, Adjusted(size), size).heap)
    PROVE  Served(h, B, Extend(k, Adjusted(size), size), size)
<1> DEFINE a == Adjusted(size)
           g == TryPage(k)
           last == g.end - LastSize(g)
<1>1. a \in Nat /\ PAGE_SZ \in Nat /\ n * PAGE_SZ \in Nat /\ n * PAGE_SZ + PAGE_SZ = (n + 1) * PAGE_SZ
      /\ PAGE_SZ >= 4
  BY AdjustedIn, PageAssumption DEF MINSIZE
<1>2. Rec(k)
  <2>1. \E C : Full(k, C)
    BY DEF Growing, Grown
  <2> QED
    BY <2>1, FullIn, HeapFields
<1>3. CASE CanGrow(k)
  <2>1. Extend(k, a, size) = Answer(Place(g, last, a, size), last, "none")
    BY <1>3 DEF Extend
  <2>2. Rec(g)
    BY <1>2, PageGrowth DEF Growth
  <2> HIDE DEF a, g, last
  <2>3. Orderly(Place(g, last, a, size))
    <3>1. Extend(k, a, size).heap = Place(g, last, a, size)
      BY <2>1 DEF Answer
    <3> QED
      BY <3>1 DEF a
  <2>4. Orderly(g)
    <3>1. Frame(g, Place(g, last, a, size))
      BY <2>2, PlaceFrame
    <3> QED
      BY <2>3, <3>1 DEF Frame, Orderly
  <2>5. Grown(h, B, g, n + 1)
    BY <1>3, <2>4, GrownByOne DEF Growing, g
  <2>6. PICK D : Full(g, D) /\ Others(h, B, g, D, {}, {}) /\ EndsFree(g, D, (n + 1) * PAGE_SZ)
    BY <2>5 DEF Grown
  <2>7. PICK q \in FreeIn(g, D) : q + Size(g, q) = g.end /\ Size(g, q) >= (n + 1) * PAGE_SZ
    BY <2>6 DEF EndsFree
  <2>8. q \in D /\ q \in Nat /\ Size(g, q) \in Nat /\ Size(g, q) >= 4 /\ g.end \in Nat
    BY <2>6, FullIn, BlockIn DEF FreeIn, Tiles
  <2>9. g.end > 0
    BY <2>7, <2>8
  <2>10. PICK y \in D : y + Size(g, y) = g.end /\ g.end - LastSize(g) = y
    BY <2>6, <2>9, LastBlock
  <2>11. y = q
    BY <2>6, <2>7, <2>8, <2>10, EndsOnce
  <2>12. last = q /\ last \in FreeIn(g, D)
    BY <2>10, <2>11 DEF last
  <2>13. a <= Size(g, last)
    BY <1>1, <2>7, <2>8, <2>12 DEF a
  <2>14. Place(g, last, a, size).fault = "none"
    BY <2>3 DEF Orderly
  <2>15. Served(h, B, Answer(Place(g, last, a, size), last, "none"), size)
    BY <2>6, <2>12, <2>13, <2>14, PlaceServed DEF a
  <2> QED
    BY <2>1, <2>15 DEF a
<1>4. CASE ~CanGrow(k)
  <2>1. Extend(k, a, size) = Answer(k, Null, "ENOMEM")
    BY <1>4 DEF Extend, TryPage
  <2>2. \E C : Full(k, C) /\ Others(h, B, k, C, {}, {})
    BY DEF Growing, Grown
  <2> DEFINE x == Answer(k, Null, "ENOMEM")
  <2>3. x.block = Null /\ x.heap = k
    BY DEF Answer
  <2> HIDE DEF x
  <2>4. Served(h, B, x, size)
    BY <2>2, <2>3 DEF Served
  <2> QED
    BY <2>1, <2>4 DEF x
<1> QED
  BY <1>3, <1>4

LEMMA StopFault ==
    ASSUME NEW h, Rec(h), NEW f PROVE Stop(h, f).heap.fault = f /\ Stop(h, f).block = Null
<1> DEFINE g == [h EXCEPT !.fault = f]
<1>1. g.fault = f
  BY DEF Rec
<1> HIDE DEF g
<1>2. Stop(h, f) = Answer(g, Null, "none")
  BY DEF Stop, g
<1> QED
  BY <1>1, <1>2 DEF Answer

LEMMA ServedSame ==
    ASSUME NEW h, NEW B, Full(h, B), NEW e, NEW size PROVE Served(h, B, Answer(h, Null, e), size)
<1> DEFINE x == Answer(h, Null, e)
<1>1. x.block = Null /\ x.heap = h
  BY DEF Answer
<1> HIDE DEF x
<1>2. Served(h, B, x, size)
  BY <1>1, OthersSame DEF Served
<1> QED
  BY <1>2 DEF x

\* sf_malloc
LEMMA MallocFull ==
    ASSUME NEW h, NEW B, Full(h, B), NEW size \in Nat, Orderly(Malloc(h, size).heap)
    PROVE  Served(h, B, Malloc(h, size), size)
<1> DEFINE a == Adjusted(size)
           n == a \div PAGE_SZ
           fit == FindFit(h, a)
<1>1. Rec(h)
  BY FullIn, HeapFields
<1>2. a \in Nat /\ n \in Nat /\ a < n * PAGE_SZ + PAGE_SZ
  BY AdjustedIn, PagesBefore
<1>3. CASE ~(size \in 1 .. 4 * PAGE_SZ)
  <2>1. Malloc(h, size) = Answer(h, Null, "EINVAL")
    BY <1>3 DEF Malloc
  <2> QED
    BY <2>1, ServedSame
<1>4. CASE size \in 1 .. 4 * PAGE_SZ
  <2>1. Malloc(h, size) = Satisfy(h, a, size, fit) /\ size > 0
    BY <1>4, PageAssumption DEF Malloc
  <2>2. fit \in {Null, Wild, Loop} \/ (fit \in FreeIn(h, B) /\ Size(h, fit) >= a)
    BY <1>2, FoundFit
  <2> HIDE DEF a, n, fit
  <2>3. Null # Wild /\ Null # Loop /\ Wild # Loop
    BY RowsIn
  <2>4. CASE fit = Wild
    <3>1. Malloc(h, size) = Stop(h, "wild")
      BY <2>1, <2>3, <2>4 DEF Satisfy
    <3> QED
      BY <1>1, <3>1, StopFault DEF Orderly
  <2>5. CASE fit = Loop
    <3>1. Malloc(h, size) = Stop(h, "loop")
      BY <2>1, <2>3, <2>5 DEF Satisfy
    <3> QED
      BY <1>1, <3>1, StopFault DEF Orderly
  <2>6. CASE fit = Null
    <3>1. Malloc(h, size) = Extend(Grow(h, n), a, size)
      BY <2>1, <2>3, <2>6 DEF Satisfy, n
    <3> DEFINE k == Grow(h, n)
    <3>2. Orderly(Extend(k, a, size).heap)
      BY <3>1
    <3>3. Orderly(k)
      <4>1. Rec(k)
        BY <1>1, <1>2, GrowGrowth DEF Growth
      <4> HIDE DEF k
      <4>2. Rec(TryPage(k))
        BY <4>1, PageGrowth DEF Growth
      <4>3. Orderly(TryPage(k))
        <5>1. CASE CanGrow(k)
          <6> DEFINE last == TryPage(k).end - LastSize(TryPage(k))
          <6>1. Extend(k, a, size) = Answer(Place(TryPage(k), last, a, size), last, "none")
            BY <5>1 DEF Extend
          <6> HIDE DEF last
          <6>2. Extend(k, a, size).heap = Place(TryPage(k), last, a, size)
            BY <6>1 DEF Answer
          <6>3. Frame(TryPage(k), Place(TryPage(k), last, a, size))
            BY <4>2, PlaceFrame
          <6> QED
            BY <3>2, <6>2, <6>3 DEF Frame, Orderly
        <5>2. CASE ~CanGrow(k)
          <6>1. Extend(k, a, size).heap = TryPage(k)
            BY <5>2 DEF Extend, Answer
          <6> QED
            BY <3>2, <6>1
        <5> QED
          BY <5>1, <5>2
      <4> QED
        BY <4>1, <4>3, PageOrderly
    <3>4. Growing(h, B, k, n)
      BY <1>2, <3>3, GrowFull
    <3> HIDE DEF k
    <3>5. Served(h, B, Extend(k, a, size), size)
      BY <1>2, <2>1, <3>2, <3>4, ExtendFull DEF a
    <3> QED
      BY <3>1, <3>5 DEF k
  <2>7. CASE fit \notin {Null, Wild, Loop}
    <3>1. Malloc(h, size) = Answer(Place(h, fit, a, size), fit, "none")
      BY <2>1, <2>7 DEF Satisfy
    <3>2. fit \in FreeIn(h, B) /\ Size(h, fit) >= a
      BY <2>2, <2>7
    <3>3. Place(h, fit, a, size).fault = "none"
      <4>1. Malloc(h, size).heap = Place(h, fit, a, size)
        BY <3>1 DEF Answer
      <4> QED
        BY <4>1 DEF Orderly
    <3>4. a <= Size(h, fit)
      <4>1. Size(h, fit) \in Nat
        BY <3>2, FullIn, BlockIn DEF FreeIn, Tiles
      <4> QED
        BY <1>2, <3>2, <4>1
    <3>5. Served(h, B, Answer(Place(h, fit, a, size), fit, "none"), size)
      BY <2>1, <3>2, <3>3, <3>4, OthersSame, PlaceServed DEF a
    <3> QED
      BY <3>1, <3>5
  <2> QED
    BY <2>4, <2>5, <2>6, <2>7
<1> QED
  BY <1>3, <1>4

-----------------------------------------------------------------------------
(* The program's data, and sf_realloc *)

\* The first n rows of the payload of p hold data d, and no other row differs.
Filled(h, g, p, n, d) ==
    /\ Keeps(h, g) /\ g.head = h.head /\ g.fault = h.fault
    /\ \A r \in Rows : IF p < r /\ r <= p + n THEN g.mem[r] = d ELSE g.mem[r] = h.mem[r]

FilledKeeps(h, B, g, p, n, d) ==
    /\ Full(g, B) /\ Others(h, B, g, B, {p}, {p})
    /\ \A a, size : Granted(h, B, p, a, size) => Granted(g, B, p, a, size)
    /\ \A r \in Nat : p < r /\ r <= p + n => g.mem[r] = d

LEMMA FilledFull ==
    ASSUME NEW h, NEW B, Full(h, B), NEW p \in B, h.mem[p].allocated = 1,
           NEW n \in Nat, n + 2 <= Size(h, p), NEW d \in DataWords, NEW g, Filled(h, g, p, n, d)
    PROVE  FilledKeeps(h, B, g, p, n, d)
<1> DEFINE F == FreeIn(h, B)
           c == Classes(h)
<1>1. /\ h \in Heaps /\ h.end \in Nat /\ h.end \in PageEnds /\ Tiles(h, B, 0, h.end)
      /\ F \subseteq B /\ Linked(h, F, c) /\ h.fault = "none" /\ p \notin F
      /\ \A q \in B : q \in Rows /\ c[q] = ListIndex(Size(h, q))
  <2>1. p \notin F
    BY DEF FreeIn
  <2> QED
    BY <2>1, FullIn
<1>2. /\ p \in Nat /\ Size(h, p) \in Nat /\ p + Size(h, p) <= h.end
      /\ \A r \in p .. p + Size(h, p) - 1 : r \in Rows \ LinkRows(F)
  BY <1>1, BlockIn, TilesInside, UnlistedRows DEF Tiles
<1>3. g \in Heaps /\ g.end = h.end /\ g.head = h.head /\ g.fault = "none"
  BY <1>1 DEF Filled, Keeps
<1>4. \A q \in B : /\ q \in Nat /\ Size(h, q) \in Nat /\ Size(h, q) >= 4
                   /\ Last(h, q) = q + Size(h, q) - 1 /\ Last(h, q) \in Rows
                   /\ q = p \/ q + Size(h, q) <= p \/ p + Size(h, p) <= q
  BY <1>1, BlockIn, Apart DEF Tiles, Block
<1>5. \A r \in Rows : r <= p \/ r > p + n => g.mem[r] = h.mem[r]
  <2> TAKE r \in Rows
  <2> HAVE r <= p \/ r > p + n
  <2>1. r \in Nat
    BY RowsIn
  <2>2. ~(p < r /\ r <= p + n)
    BY <1>2, <2>1
  <2> QED
    BY <2>2 DEF Filled
<1>6. \A r \in Nat : p < r /\ r <= p + n => r \in Rows \ LinkRows(F) /\ g.mem[r] = d
  <2> TAKE r \in Nat
  <2> HAVE p < r /\ r <= p + n
  <2>1. r \in p .. p + Size(h, p) - 1
    BY <1>2
  <2>2. r \in Rows \ LinkRows(F)
    BY <1>2, <2>1
  <2> QED
    BY <2>2 DEF Filled
<1>7. \A q \in B : g.mem[q] = h.mem[q] /\ g.mem[Last(h, q)] = h.mem[Last(h, q)]
                   /\ (q # p => \A r \in q .. Last(h, q) : g.mem[r] = h.mem[r])
  <2> TAKE q \in B
  <2>1. q \in Rows /\ (q <= p \/ q > p + n)
    BY <1>1, <1>2, <1>4
  <2>2. Last(h, q) \in Rows /\ (Last(h, q) <= p \/ Last(h, q) > p + n)
    BY <1>2, <1>4
  <2>3. ASSUME q # p, NEW r \in q .. Last(h, q) PROVE g.mem[r] = h.mem[r]
    <3>1. r \in Nat /\ r <= Last(h, q)
      BY <1>4
    <3>2. r \in Rows
      BY <1>4, <3>1, RowsIn
    <3>3. r <= p \/ r > p + n
      BY <1>2, <1>4, <2>3, <3>1
    <3> QED
      BY <1>5, <3>2, <3>3
  <2> QED
    BY <1>5, <2>1, <2>2, <2>3
<1>8. Tiles(g, B, 0, h.end)
  BY <1>1, <1>7, TilesKept
<1>9. \A q \in B : Size(g, q) = Size(h, q) /\ Last(g, q) = Last(h, q)
  BY <1>7 DEF Size, Last
<1>10. FreeIn(g, B) = F
  BY <1>7 DEF FreeIn
<1>11. Linked(g, F, c)
  <2>1. \A r \in LinkRows(F) : g.mem[r] = h.mem[r]
    <3> TAKE r \in LinkRows(F)
    <3>1. r \in Rows
      <4>1. Spread(F)
        BY <1>1 DEF Linked
      <4> QED
        BY <4>1 DEF LinkRows, Spread
    <3>2. r \in Nat
      BY <3>1, RowsIn
    <3>3. r <= p \/ r > p + n
      BY <1>2, <1>6, <3>2
    <3> QED
      BY <1>5, <3>1, <3>3
  <2>2. \A r \in Rows \ LinkRows(F) : g.mem[r] = h.mem[r] \/ LinkAt(g, r) \in {Null, Wild}
    <3> TAKE r \in Rows \ LinkRows(F)
    <3>1. g.mem[r] = h.mem[r] \/ g.mem[r] = d
      BY DEF Filled
    <3> QED
      BY <1>3, <3>1, LinkReads
  <2> HIDE DEF F, c
  <2> QED
    BY <1>1, <1>3, <2>1, <2>2, LinkedKept
<1>12. Linked(g, F, Classes(g))
  <2>1. \A q \in F : Classes(g)[q] = c[q]
    BY <1>1, <1>9 DEF Classes
  <2> HIDE DEF F, c
  <2> QED
    BY <1>11, <2>1, LinkedClasses
<1>13. \A r \in Rows : r >= g.end => g.mem[r] = Zero
  <2> TAKE r \in Rows
  <2> HAVE r >= g.end
  <2>1. r \in Nat /\ h.mem[r] = Zero
    BY <1>3, RowsIn DEF Full
  <2>2. r > p + n
    BY <1>1, <1>2, <1>3, <2>1
  <2> QED
    BY <1>5, <2>1, <2>2
<1>14. Full(g, B)
  BY <1>1, <1>3, <1>8, <1>10, <1>12, <1>13 DEF Full
<1>15. Others(h, B, g, B, {p}, {p})
  BY <1>7 DEF Others
<1>16. ASSUME NEW a, NEW size, Granted(h, B, p, a, size) PROVE Granted(g, B, p, a, size)
  BY <1>7, <1>9, <1>16 DEF Granted
<1> QED
  BY <1>6, <1>14, <1>15, <1>16 DEF FilledKeeps

LEMMA DataIn == \A g \in Grants : Data(g) \in DataWords
  BY DEF Data, DataWords

LEMMA MemHeaps ==
    ASSUME NEW h \in Heaps, NEW m \in [Rows -> Words]
    PROVE  LET g == [h EXCEPT !.mem = m]
           IN  Keeps(h, g) /\ g.mem = m /\ g.head = h.head /\ g.fault = h.fault
  BY DEF Keeps, Heaps

\* The program's writes, to a payload of which the first rows hold its data.
LEMMA WriteFills ==
    ASSUME NEW h \in Heaps, NEW g \in Grants, NEW p \in Nat, NEW kept \in Nat, NEW size \in Nat,
           \A r \in Nat : p < r /\ r <= p + size /\ r <= p + kept => h.mem[r] = Data(g)
    PROVE  Filled(h, Write(h, g, p, kept + 1, size), p, size, Data(g))
<1> DEFINE m == [r \in Rows |-> IF r \in p + (kept + 1) .. p + size THEN Data(g) ELSE h.mem[r]]
           k == Write(h, g, p, kept + 1, size)
<1>1. Data(g) \in Words
  BY DataIn DEF Words
<1>2. m \in [Rows -> Words]
  BY <1>1, HeapFields
<1>3. k = [h EXCEPT !.mem = m]
  BY DEF Write
<1>4. \A r \in Rows : m[r] = IF r \in p + (kept + 1) .. p + size THEN Data(g) ELSE h.mem[r]
  OBVIOUS
<1> HIDE DEF m, k
<1>5. Keeps(h, k) /\ k.mem = m /\ k.head = h.head /\ k.fault = h.fault
  BY <1>2, <1>3, MemHeaps
<1>6. ASSUME NEW r \in Rows
      PROVE  IF p < r /\ r <= p + size THEN k.mem[r] = Data(g) ELSE k.mem[r] = h.mem[r]
  <2>1. r \in Nat
    BY RowsIn
  <2>2. CASE r \in p + (kept + 1) .. p + size
    <3>1. k.mem[r] = Data(g)
      BY <1>4, <1>5, <2>2
    <3>2. p < r /\ r <= p + size
      BY <2>1, <2>2
    <3> QED
      BY <3>1, <3>2
  <2>3. CASE r \notin p + (kept + 1) .. p + size
    <3>1. k.mem[r] = h.mem[r]
      BY <1>4, <1>5, <2>3
    <3>2. p < r /\ r <= p + size => r <= p + kept
      BY <2>1, <2>3
    <3> QED
      BY <2>1, <3>1, <3>2
  <2> QED
    BY <2>2, <2>3
<1> QED
  BY <1>5, <1>6 DEF Filled, k

\* memcpy of rows that hold the same data.
LEMMA MoveFills ==
    ASSUME NEW h \in Heaps, NEW p \in Nat, NEW from \in Nat, NEW n \in Nat, NEW d \in DataWords,
           p + n \in Rows, from + n \in Rows,
           \A r \in Nat : from < r /\ r <= from + n => h.mem[r] = d
    PROVE  Filled(h, Move(h, p, from, n), p, n, d)
<1> DEFINE m == [r \in Rows |-> IF r \in p + 1 .. p + n THEN h.mem[r - p + from] ELSE h.mem[r]]
           k == Move(h, p, from, n)
<1>1. \A r \in Rows : m[r] = IF r \in p + 1 .. p + n THEN h.mem[r - p + from] ELSE h.mem[r]
  OBVIOUS
<1>2. ASSUME NEW r \in Rows
      PROVE  IF p < r /\ r <= p + n THEN m[r] = d ELSE m[r] = h.mem[r]
  <2>1. r \in Nat
    BY RowsIn
  <2>2. CASE p < r /\ r <= p + n
    <3>1. r \in p + 1 .. p + n
      BY <2>1, <2>2
    <3>2. r - p + from \in Nat /\ from < r - p + from /\ r - p + from <= from + n
      BY <2>1, <2>2
    <3> HIDE DEF m
    <3> QED
      BY <1>1, <2>2, <3>1, <3>2
  <2>3. CASE ~(p < r /\ r <= p + n)
    <3>1. r \notin p + 1 .. p + n
      BY <2>1, <2>3
    <3> HIDE DEF m
    <3> QED
      BY <1>1, <2>3, <3>1
  <2> QED
    BY <2>2, <2>3
<1>3. m \in [Rows -> Words]
  <2>1. d \in Words /\ h.mem \in [Rows -> Words]
    BY HeapFields DEF Words
  <2>2. \A r \in Rows : m[r] \in Words
    <3> HIDE DEF m
    <3> QED
      BY <1>2, <2>1
  <2> QED
    BY <2>2
<1>4. k = [h EXCEPT !.mem = m]
  BY DEF Move
<1> HIDE DEF m, k
<1>5. Keeps(h, k) /\ k.mem = m /\ k.head = h.head /\ k.fault = h.fault
  BY <1>3, <1>4, MemHeaps
<1> QED
  BY <1>2, <1>5 DEF Filled, k

\* What a call to which the blocks X of the heap are given leaves and answers; of
\* the data d in it the block keeps as many rows as it has room for.
Outcome(h, B, a, X, size, old, d) ==
    \/ /\ a.block = Null
       /\ \E C : Full(a.heap, C) /\ Others(h, B, a.heap, C, IF size = 0 THEN X ELSE {}, {})
    \/ /\ size > 0 /\ a.block # Null
       /\ \E C : /\ Full(a.heap, C) /\ Others(h, B, a.heap, C, X, {a.block})
                 /\ Granted(a.heap, C, a.block, Adjusted(size), size)
                 /\ \A r \in Nat : a.block < r /\ r <= a.block + size /\ r <= a.block + old =>
                        a.heap.mem[r] = d

LEMMA GrantedIn ==
    ASSUME NEW h, NEW B, Full(h, B), NEW p, NEW a, NEW size, Granted(h, B, p, a, size)
    PROVE  /\ p \in B /\ p \in Rows /\ p \in Nat /\ h.mem[p].allocated = 1 /\ Size(h, p) \in Nat
           /\ a <= Size(h, p) /\ p + Size(h, p) <= h.end
           /\ TagAt(h, p) = h.mem[p] /\ Footer(h, p) = Last(h, p) /\ Last(h, p) = p + Size(h, p) - 1
           /\ Last(h, p) \in Rows
           /\ TagAt(h, Last(h, p)) = h.mem[Last(h, p)] /\ Requested(h, p) = size
           /\ Rejected(h, p) => Size(h, p) # a
<1>1. p \in B /\ h.mem[p].allocated = 1 /\ a <= Size(h, p)
  BY DEF Granted
<1>2. /\ h \in Heaps /\ Tiles(h, B, 0, h.end) /\ TagAt(h, p) = h.mem[p] /\ p \in Rows /\ h.end \in Nat
  BY <1>1, FullIn
<1>3. Block(h, p) /\ p + Size(h, p) <= h.end
  BY <1>1, <1>2, TilesInside
<1>4. p \in Nat /\ Size(h, p) \in Nat /\ Last(h, p) = p + Size(h, p) - 1
  BY <1>3, BlockIn
<1>5. Footer(h, p) = Last(h, p)
  BY <1>2 DEF Footer, Last, Size
<1>6. Last(h, p) \in Rows /\ TagAt(h, Last(h, p)) = h.mem[Last(h, p)]
  <2>1. Last(h, p) \in Rows /\ h.mem[Last(h, p)] \in TagWords
    BY <1>3 DEF Block
  <2> QED
    BY <1>2, <2>1, TagReads
<1>7. Requested(h, p) = size
  BY <1>5, <1>6 DEF Requested, Granted
<1>8. ASSUME Rejected(h, p), Size(h, p) = a PROVE FALSE
  <2> DEFINE hdr == h.mem[p]
             ftr == h.mem[Last(h, p)]
  <2>1. /\ ftr.allocated = hdr.allocated /\ ftr.padded = hdr.padded /\ ftr.block_size = Size(h, p)
        /\ ftr.requested_size = size /\ hdr.padded = Padded(size, a)
    BY <1>3, <1>8 DEF Block, Granted
  <2>2. TagAt(h, p) = hdr /\ TagAt(h, p + TagAt(h, p).block_size - 1) = ftr
    BY <1>2, <1>5, <1>6 DEF Footer
  <2>3. p \in 0 .. h.end
    BY <1>2, <1>3, <1>4
  <2>4. hdr.block_size = Size(h, p) /\ hdr.allocated = 1
    BY <1>1 DEF Size
  <2> HIDE DEF hdr, ftr
  <2> QED
    BY <1>8, <2>1, <2>2, <2>3, <2>4 DEF Rejected
<1> QED
  BY <1>1, <1>2, <1>3, <1>4, <1>5, <1>6, <1>7, <1>8

LEMMA GrantedKept ==
    ASSUME NEW h, NEW B, Full(h, B), NEW g, NEW C, NEW X, NEW Y, Others(h, B, g, C, X, Y),
           NEW p, p \notin X, NEW a, NEW size, Granted(h, B, p, a, size)
    PROVE  /\ p \notin Y /\ Granted(g, C, p, a, size) /\ Size(g, p) = Size(h, p)
           /\ \A r \in Nat : p <= r /\ r <= Last(h, p) => g.mem[r] = h.mem[r]
<1>1. /\ p \in B /\ p \in Nat /\ Size(h, p) \in Nat /\ Last(h, p) = p + Size(h, p) - 1
      /\ h.mem[p].allocated = 1
  BY GrantedIn
<1>2. Size(h, p) >= 4
  BY <1>1, FullIn, BlockIn DEF Tiles
<1>3. p \in C \ Y /\ \A r \in p .. Last(h, p) : g.mem[r] = h.mem[r]
  BY <1>1 DEF Others
<1>4. p \in p .. Last(h, p) /\ Last(h, p) \in p .. Last(h, p)
  BY <1>1, <1>2
<1>5. g.mem[p] = h.mem[p] /\ Size(g, p) = Size(h, p) /\ Last(g, p) = Last(h, p)
      /\ g.mem[Last(h, p)] = h.mem[Last(h, p)]
  BY <1>3, <1>4 DEF Size, Last
<1>6. Granted(g, C, p, a, size)
  BY <1>3, <1>5 DEF Granted
<1>7. \A r \in Nat : p <= r /\ r <= Last(h, p) => r \in p .. Last(h, p)
  BY <1>1
<1> QED
  BY <1>3, <1>5, <1>6, <1>7

LEMMA AdjustedMonotone ==
    ASSUME NEW m \in Nat, NEW n \in Nat, m <= n PROVE Adjusted(m) <= Adjusted(n)
<1>1. PICK k \in Int : k = (m + 3) \div 2
  OBVIOUS
<1>2. PICK l \in Int : l = (n + 3) \div 2
  OBVIOUS
<1>3. (m + 3 = 2 * k \/ m + 3 = 2 * k + 1) /\ (n + 3 = 2 * l \/ n + 3 = 2 * l + 1)
  BY <1>1, <1>2
<1>4. Adjusted(m) = (IF m < 2 THEN 4 ELSE 2 * k) /\ Adjusted(n) = (IF n < 2 THEN 4 ELSE 2 * l)
  BY <1>1, <1>2 DEF Adjusted, ALIGNMENT, MINSIZE
<1> QED
  BY <1>3, <1>4

\* A block with its data.
Holding(h, B, p, size, d) ==
    /\ Granted(h, B, p, Adjusted(size), size) /\ size \in Nat /\ d \in DataWords
    /\ \A r \in Nat : p < r /\ r <= p + size => h.mem[r] = d

LEMMA HoldingKept ==
    ASSUME NEW h, NEW B, Full(h, B), NEW g, NEW C, NEW X, NEW Y, Others(h, B, g, C, X, Y),
           NEW p, p \notin X, NEW size, NEW d, Holding(h, B, p, size, d)
    PROVE  p \notin Y /\ Holding(g, C, p, size, d)
<1>1. Granted(h, B, p, Adjusted(size), size) /\ size \in Nat
  BY DEF Holding
<1>2. /\ p \notin Y /\ Granted(g, C, p, Adjusted(size), size)
      /\ \A r \in Nat : p <= r /\ r <= Last(h, p) => g.mem[r] = h.mem[r]
  BY <1>1, GrantedKept
<1>3. Adjusted(size) \in Nat /\ Adjusted(size) >= size + 2
  BY <1>1, AdjustedIn DEF ALIGNMENT
<1>4. p \in Nat /\ Size(h, p) \in Nat /\ Adjusted(size) <= Size(h, p) /\ Last(h, p) = p + Size(h, p) - 1
  BY <1>1, GrantedIn
<1>5. \A r \in Nat : p < r /\ r <= p + size => p <= r /\ r <= Last(h, p)
  BY <1>1, <1>3, <1>4
<1> QED
  BY <1>2, <1>5 DEF Holding

\* Carrying the data of p to the block that sf_malloc gave, and freeing p.
LEMMA CarryFull ==
    ASSUME NEW h, NEW B, Full(h, B), NEW p, NEW old, NEW d, Holding(h, B, p, old, d),
           NEW size \in Nat, old < size, NEW new, Served(h, B, new, size), Rec(new.heap),
           NEW a, a = Carry(p, Footer(h, p), new), Orderly(a.heap)
    PROVE  Outcome(h, B, a, {p}, size, old, d)
<1>1. size > 0 /\ old \in Nat /\ d \in DataWords /\ Granted(h, B, p, Adjusted(old), old)
  BY DEF Holding
<1>2. CASE new.block = Null
  <2>1. a = new
    BY <1>2 DEF Carry
  <2>2. \E C : Full(a.heap, C) /\ Others(h, B, a.heap, C, {}, {})
    BY <1>2, <2>1 DEF Served
  <2>3. size # 0
    BY <1>1
  <2> QED
    BY <1>2, <2>1, <2>2, <2>3 DEF Outcome
<1>3. CASE new.block # Null
  <2> DEFINE k == new.heap
             q == new.block
             n == TagAt(k, Footer(h, p)).requested_size
             w == Move(k, q, p, n)
             g == Free(w, p)
  <2>1. a = Answer(g, q, "none")
    BY <1>3 DEF Carry
  <2>2. PICK D : /\ Full(k, D) /\ Others(h, B, k, D, {}, {q})
                 /\ Granted(k, D, q, Adjusted(size), size)
    BY <1>3 DEF Served
  <2> HIDE DEF k, q
  <2>3. p \notin {q} /\ Holding(k, D, p, old, d)
    BY <2>2, HoldingKept
  <2>4. p \notin {q} /\ Granted(k, D, p, Adjusted(old), old)
    BY <2>3 DEF Holding
  <2>5. n = old
    <3>1. Footer(h, p) = Last(h, p) /\ h.mem[p] = h.mem[p] /\ p \in Nat
      BY <1>1, GrantedIn
    <3>2. Size(k, p) = Size(h, p)
      BY <1>1, <2>2, GrantedKept
    <3>3. Last(k, p) = Footer(h, p)
      BY <3>1, <3>2 DEF Last
    <3>4. TagAt(k, Last(k, p)) = k.mem[Last(k, p)]
      BY <2>2, <2>4, GrantedIn
    <3>5. k.mem[Last(k, p)].requested_size = old
      BY <2>4 DEF Granted
    <3> QED
      BY <3>3, <3>4, <3>5
  <2>6. /\ q \in D /\ q \in Nat /\ k.mem[q].allocated = 1 /\ Size(k, q) \in Nat
        /\ Adjusted(size) <= Size(k, q) /\ p \in D /\ p \in Nat /\ k \in Heaps /\ q # Null
    <3>1. k \in Heaps
      BY <2>2, FullIn
    <3>2. /\ q \in D /\ q \in Nat /\ k.mem[q].allocated = 1 /\ Size(k, q) \in Nat
          /\ Adjusted(size) <= Size(k, q)
      BY <2>2, GrantedIn
    <3>3. p \in D /\ p \in Nat
      BY <2>2, <2>4, GrantedIn
    <3> QED
      BY <1>3, <3>1, <3>2, <3>3 DEF q
  <2>7. old + 2 <= Size(k, q)
    <3>1. Adjusted(size) \in Nat /\ Adjusted(size) >= size + 2
      BY AdjustedIn DEF ALIGNMENT
    <3> QED
      BY <1>1, <2>6, <3>1
  <2>8. Filled(k, w, q, old, d)
    <3>1. \A r \in Nat : p < r /\ r <= p + old => k.mem[r] = d
      BY <2>3 DEF Holding
    <3>2. q + old \in Rows
      <4>1. k.end \in Nat /\ k.end \in PageEnds
        BY <2>2, FullIn
      <4>2. q + Size(k, q) <= k.end
        BY <2>2, GrantedIn
      <4>3. q + old \in Nat /\ q + old < k.end
        BY <1>1, <2>6, <2>7, <4>1, <4>2
      <4> QED
        BY <4>1, <4>3, RowsIn
    <3>3. p + old \in Rows
      <4>1. k.end \in Nat /\ k.end \in PageEnds
        BY <2>2, FullIn
      <4>2. p + Size(k, p) <= k.end /\ Adjusted(old) <= Size(k, p) /\ Size(k, p) \in Nat
        BY <2>2, <2>4, GrantedIn
      <4>3. Adjusted(old) \in Nat /\ Adjusted(old) >= old + 2
        BY <1>1, AdjustedIn DEF ALIGNMENT
      <4>4. p + old \in Nat /\ p + old < k.end
        BY <1>1, <2>6, <4>1, <4>2, <4>3
      <4> QED
        BY <4>1, <4>4, RowsIn
    <3>4. Filled(k, Move(k, q, p, old), q, old, d)
      BY <1>1, <2>6, <3>1, <3>2, <3>3, MoveFills
    <3> QED
      BY <2>5, <3>4
  <2>9. Rec(w) /\ Rec(k)
    BY <2>6, HeapFields, MoveFrame DEF Frame
  <2> HIDE DEF w, n
  <2>10. /\ Full(w, D) /\ Others(k, D, w, D, {q}, {q})
         /\ \A x, y : Granted(k, D, q, x, y) => Granted(w, D, q, x, y)
         /\ \A r \in Nat : q < r /\ r <= q + old => w.mem[r] = d
    <3>1. /\ Full(k, D) /\ q \in D /\ k.mem[q].allocated = 1
          /\ old \in Nat /\ old + 2 <= Size(k, q) /\ d \in DataWords /\ Filled(k, w, q, old, d)
      BY <1>1, <2>2, <2>6, <2>8, <2>7
    <3>2. FilledKeeps(k, D, w, q, old, d)
      BY <3>1, FilledFull
    <3> QED
      BY <3>2 DEF FilledKeeps
  <2>11. p \notin {q} /\ Granted(w, D, p, Adjusted(old), old)
    BY <2>2, <2>4, <2>10, GrantedKept
  <2>12. p \in D /\ w.mem[p].allocated = 1
    BY <2>11 DEF Granted
  <2>13. g.fault = "none"
    <3>1. a.heap = g
      BY <2>1 DEF Answer
    <3> QED
      BY <3>1 DEF Orderly
  <2>14. \E C : Full(g, C) /\ Others(w, D, g, C, {p}, {})
    BY <2>10, <2>12, <2>13, FreeFull
  <2>15. PICK C : Full(g, C) /\ Others(w, D, g, C, {p}, {})
    BY <2>14
  <2> HIDE DEF g
  <2>16. Others(h, B, w, D, {} \cup ({q} \ {q}), {q} \cup ({q} \ {q}))
    BY <2>2, <2>10, OthersTrans
  <2>17. Others(h, B, w, D, {}, {q})
    <3>1. {} \cup ({q} \ {q}) = {} /\ {q} \cup ({q} \ {q}) = {q}
      OBVIOUS
    <3> QED
      BY <2>16, <3>1
  <2>18. Others(h, B, g, C, {} \cup ({p} \ {q}), {} \cup ({q} \ {p}))
    BY <2>15, <2>17, OthersTrans
  <2>19. Others(h, B, g, C, {p}, {q})
    <3>1. {} \cup ({p} \ {q}) = {p} /\ {} \cup ({q} \ {p}) = {q}
      BY <2>3
    <3> QED
      BY <2>18, <3>1
  <2>20. Granted(w, D, q, Adjusted(size), size) /\ q \notin {p}
    BY <2>2, <2>3, <2>10
  <2>21. /\ Granted(g, C, q, Adjusted(size), size)
         /\ \A r \in Nat : q <= r /\ r <= Last(w, q) => g.mem[r] = w.mem[r]
    BY <2>10, <2>15, <2>20, GrantedKept
  <2>22. \A r \in Nat : q < r /\ r <= q + old => g.mem[r] = d
    <3>1. Adjusted(size) \in Nat /\ Adjusted(size) >= size + 2
      BY AdjustedIn DEF ALIGNMENT
    <3>2. /\ Size(w, q) \in Nat /\ Adjusted(size) <= Size(w, q)
          /\ Last(w, q) = q + Size(w, q) - 1
      BY <2>10, <2>20, GrantedIn
    <3> TAKE r \in Nat
    <3> HAVE q < r /\ r <= q + old
    <3>3. q <= r /\ r <= Last(w, q)
      BY <1>1, <2>6, <3>1, <3>2
    <3> QED
      BY <2>10, <2>21, <3>3
  <2>23. a.heap = g /\ a.block = q
    BY <2>1 DEF Answer
  <2> QED
    BY <1>1, <2>6, <2>15, <2>19, <2>21, <2>22, <2>23 DEF Outcome
<1> QED
  BY <1>2, <1>3

\* sf_realloc of a block with its data
LEMMA ReallocFull ==
    ASSUME NEW h, NEW B, Full(h, B), NEW p, NEW old, NEW d, Holding(h, B, p, old, d), h.disordered # TRUE,
           NEW size \in Nat, Orderly(Realloc(h, p, size).heap)
    PROVE  Outcome(h, B, Realloc(h, p, size), {p}, size, old, d)
<1> DEFINE a == Realloc(h, p, size)
<1>1. old \in Nat /\ d \in DataWords /\ Granted(h, B, p, Adjusted(old), old)
      /\ \A r \in Nat : p < r /\ r <= p + old => h.mem[r] = d
  BY DEF Holding
<1>2. /\ p \in B /\ h.mem[p].allocated = 1 /\ Requested(h, p) = old /\ p \in Nat
      /\ Size(h, p) \in Nat /\ Adjusted(old) <= Size(h, p) /\ Footer(h, p) = Last(h, p)
      /\ p \in Rows /\ p # Null
  BY <1>1, GrantedIn, RowsIn
<1>3. Rec(h)
  BY FullIn, HeapFields
<1>4. ~Rejected(h, p)
  <2> SUFFICES ASSUME Rejected(h, p) PROVE FALSE
    OBVIOUS
  <2>1. a = Stop(h, "abort")
    BY Zenon DEF Realloc
  <2> QED
    BY <1>3, <2>1, StopFault DEF Orderly
<1>5. CASE size = 0
  <2>1. a = Answer(Free(h, p), Null, "none")
    <3>1. ~(size > Requested(h, p)) /\ size \notin 1 .. Requested(h, p) - 1
      BY <1>1, <1>2, <1>5
    <3> QED
      BY <1>4, <1>5, <3>1, Zenon DEF Realloc
  <2>2. a.heap = Free(h, p) /\ a.block = Null
    BY <2>1 DEF Answer
  <2> HIDE DEF a
  <2>3. Free(h, p).fault = "none"
    BY <2>2 DEF Orderly, a
  <2>4. \E C : Full(Free(h, p), C) /\ Others(h, B, Free(h, p), C, {p}, {})
    BY <1>2, <2>3, FreeFull
  <2>5. Outcome(h, B, a, {p}, size, old, d)
    BY <1>5, <2>2, <2>4 DEF Outcome
  <2> QED
    BY <2>5 DEF a
<1>6. CASE size > old
  <2> DEFINE new == Malloc(h, size)
  <2>1. a = Carry(p, Footer(h, p), new)
    <3>1. size # 0 /\ size > Requested(h, p) /\ size \notin 1 .. Requested(h, p) - 1
      BY <1>1, <1>2, <1>6
    <3> QED
      BY <1>4, <3>1, Zenon DEF Realloc
  <2>2. Rec(new.heap)
    BY <1>3, MallocGrowth DEF Greedy, Growth
  <2> HIDE DEF new, a
  <2>3. Orderly(a.heap)
    BY DEF a
  <2>4. Orderly(new.heap)
    <3>1. CASE new.block = Null
      BY <2>1, <2>3, <3>1 DEF Carry
    <3>2. CASE new.block # Null
      <4> DEFINE w == Move(new.heap, new.block, p, TagAt(new.heap, Footer(h, p)).requested_size)
      <4>1. a.heap = Free(w, p)
        BY <2>1, <3>2 DEF Carry, Answer
      <4>2. Frame(new.heap, w)
        BY <2>2, MoveFrame
      <4> HIDE DEF w
      <4>3. Frame(w, Free(w, p))
        BY <4>2, FreeFrame DEF Frame
      <4> QED
        BY <2>3, <4>1, <4>2, <4>3 DEF Frame, Orderly
    <3> QED
      BY <3>1, <3>2
  <2>5. Served(h, B, new, size)
    BY <2>4, MallocFull DEF new
  <2>6. old < size
    BY <1>1, <1>6
  <2>7. Outcome(h, B, a, {p}, size, old, d)
    BY <2>1, <2>2, <2>3, <2>5, <2>6, CarryFull
  <2> QED
    BY <2>7 DEF a
<1>7. CASE size \in 1 .. old - 1
  <2>1. a = Answer(Shrink(h, p, size), p, "none")
    <3>1. size # 0 /\ ~(size > Requested(h, p)) /\ size \in 1 .. Requested(h, p) - 1
      BY <1>1, <1>2, <1>7
    <3> QED
      BY <1>4, <3>1 DEF Realloc
  <2>2. a.heap = Shrink(h, p, size) /\ a.block = p
    BY <2>1 DEF Answer
  <2> HIDE DEF a
  <2> DEFINE g == Shrink(h, p, size)
             m == Adjusted(size)
  <2>3. g.fault = "none"
    BY <2>2 DEF Orderly, a
  <2>4. m \in Nat /\ m >= size + 2 /\ m <= Adjusted(old) /\ Adjusted(old) \in Nat
    <3>1. size <= old
      BY <1>1, <1>7
    <3> QED
      BY <1>1, <3>1, AdjustedIn, AdjustedMonotone DEF ALIGNMENT
  <2>5. m <= Size(h, p)
    BY <1>2, <2>4
  <2> HIDE DEF g
  <2>6. Shrunk(h, B, p, m, size, g)
    BY <1>2, <2>3, <2>5, ShrinkFull DEF g
  <2>7. PICK C : Full(g, C) /\ Others(h, B, g, C, {p}, {p}) /\ Granted(g, C, p, m, size)
    BY <2>6 DEF Shrunk
  <2>8. \A r \in Nat : p < r /\ r < p + m - 1 => g.mem[r] = h.mem[r]
    BY <2>6 DEF Shrunk
  <2>9. \A r \in Nat : p < r /\ r <= p + size /\ r <= p + old => g.mem[r] = d
    <3> TAKE r \in Nat
    <3> HAVE p < r /\ r <= p + size /\ r <= p + old
    <3>1. r < p + m - 1
      <4> HIDE DEF m
      <4> QED
        BY <1>2, <2>4
    <3> QED
      BY <1>1, <2>8, <3>1
  <2>10. size > 0
    BY <1>7
  <2>11. Outcome(h, B, a, {p}, size, old, d)
    <3>1. a.heap = g /\ a.block = p
      BY <2>2 DEF g
    <3> QED
      BY <1>2, <2>7, <2>9, <2>10, <3>1 DEF Outcome
  <2> QED
    BY <2>11 DEF a
<1>8. CASE size = old /\ size # 0
  <2>1. a = Answer(h, Null, "none")
    <3>1. ~(size > Requested(h, p)) /\ size \notin 1 .. Requested(h, p) - 1
      BY <1>1, <1>2, <1>8
    <3> QED
      BY <1>4, <1>8, <3>1 DEF Realloc
  <2>2. a.heap = h /\ a.block = Null
    BY <2>1 DEF Answer
  <2> HIDE DEF a
  <2>3. Others(h, B, h, B, {}, {})
    BY OthersSame
  <2>4. Outcome(h, B, a, {p}, size, old, d)
    BY <1>8, <2>2, <2>3 DEF Outcome
  <2> QED
    BY <2>4 DEF a
<1> QED
  BY <1>1, <1>5, <1>6, <1>7, <1>8

\* sf_malloc, in the same terms
LEMMA MallocOutcome ==
    ASSUME NEW h, NEW B, Full(h, B), NEW size \in Nat, Orderly(Malloc(h, size).heap), NEW d
    PROVE  Outcome(h, B, Malloc(h, size), {}, size, 0, d)
<1> DEFINE a == Malloc(h, size)
<1>1. Served(h, B, a, size)
  BY MallocFull
<1> HIDE DEF a
<1>2. CASE a.block = Null
  <2>1. \E C : Full(a.heap, C) /\ Others(h, B, a.heap, C, {}, {})
    BY <1>1, <1>2 DEF Served
  <2>2. (IF size = 0 THEN {} ELSE {}) = {}
    OBVIOUS
  <2>3. Outcome(h, B, a, {}, size, 0, d)
    BY <1>2, <2>1, <2>2 DEF Outcome
  <2> QED
    BY <2>3 DEF a
<1>3. CASE a.block # Null
  <2>1. size > 0
    BY <1>1, <1>3 DEF Served
  <2>2. PICK C : /\ Full(a.heap, C) /\ Others(h, B, a.heap, C, {}, {a.block})
                 /\ Granted(a.heap, C, a.block, Adjusted(size), size)
    BY <1>1, <1>3 DEF Served
  <2>3. a.block \in Nat
    BY <2>2, GrantedIn
  <2>4. \A r \in Nat : ~(a.block < r /\ r <= a.block + 0)
    BY <2>3
  <2>5. Outcome(h, B, a, {}, size, 0, d)
    BY <1>3, <2>1, <2>2, <2>4 DEF Outcome
  <2> QED
    BY <2>5 DEF a
<1> QED
  BY <1>2, <1>3

-----------------------------------------------------------------------------
(* The invariant: while the lists are in order, the heap is tiled by blocks  *)
(* that the program owns and blocks that its lists link                      *)

Owned(h, B, gr) ==
    /\ \A g \in Grants : gr[g].size > 0 => Holding(h, B, gr[g].ptr, gr[g].size, Data(g))
    /\ \A f, g \in Grants : gr[f].size > 0 /\ gr[g].size > 0 /\ gr[f].ptr = gr[g].ptr => f = g
    /\ \A q \in B : h.mem[q].allocated = 1 => \E g \in Grants : gr[g].size > 0 /\ gr[g].ptr = q

\* The blocks a call is given: that of the grant it is about.
Given(gr, g) == IF gr[g].size > 0 THEN {gr[g].ptr} ELSE {}

LEMMA OwnedKept ==
    ASSUME NEW h, NEW B, Full(h, B), NEW gr, Owned(h, B, gr),
           NEW k, NEW C, Others(h, B, k, C, {}, {})
    PROVE  Owned(k, C, gr)
<1>1. ASSUME NEW g \in Grants, gr[g].size > 0 PROVE Holding(k, C, gr[g].ptr, gr[g].size, Data(g))
  <2>1. Holding(h, B, gr[g].ptr, gr[g].size, Data(g)) /\ gr[g].ptr \notin {}
    BY <1>1 DEF Owned
  <2> QED
    BY <2>1, HoldingKept
<1>2. ASSUME NEW q \in C, k.mem[q].allocated = 1 PROVE \E g \in Grants : gr[g].size > 0 /\ gr[g].ptr = q
  BY <1>2 DEF Owned, Others
<1> QED
  BY <1>1, <1>2 DEF Owned

LEMMA OwnedChanged ==
    ASSUME NEW h, NEW B, Full(h, B), NEW gr, Owned(h, B, gr), NEW g \in Grants,
           NEW k, NEW C, NEW Y, Others(h, B, k, C, Given(gr, g), Y),
           NEW new, NEW now, \A f \in Grants : now[f] = IF f = g THEN new ELSE gr[f],
           \/ new.size = 0 /\ Y = {}
           \/ Y = {new.ptr} /\ Holding(k, C, new.ptr, new.size, Data(g)) /\ new.size > 0
    PROVE  Owned(k, C, now)
<1>1. ASSUME NEW f \in Grants, f # g, gr[f].size > 0
      PROVE  gr[f].ptr \notin Given(gr, g) /\ gr[f].ptr \notin Y
             /\ Holding(k, C, gr[f].ptr, gr[f].size, Data(f))
  <2>1. Holding(h, B, gr[f].ptr, gr[f].size, Data(f)) /\ gr[f].ptr \notin Given(gr, g)
    BY <1>1 DEF Owned, Given
  <2> QED
    BY <2>1, HoldingKept
<1>2. ASSUME NEW f \in Grants, now[f].size > 0
      PROVE  Holding(k, C, now[f].ptr, now[f].size, Data(f))
  BY <1>1, <1>2
<1>3. ASSUME NEW f \in Grants, NEW e \in Grants, now[f].size > 0, now[e].size > 0, now[f].ptr = now[e].ptr
      PROVE  f = e
  <2>1. CASE f = g /\ e # g
    BY <1>1, <1>3, <2>1
  <2>2. CASE e = g /\ f # g
    BY <1>1, <1>3, <2>2
  <2>3. CASE e # g /\ f # g
    <3>1. gr[f].size > 0 /\ gr[e].size > 0 /\ gr[f].ptr = gr[e].ptr
      BY <1>3, <2>3
    <3> QED
      BY <3>1 DEF Owned
  <2> QED
    BY <2>1, <2>2, <2>3
<1>4. ASSUME NEW q \in C, k.mem[q].allocated = 1
      PROVE  \E f \in Grants : now[f].size > 0 /\ now[f].ptr = q
  <2>1. q \in Y \/ (q \in B \ Given(gr, g) /\ h.mem[q].allocated = 1)
    BY <1>4 DEF Others
  <2>2. CASE q \in Y
    BY <2>2
  <2>3. CASE q \in B \ Given(gr, g) /\ h.mem[q].allocated = 1
    <3>1. PICK f \in Grants : gr[f].size > 0 /\ gr[f].ptr = q
      BY <2>3 DEF Owned
    <3>2. f # g
      BY <2>3, <3>1 DEF Given
    <3> QED
      BY <3>1, <3>2
  <2> QED
    BY <2>1, <2>2, <2>3
<1> QED
  BY <1>2, <1>3, <1>4 DEF Owned

\* What a block was granted for fits, with its header and footer.
LEMMA GrantFits ==
    ASSUME NEW h, NEW B, Full(h, B), NEW p, NEW size \in Nat, Granted(h, B, p, Adjusted(size), size)
    PROVE  p \in B /\ p \in Nat /\ h.mem[p].allocated = 1 /\ size + 2 <= Size(h, p)
<1>1. Adjusted(size) \in Nat /\ Adjusted(size) >= size + 2
  BY AdjustedIn DEF ALIGNMENT
<1>2. p \in B /\ p \in Nat /\ h.mem[p].allocated = 1 /\ Size(h, p) \in Nat /\ Adjusted(size) <= Size(h, p)
  BY GrantedIn
<1> QED
  BY <1>1, <1>2

\* The program writes to the block it was answered with.
LEMMA Answered ==
    ASSUME NEW h, NEW B, Full(h, B), NEW gr, Owned(h, B, gr), NEW g \in Grants,
           NEW size \in Nat, NEW old \in Nat, NEW a,
           Outcome(h, B, a, Given(gr, g), size, old, Data(g)),
           NEW k, k = IF a.block = Null THEN a.heap ELSE Write(a.heap, g, a.block, old + 1, size),
           NEW now,
           \A f \in Grants : now[f] =
               IF f = g /\ (a.block # Null \/ size = 0)
               THEN [ptr |-> IF a.block # Null THEN a.block ELSE Null,
                     size |-> IF a.block # Null THEN size ELSE 0]
               ELSE gr[f]
    PROVE  \E C : Full(k, C) /\ Owned(k, C, now)
<1>1. CASE a.block = Null /\ size = 0
  <2> DEFINE new == [ptr |-> Null, size |-> 0]
  <2>1. PICK C : Full(k, C) /\ Others(h, B, k, C, Given(gr, g), {})
    BY <1>1 DEF Outcome
  <2>2. new.size = 0 /\ \A f \in Grants : now[f] = IF f = g THEN new ELSE gr[f]
    BY <1>1
  <2> HIDE DEF new
  <2>3. Owned(k, C, now)
    BY <2>1, <2>2, OwnedChanged
  <2> QED
    BY <2>1, <2>3
<1>2. CASE a.block = Null /\ size # 0
  <2>1. PICK C : Full(k, C) /\ Others(h, B, k, C, {}, {})
    BY <1>2 DEF Outcome
  <2>2. Owned(k, C, gr)
    BY <2>1, OwnedKept
  <2>3. \A f \in Grants : now[f] = gr[f]
    BY <1>2
  <2>4. Owned(k, C, now)
    BY <2>2, <2>3 DEF Owned
  <2> QED
    BY <2>1, <2>4
<1>3. CASE a.block # Null
  <2> DEFINE m == a.heap
             p == a.block
             new == [ptr |-> p, size |-> size]
  <2>1. PICK C : /\ Full(m, C) /\ Others(h, B, m, C, Given(gr, g), {p})
                 /\ Granted(m, C, p, Adjusted(size), size)
                 /\ \A r \in Nat : p < r /\ r <= p + size /\ r <= p + old => m.mem[r] = Data(g)
    BY <1>3 DEF Outcome
  <2>2. size > 0 /\ k = Write(m, g, p, old + 1, size)
    BY <1>3 DEF Outcome
  <2>3. new.ptr = p /\ new.size = size /\ \A f \in Grants : now[f] = IF f = g THEN new ELSE gr[f]
    BY <1>3
  <2> HIDE DEF m, p, new
  <2>4. p \in C /\ p \in Nat /\ m.mem[p].allocated = 1 /\ size + 2 <= Size(m, p)
    BY <2>1, GrantFits
  <2>5. m \in Heaps /\ Data(g) \in DataWords
    BY <2>1, FullIn, DataIn
  <2>6. Filled(m, k, p, size, Data(g))
    BY <2>1, <2>2, <2>4, <2>5, WriteFills
  <2>7. FilledKeeps(m, C, k, p, size, Data(g))
    BY <2>1, <2>4, <2>5, <2>6, FilledFull
  <2>8. /\ Full(k, C) /\ Others(m, C, k, C, {p}, {p}) /\ Granted(k, C, p, Adjusted(size), size)
        /\ \A r \in Nat : p < r /\ r <= p + size => k.mem[r] = Data(g)
    BY <2>1, <2>7 DEF FilledKeeps
  <2>9. Others(h, B, k, C, Given(gr, g) \cup ({p} \ {p}), {p} \cup ({p} \ {p}))
    BY <2>1, <2>8, OthersTrans
  <2>10. Others(h, B, k, C, Given(gr, g), {new.ptr})
    <3>1. Given(gr, g) \cup ({p} \ {p}) = Given(gr, g) /\ {p} \cup ({p} \ {p}) = {p}
      OBVIOUS
    <3> QED
      BY <2>3, <2>9, <3>1
  <2>11. Holding(k, C, new.ptr, new.size, Data(g)) /\ new.size > 0
    BY <2>2, <2>3, <2>5, <2>8 DEF Holding
  <2>12. Owned(k, C, now)
    BY <2>3, <2>10, <2>11, OwnedChanged
  <2> QED
    BY <2>8, <2>12
<1> QED
  BY <1>1, <1>2, <1>3

Granting(gr) == gr = [g \in Grants |-> gr[g]] /\ \A g \in Grants : gr[g].size \in Nat

HeapInv ==
    /\ Rec(heap) /\ Granting(grants)
    /\ Orderly(heap) => \E B : Full(heap, B) /\ Owned(heap, B, grants)

LEMMA EmptyFull ==
    ASSUME NEW h, h = [mem |-> [r \in Rows |-> Zero], head |-> [i \in Lists |-> Null],
                       end |-> 0, fault |-> "none", disordered |-> FALSE]
    PROVE  Full(h, {})
<1>1. h \in Heaps
  <2>1. Zero \in Words
    BY WordsIn DEF Words
  <2> QED
    BY <2>1 DEF Heaps
<1>2. /\ h.fault = "none" /\ h.end = 0 /\ \A r \in Rows : h.mem[r] = Zero
      /\ \A i \in Lists : h.head[i] = Null
  OBVIOUS
<1> HIDE DEF Zero
<1>3. \A r \in Rows : LinkAt(h, r) = Null
  <2>1. Zero = Link(Null)
    BY WordsIn
  <2> QED
    BY <1>1, <1>2, <2>1, LinkReads
<1>4. h.end \in PageEnds
  <2>1. 0 * PAGE_SZ = 0 /\ 0 \in 0 .. Pages
    BY PageAssumption, BoundsAssumption
  <2> QED
    BY <1>2, <2>1 DEF PageEnds
<1>5. FreeIn(h, {}) = {}
  BY DEF FreeIn
<1>6. Linked(h, {}, Classes(h))
  <2>1. Unlinked(h, {})
    BY <1>3 DEF Unlinked
  <2>2. Headed(h, {}, Classes(h))
    BY <1>2 DEF Headed
  <2>3. Neighbours(h, {}, Classes(h)) /\ Spread({})
    BY DEF Neighbours, Spread
  <2> QED
    BY <1>1, <2>1, <2>2, <2>3 DEF Linked
<1>7. Tiles(h, {}, 0, h.end)
  BY <1>2 DEF Tiles
<1> QED
  BY <1>2, <1>4, <1>5, <1>6, <1>7 DEF Full

LEMMA InitHeap == Init => HeapInv
<1> SUFFICES ASSUME Init PROVE HeapInv
  OBVIOUS
<1>1. Full(heap, {})
  BY EmptyFull DEF Init
<1>2. Granting(grants) /\ \A g \in Grants : grants[g].size = 0
  BY DEF Init, Granting
<1>3. Owned(heap, {}, grants)
  BY <1>2 DEF Owned
<1>4. Rec(heap)
  BY <1>1, FullIn, HeapFields
<1> QED
  BY <1>1, <1>2, <1>3, <1>4 DEF HeapInv

\* The grants after an answer.
LEMMA TakeGrants ==
    ASSUME NEW g \in Grants, NEW size \in Nat, NEW a, NEW kept, Take(g, size, a, kept),
           Granting(grants)
    PROVE  /\ Granting(grants')
           /\ \A f \in Grants : grants'[f] =
                  IF f = g /\ (a.block # Null \/ size = 0)
                  THEN [ptr |-> IF a.block # Null THEN a.block ELSE Null,
                        size |-> IF a.block # Null THEN size ELSE 0]
                  ELSE grants[f]
           /\ heap' = IF a.block = Null THEN a.heap ELSE Write(a.heap, g, a.block, kept + 1, size)
<1>1. CASE a.block # Null
  <2>1. grants' = [grants EXCEPT ![g] = [ptr |-> a.block, size |-> size]]
    BY <1>1 DEF Take
  <2> QED
    BY <1>1, <2>1 DEF Take, Granting
<1>2. CASE a.block = Null /\ size = 0
  <2>1. grants' = [grants EXCEPT ![g] = [ptr |-> Null, size |-> 0]]
    BY <1>2 DEF Take
  <2> QED
    BY <1>2, <2>1 DEF Take, Granting
<1>3. CASE a.block = Null /\ size # 0
  <2>1. grants' = grants
    BY <1>3 DEF Take
  <2> QED
    BY <1>3, <2>1 DEF Take, Granting
<1> QED
  BY <1>1, <1>2, <1>3

LEMMA TakeOwned ==
    ASSUME NEW g \in Grants, NEW size \in Nat, NEW a, Rec(a.heap), NEW kept \in Nat,
           Take(g, size, a, kept), Granting(grants), Orderly(heap'),
           NEW B, Full(heap, B), Owned(heap, B, grants),
           Orderly(a.heap) => Outcome(heap, B, a, Given(grants, g), size, kept, Data(g))
    PROVE  \E C : Full(heap', C) /\ Owned(heap', C, grants')
<1>1. /\ \A f \in Grants : grants'[f] =
            IF f = g /\ (a.block # Null \/ size = 0)
            THEN [ptr |-> IF a.block # Null THEN a.block ELSE Null,
                  size |-> IF a.block # Null THEN size ELSE 0]
            ELSE grants[f]
      /\ heap' = IF a.block = Null THEN a.heap ELSE Write(a.heap, g, a.block, kept + 1, size)
  BY TakeGrants
<1>2. Orderly(a.heap)
  <2>1. CASE a.block = Null
    BY <1>1, <2>1
  <2>2. CASE a.block # Null
    <3>1. Frame(a.heap, Write(a.heap, g, a.block, kept + 1, size))
      BY WriteFrame
    <3> QED
      BY <1>1, <2>2, <3>1 DEF Frame, Orderly
  <2> QED
    BY <2>1, <2>2
<1>3. Outcome(heap, B, a, Given(grants, g), size, kept, Data(g))
  BY <1>2
<1> QED
  BY <1>1, <1>3, Answered

LEMMA StepHeap ==
    ASSUME HeapInv, [Next]_vars PROVE HeapInv'
<1>1. Rec(heap) /\ Granting(grants) /\ (Orderly(heap) => \E B : Full(heap, B) /\ Owned(heap, B, grants))
  BY DEF HeapInv
<1>2. Growth(heap, heap')
  BY <1>1, StepGrowth
<1>3. CASE UNCHANGED vars
  BY <1>1, <1>3 DEF HeapInv, vars, Orderly
<1>4. ASSUME NEW g \in Grants, NEW size \in Sizes, SfMalloc(g, size) PROVE HeapInv'
  <2>1. size \in Nat /\ Take(g, size, Malloc(heap, size), 0) /\ grants[g].size = 0 /\ heap.fault = "none"
    BY <1>4, BoundsAssumption DEF SfMalloc, Unused, Call
  <2>2. Granting(grants')
    BY <1>1, <2>1, TakeGrants
  <2>3. Rec(Malloc(heap, size).heap)
    BY <1>1, <2>1, MallocGrowth DEF Greedy, Growth
  <2>4. ASSUME Orderly(heap') PROVE \E C : Full(heap', C) /\ Owned(heap', C, grants')
    <3>1. Orderly(heap)
      BY <1>2, <2>1, <2>4 DEF Growth, Orderly
    <3>2. PICK B : Full(heap, B) /\ Owned(heap, B, grants)
      BY <1>1, <3>1
    <3> DEFINE a == Malloc(heap, size)
    <3>3. Orderly(a.heap) => Outcome(heap, B, a, Given(grants, g), size, 0, Data(g))
      <4>1. Given(grants, g) = {}
        BY <2>1 DEF Given
      <4> QED
        BY <2>1, <3>2, <4>1, MallocOutcome
    <3>4. Take(g, size, a, 0) /\ Rec(a.heap)
      BY <2>1, <2>3
    <3> HIDE DEF a
    <3> QED
      BY <1>1, <2>1, <2>4, <3>2, <3>3, <3>4, TakeOwned
  <2> QED
    BY <1>2, <2>2, <2>4 DEF HeapInv, Growth
<1>5. ASSUME NEW g \in Grants, NEW size \in Sizes, SfRealloc(g, size) PROVE HeapInv'
  <2> DEFINE a == Realloc(heap, grants[g].ptr, size)
             old == grants[g].size
  <2>1. /\ size \in Nat /\ Take(g, size, a, old) /\ old # 0 /\ heap.fault = "none"
        /\ old \in Nat
    BY <1>1, <1>5, BoundsAssumption DEF SfRealloc, Unused, Call, Granting
  <2>2. Granting(grants')
    <3> HIDE DEF a, old
    <3> QED
      BY <1>1, <2>1, TakeGrants
  <2>3. Rec(a.heap)
    BY <1>1, <2>1, ReallocGrowth DEF Greedy, Growth
  <2>4. ASSUME Orderly(heap') PROVE \E C : Full(heap', C) /\ Owned(heap', C, grants')
    <3>1. Orderly(heap)
      BY <1>2, <2>1, <2>4 DEF Growth, Orderly
    <3>2. PICK B : Full(heap, B) /\ Owned(heap, B, grants)
      BY <1>1, <3>1
    <3>3. Holding(heap, B, grants[g].ptr, old, Data(g))
      BY <2>1, <3>2 DEF Owned
    <3>4. Given(grants, g) = {grants[g].ptr}
      BY <2>1 DEF Given
    <3>7. heap.disordered # TRUE
      BY <3>1 DEF Orderly
    <3>5. ASSUME Orderly(a.heap)
          PROVE  Outcome(heap, B, a, {grants[g].ptr}, size, old, Data(g))
      BY <2>1, <3>2, <3>3, <3>5, <3>7, ReallocFull
    <3>6. Orderly(a.heap) => Outcome(heap, B, a, Given(grants, g), size, old, Data(g))
      BY <3>4, <3>5
    <3> HIDE DEF a, old
    <3> QED
      BY <1>1, <2>1, <2>3, <2>4, <3>2, <3>6, TakeOwned
  <2> QED
    BY <1>2, <2>2, <2>4 DEF HeapInv, Growth
<1>6. ASSUME NEW g \in Grants, SfFree(g) PROVE HeapInv'
  <2> DEFINE p == grants[g].ptr
             new == [ptr |-> Null, size |-> 0]
  <2>1. /\ heap' = Free(heap, p) /\ grants' = [grants EXCEPT ![g] = new]
        /\ grants[g].size # 0 /\ heap.fault = "none" /\ grants[g].size \in Nat
    BY <1>1, <1>6 DEF SfFree, Unused, Call, Granting
  <2>2. new.size = 0 /\ \A f \in Grants : grants'[f] = IF f = g THEN new ELSE grants[f]
    BY <1>1, <2>1 DEF Granting
  <2>3. Granting(grants')
    BY <1>1, <2>1, <2>2 DEF Granting
  <2>4. ASSUME Orderly(heap') PROVE \E C : Full(heap', C) /\ Owned(heap', C, grants')
    <3>1. Orderly(heap)
      BY <1>2, <2>1, <2>4 DEF Growth, Orderly
    <3>2. PICK B : Full(heap, B) /\ Owned(heap, B, grants)
      BY <1>1, <3>1
    <3>3. Holding(heap, B, p, grants[g].size, Data(g))
      BY <2>1, <3>2 DEF Owned
    <3>4. Given(grants, g) = {p}
      BY <2>1 DEF Given
    <3> HIDE DEF p, new
    <3>5. p \in B /\ heap.mem[p].allocated = 1
      BY <3>3 DEF Holding, Granted
    <3>6. Free(heap, p).fault = "none"
      BY <2>1, <2>4 DEF Orderly
    <3>7. \E C : Full(Free(heap, p), C) /\ Others(heap, B, Free(heap, p), C, {p}, {})
      BY <3>2, <3>5, <3>6, FreeFull
    <3>8. PICK C : Full(heap', C) /\ Others(heap, B, heap', C, Given(grants, g), {})
      BY <2>1, <3>4, <3>7
    <3>9. Owned(heap', C, grants')
      BY <2>2, <3>2, <3>8, OwnedChanged
    <3> QED
      BY <3>8, <3>9
  <2> QED
    BY <1>2, <2>3, <2>4 DEF HeapInv, Growth
<1> QED
  BY <1>3, <1>4, <1>5, <1>6 DEF Next

\* The invariant holds in every reachable state.
THEOREM HeapInvCorrect == Spec => []HeapInv
<1>1. HeapInv /\ [Next]_vars => HeapInv'
  BY StepHeap
<1> QED
  BY <1>1, InitHeap, PTL DEF Spec

-----------------------------------------------------------------------------
(* What follows for the properties that the runs check *)

LEMMA Ordered == Sorted => Orderly(heap)
  BY DEF Sorted, Running, Orderly

WalkSteps(at) == at = [k \in 0 .. Most |-> IF k = 0 THEN 0 ELSE After(at[k - 1])]

LEMMA MostIn == Most \in Nat /\ Steps < MINSIZE * Most + MINSIZE
<1>1. Steps \in Nat
  BY StepsIn
<1>2. Steps \div 4 \in Nat /\ Steps = 4 * (Steps \div 4) + (Steps % 4) /\ Steps % 4 \in 0 .. 3
  BY <1>1, Quotient
<1> QED
  BY <1>1, <1>2 DEF Most, MINSIZE

\* The walk from header to header takes its steps, and stays with the blocks.
LEMMA WalkIn ==
    ASSUME NEW B, Full(heap, B)
    PROVE  /\ WalkSteps(Walk)
           /\ \A k \in 0 .. Most : Walk[k] \in B \cup {heap.end}
<1> DEFINE S == B \cup {heap.end}
           f == [x \in S |-> After(x)]
<1>1. 0 \in S
  BY FullIn DEF Tiles
<1>2. \A x \in S : After(x) \in S
  <2> TAKE x \in S
  <2>1. CASE x = heap.end
    <3>1. ~(x < heap.end)
      BY <2>1, FullIn
    <3> QED
      BY <2>1, <3>1 DEF After
  <2>2. CASE x \in B
    <3>1. TagAt(heap, x) = heap.mem[x] /\ x + Size(heap, x) \in S
      BY <2>2, FullIn DEF Tiles
    <3> QED
      BY <2>2, <3>1 DEF After, Size
  <2> QED
    BY <2>1, <2>2
<1>3. PICK g : Iterates(g, f, 0, Most)
  BY IteratesExists, MostIn
<1> HIDE DEF S
<1>4. \A x \in S : f[x] = After(x) /\ f[x] \in S
  BY <1>2
<1> HIDE DEF f
<1>5. \A k \in 0 .. Most : g[k] \in S
  BY <1>1, <1>3, <1>4, IteratesIn, MostIn
<1>6. WalkSteps(g)
  <2>1. g = [k \in 0 .. Most |-> IF k = 0 THEN 0 ELSE f[g[k - 1]]]
    BY <1>3 DEF Iterates
  <2>2. ASSUME NEW k \in 0 .. Most, k # 0 PROVE f[g[k - 1]] = After(g[k - 1])
    <3>1. k - 1 \in 0 .. Most
      BY <2>2, MostIn
    <3> QED
      BY <1>4, <1>5, <3>1
  <2>3. g = [k \in 0 .. Most |-> IF k = 0 THEN 0 ELSE After(g[k - 1])]
    BY <2>1, <2>2
  <2> QED
    BY <2>3 DEF WalkSteps
<1>7. Walk = CHOOSE at : WalkSteps(at)
  BY DEF Walk, WalkSteps
<1>8. WalkSteps(Walk)
  BY <1>6, <1>7
<1>9. \A k \in 0 .. Most : Walk[k] \in S
  <2> DEFINE Bad == {k \in 0 .. Most : Walk[k] \notin S}
  <2> SUFFICES ASSUME Bad # {} PROVE FALSE
    OBVIOUS
  <2>1. PICK k \in Bad : \A j \in Bad : k <= j
    <3>1. Bad \in SUBSET Nat
      BY MostIn
    <3> HIDE DEF Bad
    <3> QED
      BY <3>1, LeastNatural
  <2>2. k \in 0 .. Most /\ Walk[k] \notin S
    BY <2>1
  <2>3. k # 0
    BY <1>1, <1>8, <2>2 DEF WalkSteps
  <2>4. k - 1 \in 0 .. Most /\ k - 1 \notin Bad
    BY <2>1, <2>2, <2>3, MostIn
  <2>5. Walk[k] = After(Walk[k - 1]) /\ Walk[k - 1] \in S
    BY <1>8, <2>2, <2>3, <2>4 DEF WalkSteps
  <2> QED
    BY <1>2, <2>2, <2>5
<1> QED
  BY <1>8, <1>9 DEF S

\* It comes to every block, and to the end of the heap.
LEMMA Walked ==
    ASSUME NEW B, Full(heap, B) PROVE Walk[Most] = heap.end /\ Blocks = B
<1>1. /\ WalkSteps(Walk) /\ \A k \in 0 .. Most : Walk[k] \in B \cup {heap.end}
  BY WalkIn
<1>2. /\ heap.end \in Nat /\ heap.end <= Steps /\ Tiles(heap, B, 0, heap.end)
      /\ \A q \in B : TagAt(heap, q) = heap.mem[q]
  BY FullIn, PageEndIn DEF Steps
<1>3. \A q \in B : /\ q \in Nat /\ Size(heap, q) \in Nat /\ Size(heap, q) >= 4 /\ q < heap.end
                   /\ q + Size(heap, q) <= heap.end /\ After(q) = q + Size(heap, q)
  BY <1>2, BlockIn, TilesInside DEF Tiles, After, Size
<1>4. After(heap.end) = heap.end
  BY <1>2 DEF After
<1>5. Walk[0] = 0 /\ \A k \in 0 .. Most : k # 0 => Walk[k] = After(Walk[k - 1])
  BY <1>1, MostIn DEF WalkSteps
<1>6. \A k \in 0 .. Most : Walk[k] = heap.end \/ 4 * k <= Walk[k]
  <2> DEFINE Bad == {k \in 0 .. Most : ~(Walk[k] = heap.end \/ 4 * k <= Walk[k])}
  <2> SUFFICES ASSUME Bad # {} PROVE FALSE
    OBVIOUS
  <2>1. PICK k \in Bad : \A j \in Bad : k <= j
    <3>1. Bad \in SUBSET Nat
      BY MostIn
    <3> HIDE DEF Bad
    <3> QED
      BY <3>1, LeastNatural
  <2>2. k \in 0 .. Most /\ Walk[k] # heap.end /\ ~(4 * k <= Walk[k])
    BY <2>1
  <2>3. k # 0
    BY <1>5, <2>2
  <2>4. k - 1 \in 0 .. Most /\ k - 1 \notin Bad
    BY <2>1, <2>2, <2>3, MostIn
  <2>5. Walk[k] = After(Walk[k - 1]) /\ Walk[k - 1] \in B \cup {heap.end}
    BY <1>1, <1>5, <2>2, <2>3, <2>4
  <2>6. Walk[k - 1] \in B
    BY <1>4, <2>2, <2>5
  <2>7. 4 * (k - 1) <= Walk[k - 1]
    BY <1>3, <2>4, <2>6
  <2> QED
    BY <1>3, <2>2, <2>5, <2>6, <2>7, MostIn
<1>7. Walk[Most] = heap.end
  <2>1. Most \in 0 .. Most
    BY MostIn
  <2>2. ASSUME Walk[Most] # heap.end PROVE FALSE
    <3>1. Walk[Most] \in B /\ 4 * Most <= Walk[Most]
      BY <1>1, <1>6, <2>1, <2>2
    <3>2. Walk[Most] \in Nat /\ Walk[Most] + 4 <= heap.end
      BY <1>2, <1>3, <3>1
    <3>3. Steps \in Nat /\ Most \in Nat /\ Steps < 4 * Most + 4
      BY StepsIn, MostIn DEF MINSIZE
    <3> QED
      BY <1>2, <3>1, <3>2, <3>3
  <2> QED
    BY <2>2
<1>8. \A b \in B : \E k \in 0 .. Most : Walk[k] = b
  <2> SUFFICES ASSUME NEW b \in B, \A k \in 0 .. Most : Walk[k] # b PROVE FALSE
    OBVIOUS
  <2> DEFINE Bad == {k \in 0 .. Most : ~(Walk[k] < b)}
  <2>1. Bad # {}
    <3>1. Most \in 0 .. Most /\ ~(Walk[Most] < b)
      BY <1>2, <1>3, <1>7, MostIn
    <3> QED
      BY <3>1
  <2>2. PICK k \in Bad : \A j \in Bad : k <= j
    <3>1. Bad \in SUBSET Nat
      BY MostIn
    <3> HIDE DEF Bad
    <3> QED
      BY <2>1, <3>1, LeastNatural
  <2>3. k \in 0 .. Most /\ ~(Walk[k] < b)
    BY <2>2
  <2>4. k # 0
    <3>1. 0 \in 0 .. Most
      BY MostIn
    <3> QED
      BY <1>3, <1>5, <2>3, <3>1
  <2>5. k - 1 \in 0 .. Most /\ k - 1 \notin Bad
    BY <2>2, <2>3, <2>4, MostIn
  <2>6. Walk[k - 1] < b /\ Walk[k - 1] \in B \cup {heap.end}
    BY <1>1, <2>5
  <2>7. Walk[k - 1] \in B
    BY <1>2, <1>3, <2>6
  <2>8. Walk[k] = Walk[k - 1] + Size(heap, Walk[k - 1])
    BY <1>3, <1>5, <2>3, <2>4, <2>7
  <2>9. Walk[k] <= b
    BY <1>2, <2>6, <2>7, <2>8 DEF Tiles
  <2>10. Walk[k] # b /\ Walk[k] \in Nat /\ b \in Nat
    BY <1>1, <1>2, <1>3, <2>3
  <2> QED
    BY <2>3, <2>9, <2>10
<1>9. heap.end \notin B
  BY <1>2, <1>3
<1> QED
  BY <1>1, <1>7, <1>8, <1>9 DEF Blocks

\* From a block that no other one leads to, a list that never leaves S ends.
LEMMA SeekEnds ==
    ASSUME NEW h, NEW S, S \subseteq Rows, \A q \in S : IsTag(h.mem[q]),
           \A q \in S : NextOf(h, q) \in S \cup {Null, Wild},
           \A q \in S : NextOf(h, q) \in S => PrevOf(h, NextOf(h, q)) = q,
           NEW p \in S \cup {Null}, p \in S => PrevOf(h, p) = Null,
           NEW T, S \cap T = {}
    PROVE  Seek(h, p, T) \in {Null, Wild}
<1> DEFINE Z == S \cup {Null, Wild}
<1>1. Null \notin S /\ Wild \notin S
  BY RowsIn
<1>2. \A q \in Z : Target(h, q) = q
  BY RowsIn DEF Target
<1>3. Target(h, p) \in Z /\ \A q \in Z \ (T \cup {Null, Wild}) : Target(h, NextOf(h, q)) \in Z
  BY <1>2
<1> HIDE DEF Z
<1>4. PICK at : /\ StepsFrom(at, h, p, T)
                /\ \A k \in 0 .. Steps : at[k] \in Z
                /\ Seek(h, p, T) = IF at[Steps] \in T \cup {Null, Wild} THEN at[Steps] ELSE Loop
  BY <1>3, SeekSteps
<1> SUFFICES ASSUME Seek(h, p, T) \notin {Null, Wild} PROVE FALSE
  OBVIOUS
<1>5. Steps \in Nat /\ Steps \in 0 .. Steps /\ 0 \in 0 .. Steps
  BY StepsIn
<1>6. at[Steps] \in S
  <2>1. at[Steps] \in Z
    BY <1>4, <1>5
  <2>2. at[Steps] \notin {Null, Wild}
    BY <1>4
  <2> QED
    BY <2>1, <2>2 DEF Z
<1>7. at[0] = p /\ \A k \in 0 .. Steps : k # 0 =>
          at[k] = IF at[k - 1] \in T \cup {Null, Wild} THEN at[k - 1]
                  ELSE Target(h, NextOf(h, at[k - 1]))
  <2>1. at[0] = Target(h, p) /\ \A k \in 0 .. Steps : k # 0 =>
          at[k] = IF at[k - 1] \in T \cup {Null, Wild} THEN at[k - 1]
                  ELSE Target(h, NextOf(h, at[k - 1]))
    BY <1>4, <1>5 DEF StepsFrom
  <2> QED
    BY <1>2, <2>1 DEF Z
<1>8. \A k \in 0 .. Steps : at[k] \in S
  <2> DEFINE Bad == {m \in 0 .. Steps : at[Steps - m] \notin S}
  <2>1. ASSUME Bad # {} PROVE FALSE
    <3>1. PICK m \in Bad : \A j \in Bad : m <= j
      <4>1. Bad \in SUBSET Nat
        BY <1>5
      <4> HIDE DEF Bad
      <4> QED
        BY <2>1, <4>1, LeastNatural
    <3>2. m \in 0 .. Steps /\ at[Steps - m] \notin S
      BY <3>1
    <3>3. m # 0
      BY <1>5, <1>6, <3>2
    <3>4. m - 1 \in 0 .. Steps /\ m - 1 \notin Bad
      BY <1>5, <3>1, <3>2, <3>3
    <3> DEFINE k == Steps - (m - 1)
    <3>5. k \in 0 .. Steps /\ k # 0 /\ k - 1 = Steps - m /\ k - 1 \in 0 .. Steps
      BY <1>5, <3>2, <3>3
    <3>6. at[k] \in S
      BY <3>4
    <3> HIDE DEF k
    <3>7. at[k - 1] \in Z /\ at[k - 1] \notin S
      BY <1>4, <3>2, <3>5
    <3>8. at[k - 1] \in {Null, Wild}
      BY <3>7 DEF Z
    <3>9. at[k] = at[k - 1]
      BY <1>7, <3>5, <3>8
    <3> QED
      BY <3>6, <3>7, <3>9
  <2>2. ASSUME NEW k \in 0 .. Steps PROVE at[k] \in S
    <3>1. Steps - k \in 0 .. Steps /\ Steps - (Steps - k) = k
      BY <1>5
    <3>2. Steps - k \notin Bad
      BY <2>1
    <3> QED
      BY <3>1, <3>2
  <2> QED
    BY <2>2
<1>9. ASSUME NEW k \in 0 .. Steps, k # 0 PROVE k - 1 \in 0 .. Steps /\ PrevOf(h, at[k]) = at[k - 1]
  <2>1. k - 1 \in 0 .. Steps
    BY <1>5, <1>9
  <2>2. at[k] \in S /\ at[k - 1] \in S
    BY <1>8, <2>1
  <2>3. at[k] = Target(h, NextOf(h, at[k - 1]))
    BY <1>1, <1>7, <1>9, <2>2
  <2>4. NextOf(h, at[k - 1]) \in Z
    BY <2>2 DEF Z
  <2>5. at[k] = NextOf(h, at[k - 1])
    BY <1>2, <2>3, <2>4
  <2> QED
    BY <2>1, <2>2, <2>5
<1>10. \E x, y \in 0 .. Steps : x # y /\ at[x] = at[y]
  <2>1. IsFiniteSet(0 .. Steps) /\ Cardinality(0 .. Steps) = Steps + 1
    BY <1>5, FS_Interval
  <2>2. IsFiniteSet(Rows) /\ Cardinality(Rows) = Steps
    <3>1. Rows = 0 .. Steps - 1 /\ Steps - 1 \in Int /\ 0 \in Int
      BY <1>5, StepsIn
    <3>2. IsFiniteSet(0 .. Steps - 1)
          /\ Cardinality(0 .. Steps - 1) = IF 0 > Steps - 1 THEN 0 ELSE (Steps - 1) - 0 + 1
      BY <3>1, FS_Interval
    <3> QED
      BY <1>5, <3>1, <3>2
  <2>3. at \in [0 .. Steps -> Rows]
    <3>1. at = [k \in 0 .. Steps |-> at[k]]
      BY <1>4 DEF StepsFrom
    <3> QED
      BY <1>8, <3>1
  <2>4. Cardinality(Rows) < Cardinality(0 .. Steps)
    BY <1>5, <2>1, <2>2
  <2> DEFINE N == 0 .. Steps
  <2>5. IsFiniteSet(N) /\ at \in [N -> Rows] /\ Cardinality(Rows) < Cardinality(N)
    BY <2>1, <2>3, <2>4
  <2> HIDE DEF N
  <2>6. \E x, y \in N : x # y /\ at[x] = at[y]
    BY <2>2, <2>5, FS_PigeonHole
  <2> QED
    BY <2>6 DEF N
<1> DEFINE Twice == {k \in 0 .. Steps : \E m \in 0 .. Steps : k < m /\ at[m] = at[k]}
<1>11. Twice # {}
  <2>1. PICK x, y \in 0 .. Steps : x # y /\ at[x] = at[y]
    BY <1>10
  <2>2. x < y \/ y < x
    BY <1>5, <2>1
  <2>3. x \in Twice \/ y \in Twice
    BY <2>1, <2>2
  <2> QED
    BY <2>3
<1>12. PICK k \in Twice : \A j \in Twice : k <= j
  <2>1. Twice \in SUBSET Nat
    BY <1>5
  <2> HIDE DEF Twice
  <2> QED
    BY <1>11, <2>1, LeastNatural
<1>13. PICK m \in 0 .. Steps : k < m /\ at[m] = at[k]
  BY <1>12
<1>14. k \in 0 .. Steps /\ m # 0
  BY <1>5, <1>12, <1>13
<1>15. m - 1 \in 0 .. Steps /\ PrevOf(h, at[m]) = at[m - 1] /\ at[m - 1] \in S
  BY <1>8, <1>9, <1>14
<1>16. CASE k = 0
  <2>1. at[m] = p /\ p \in S
    BY <1>7, <1>8, <1>13, <1>14, <1>16
  <2> QED
    BY <1>1, <1>15, <2>1
<1>17. CASE k # 0
  <2>1. k - 1 \in 0 .. Steps /\ PrevOf(h, at[k]) = at[k - 1]
    BY <1>9, <1>14, <1>17
  <2>2. at[m - 1] = at[k - 1] /\ k - 1 < m - 1
    BY <1>5, <1>13, <1>14, <1>15, <2>1
  <2>3. k - 1 \in Twice
    BY <1>15, <2>1, <2>2
  <2> QED
    BY <1>5, <1>12, <1>14, <2>3
<1> QED
  BY <1>16, <1>17

\* In order, the heap has blocks, found by the walk, which the program owns.
Kept(B) == Full(heap, B) /\ Owned(heap, B, grants) /\ Walk[Most] = heap.end /\ Blocks = B

LEMMA SortedKept == ASSUME HeapInv, Sorted PROVE \E B : Kept(B)
<1>1. PICK B : Full(heap, B) /\ Owned(heap, B, grants)
  BY Ordered DEF HeapInv
<1>2. Walk[Most] = heap.end /\ Blocks = B
  BY <1>1, Walked
<1> QED
  BY <1>1, <1>2 DEF Kept

LEMMA SameTags ==
    ASSUME NEW w \in TagWords, NEW v \in TagWords, w.allocated = v.allocated, w.padded = v.padded,
           w.block_size = v.block_size
    PROVE  [w EXCEPT !.requested_size = 0] = [v EXCEPT !.requested_size = 0]
  BY DEF TagWords

LEMMA KeptTiled == ASSUME NEW B, Kept(B) PROVE Tiled
<1>1. Full(heap, B) /\ Walk[Most] = heap.end /\ Blocks = B
  BY DEF Kept
<1>2. heap \in Heaps /\ Tiles(heap, B, 0, heap.end) /\ \A p \in B : TagAt(heap, p) = heap.mem[p]
  BY <1>1, FullIn
<1>3. ASSUME NEW p \in Blocks
      PROVE  LET hdr == TagAt(heap, p)
                 ftr == TagAt(heap, p + hdr.block_size - 1)
             IN  /\ hdr.block_size >= MINSIZE
                 /\ hdr.block_size % ALIGNMENT = 0
                 /\ [hdr EXCEPT !.requested_size = 0] = [ftr EXCEPT !.requested_size = 0]
  <2> DEFINE hdr == TagAt(heap, p)
             ftr == TagAt(heap, p + hdr.block_size - 1)
  <2>1. Block(heap, p) /\ hdr = heap.mem[p]
    BY <1>1, <1>2 DEF Tiles
  <2>2. p + hdr.block_size - 1 = Last(heap, p)
    BY <2>1 DEF Last, Size
  <2> HIDE DEF hdr
  <2>3. Last(heap, p) \in Rows /\ heap.mem[Last(heap, p)] \in TagWords
    BY <2>1 DEF Block
  <2>4. ftr = heap.mem[Last(heap, p)]
    BY <1>2, <2>2, <2>3, TagReads
  <2> HIDE DEF ftr
  <2>5. /\ hdr \in TagWords /\ ftr \in TagWords /\ hdr.block_size >= MINSIZE
        /\ hdr.block_size % ALIGNMENT = 0 /\ ftr.allocated = hdr.allocated
        /\ ftr.padded = hdr.padded /\ ftr.block_size = hdr.block_size
    BY <2>1, <2>4 DEF Block, Size
  <2>6. [hdr EXCEPT !.requested_size = 0] = [ftr EXCEPT !.requested_size = 0]
    BY <2>5, SameTags
  <2> QED
    BY <2>5, <2>6 DEF hdr, ftr
<1> QED
  BY <1>1, <1>3 DEF Tiled

LEMMA KeptHolds ==
    ASSUME NEW B, Kept(B), NEW g \in Live, Granting(grants)
    PROVE  /\ Full(heap, B) /\ g \in Grants /\ grants[g].size \in Nat
           /\ Granted(heap, B, grants[g].ptr, Adjusted(grants[g].size), grants[g].size)
           /\ \A r \in Nat : grants[g].ptr < r /\ r <= grants[g].ptr + grants[g].size =>
                  heap.mem[r] = Data(g)
<1>1. g \in Grants /\ grants[g].size > 0
  BY DEF Live
<1>2. Holding(heap, B, grants[g].ptr, grants[g].size, Data(g))
  BY <1>1 DEF Kept, Owned
<1> QED
  BY <1>1, <1>2 DEF Holding, Kept

LEMMA KeptIntact == ASSUME NEW B, Kept(B), Granting(grants) PROVE LiveDataIntact
<1>1. ASSUME NEW g \in Live, NEW r \in grants[g].ptr + 1 .. grants[g].ptr + grants[g].size
      PROVE  heap.mem[r] = Data(g)
  <2> DEFINE p == grants[g].ptr
             size == grants[g].size
  <2>1. /\ Full(heap, B) /\ size \in Nat /\ Granted(heap, B, p, Adjusted(size), size)
        /\ \A x \in Nat : p < x /\ x <= p + size => heap.mem[x] = Data(g)
    BY KeptHolds
  <2>2. r \in p + 1 .. p + size
    OBVIOUS
  <2> HIDE DEF p, size
  <2>3. p \in Nat
    BY <2>1, GrantedIn
  <2>4. r \in Nat /\ p < r /\ r <= p + size
    BY <2>1, <2>2, <2>3
  <2> QED
    BY <2>1, <2>4
<1> QED
  BY <1>1 DEF LiveDataIntact, RegionsAreValid

LEMMA KeptAccepted == ASSUME NEW B, Kept(B), Granting(grants) PROVE LivePointersAccepted
<1>1. ASSUME NEW g \in Live, Rejected(heap, grants[g].ptr)
      PROVE  TagAt(heap, grants[g].ptr).block_size > Adjusted(grants[g].size)
  <2> DEFINE p == grants[g].ptr
             a == Adjusted(grants[g].size)
  <2>1. Full(heap, B) /\ Granted(heap, B, p, a, grants[g].size) /\ a \in Nat
    BY KeptHolds, AdjustedIn
  <2>2. Rejected(heap, p)
    BY <1>1
  <2> HIDE DEF p, a
  <2>3. /\ TagAt(heap, p).block_size = Size(heap, p) /\ Size(heap, p) \in Nat
        /\ a <= Size(heap, p) /\ Size(heap, p) # a
    <3>1. TagAt(heap, p) = heap.mem[p] /\ Size(heap, p) \in Nat /\ a <= Size(heap, p) /\ Size(heap, p) # a
      BY <2>1, <2>2, GrantedIn
    <3> QED
      BY <3>1 DEF Size
  <2>4. TagAt(heap, p).block_size > a
    BY <2>1, <2>3
  <2> QED
    BY <2>4 DEF p, a
<1> QED
  BY <1>1 DEF LivePointersAccepted

LEMMA KeptGranted == ASSUME NEW B, Kept(B), Granting(grants) PROVE AllocatedAreGranted
<1>1. Full(heap, B) /\ Owned(heap, B, grants) /\ Blocks = B
  BY DEF Kept
<1>2. \A p \in B : TagAt(heap, p) = heap.mem[p]
  BY <1>1, FullIn
<1>3. ASSUME NEW g \in Live
      PROVE  /\ Requested(heap, grants[g].ptr) = grants[g].size
             /\ grants[g].ptr \in B /\ heap.mem[grants[g].ptr].allocated = 1
  <2>1. /\ Full(heap, B)
        /\ Granted(heap, B, grants[g].ptr, Adjusted(grants[g].size), grants[g].size)
    BY KeptHolds
  <2> QED
    BY <2>1, GrantedIn
<1>4. ASSUME NEW p \in B, heap.mem[p].allocated = 1 PROVE \E g \in Live : grants[g].ptr = p
  BY <1>1, <1>4 DEF Owned, Live
<1>5. {p \in Blocks : TagAt(heap, p).allocated = 1} = {grants[g].ptr : g \in Live}
  BY <1>1, <1>2, <1>3, <1>4
<1> QED
  BY <1>3, <1>5 DEF AllocatedAreGranted

LEMMA KeptListed == ASSUME NEW B, Kept(B) PROVE ListedAreFree
<1> DEFINE F == FreeIn(heap, B)
           c == Classes(heap)
<1>1. Full(heap, B) /\ Blocks = B
  BY DEF Kept
<1>2. /\ Linked(heap, F, c) /\ Tagged(heap, F) /\ F \subseteq B
      /\ \A p \in B : TagAt(heap, p) = heap.mem[p] /\ p \in Rows /\ c[p] = ListIndex(Size(heap, p))
  BY <1>1, FullIn
<1>3. ASSUME NEW i \in Lists
      PROVE  Seek(heap, heap.head[i],
                  Rows \ {p \in Blocks : /\ TagAt(heap, p).allocated = 0
                                         /\ ListIndex(TagAt(heap, p).block_size) = i})
               \in {Null, Wild}
  <2> DEFINE S == {p \in Blocks : /\ TagAt(heap, p).allocated = 0
                                  /\ ListIndex(TagAt(heap, p).block_size) = i}
             T == Rows \ S
             p == heap.head[i]
  <2>1. \A q : q \in S <=> q \in F /\ c[q] = i
    BY <1>1, <1>2 DEF FreeIn, Size
  <2> HIDE DEF S, F, c
  <2>2. S \subseteq Rows /\ \A q \in S : IsTag(heap.mem[q])
    BY <1>2, <2>1 DEF Tagged
  <2>3. /\ \A q \in S : NextOf(heap, q) \in S \cup {Null, Wild}
        /\ \A q \in S : NextOf(heap, q) \in S => PrevOf(heap, NextOf(heap, q)) = q
    BY <1>2, <2>1 DEF Linked, Neighbours
  <2>4. p \in S \cup {Null} /\ (p \in S => PrevOf(heap, p) = Null)
    BY <1>2, <2>1 DEF Linked, Headed
  <2>5. S \cap T = {}
    OBVIOUS
  <2> HIDE DEF T, p
  <2>6. Seek(heap, p, T) \in {Null, Wild}
    BY <2>2, <2>3, <2>4, <2>5, SeekEnds
  <2> QED
    BY <2>6 DEF S, T, p
<1> QED
  BY <1>3 DEF ListedAreFree

LEMMA HeapInvGives ==
    ASSUME HeapInv
    PROVE  Tiled /\ LiveDataIntact /\ AllocatedAreGranted /\ ListedAreFree /\ LivePointersAccepted
<1>1. CASE ~Sorted
  BY <1>1 DEF Tiled, LiveDataIntact, AllocatedAreGranted, ListedAreFree, LivePointersAccepted
<1>2. CASE Sorted
  <2>1. PICK B : Kept(B)
    BY <1>2, SortedKept
  <2>2. Granting(grants)
    BY DEF HeapInv
  <2> QED
    BY <2>1, <2>2, KeptTiled, KeptIntact, KeptGranted, KeptListed, KeptAccepted
<1> QED
  BY <1>1, <1>2

\* After any sequence of calls the blocks tile the heap, each footer repeating
\* what its header says.
THEOREM TiledCorrect == Spec => []Tiled
  BY HeapInvCorrect, HeapInvGives, PTL

\* What the program wrote to a block it has not freed is still there, after any
\* calls for other blocks and any sf_realloc of this one.
THEOREM LiveDataIntactCorrect == Spec => []LiveDataIntact
  BY HeapInvCorrect, HeapInvGives, PTL

\* The allocated blocks are those the program has, and record their requests.
THEOREM AllocatedAreGrantedCorrect == Spec => []AllocatedAreGranted
  BY HeapInvCorrect, HeapInvGives, PTL

\* Each list leads, to its end, to free blocks of its size class only.
THEOREM ListedAreFreeCorrect == Spec => []ListedAreFree
  BY HeapInvCorrect, HeapInvGives, PTL

\* sf_free and sf_realloc reject a granted pointer only if a splinter was left in
\* its block.
THEOREM LivePointersAcceptedCorrect == Spec => []LivePointersAccepted
  BY HeapInvCorrect, HeapInvGives, PTL
-----------------------------------------------------------------------------
(* What was freed is found again *)

LEMMA ClassGrows ==
    ASSUME NEW m \in Nat, NEW n \in Nat, MINSIZE <= m, m <= n
    PROVE  ListIndex(m) <= ListIndex(n)
<1>1. /\ LIST_1_MAX \in Nat /\ LIST_2_MAX \in Nat /\ LIST_3_MAX \in Nat
      /\ MINSIZE <= LIST_1_MAX /\ LIST_1_MAX < LIST_2_MAX /\ LIST_2_MAX < LIST_3_MAX
  BY ListsAssumption
<1>2. ASSUME NEW k \in Nat, MINSIZE <= k
      PROVE  ListIndex(k) = IF k <= LIST_1_MAX THEN 1 ELSE IF k <= LIST_2_MAX THEN 2
                            ELSE IF k <= LIST_3_MAX THEN 3 ELSE 4
  <2>1. MINSIZE \in Nat
    BY DEF MINSIZE
  <2>2. /\ k \in MINSIZE .. LIST_1_MAX <=> k <= LIST_1_MAX
        /\ k \in LIST_1_MAX + 1 .. LIST_2_MAX <=> (LIST_1_MAX < k /\ k <= LIST_2_MAX)
        /\ k \in LIST_2_MAX + 1 .. LIST_3_MAX <=> (LIST_2_MAX < k /\ k <= LIST_3_MAX)
    BY <1>1, <1>2, <2>1
  <2>3. CASE k <= LIST_1_MAX
    <3>1. k \in MINSIZE .. LIST_1_MAX /\ k \notin LIST_1_MAX + 1 .. LIST_2_MAX
          /\ k \notin LIST_2_MAX + 1 .. LIST_3_MAX
      BY <1>1, <2>2, <2>3
    <3> QED
      BY <2>3, <3>1, Zenon DEF ListIndex
  <2>4. CASE LIST_1_MAX < k /\ k <= LIST_2_MAX
    <3>1. k \notin MINSIZE .. LIST_1_MAX /\ k \in LIST_1_MAX + 1 .. LIST_2_MAX
          /\ k \notin LIST_2_MAX + 1 .. LIST_3_MAX /\ ~(k <= LIST_1_MAX)
      BY <1>1, <2>2, <2>4
    <3> QED
      BY <2>4, <3>1, Zenon DEF ListIndex
  <2>5. CASE LIST_2_MAX < k /\ k <= LIST_3_MAX
    <3>1. k \notin MINSIZE .. LIST_1_MAX /\ k \notin LIST_1_MAX + 1 .. LIST_2_MAX
          /\ k \in LIST_2_MAX + 1 .. LIST_3_MAX /\ ~(k <= LIST_1_MAX) /\ ~(k <= LIST_2_MAX)
      BY <1>1, <2>2, <2>5
    <3> QED
      BY <2>5, <3>1, Zenon DEF ListIndex
  <2>6. CASE LIST_3_MAX < k
    <3>1. k \notin MINSIZE .. LIST_1_MAX /\ k \notin LIST_1_MAX + 1 .. LIST_2_MAX
          /\ k \notin LIST_2_MAX + 1 .. LIST_3_MAX
          /\ ~(k <= LIST_1_MAX) /\ ~(k <= LIST_2_MAX) /\ ~(k <= LIST_3_MAX)
      BY <1>1, <2>2, <2>6
    <3> QED
      BY <3>1, Zenon DEF ListIndex
  <2> QED
    BY <1>1, <2>3, <2>4, <2>5, <2>6
<1>3. MINSIZE <= n
  BY DEF MINSIZE
<1> QED
  BY <1>1, <1>2, <1>3

\* The first block of a list that is large enough, or one in a list before it, or
\* a lost way there: in any case find_fit does not answer NULL.
LEMMA LeadsFound ==
    ASSUME NEW h, NEW p, NEW s, Leads(h, p, s), s \in Nat, NEW asize \in Nat,
           MINSIZE <= asize, asize <= s
    PROVE  FindFit(h, asize) # Null
<1> DEFINE n == Size(h, p)
           i == ListIndex(n)
           fits == {q \in Rows : TagAt(h, q).block_size >= asize}
           found == [j \in ListIndex(asize) .. 4 |-> Seek(h, h.head[j], fits)]
           hits == {j \in DOMAIN found : found[j] # Null}
           least == CHOOSE j \in hits : \A k \in hits : j <= k
<1>1. p \in Rows /\ IsTag(h.mem[p]) /\ n \in Nat /\ n >= s /\ h.head[i] = p
  BY DEF Leads
<1>2. p \in fits
  <2>1. TagAt(h, p) = h.mem[p]
    BY <1>1 DEF TagAt
  <2> QED
    BY <1>1, <2>1 DEF Size
<1>3. i \in ListIndex(asize) .. 4 /\ ListIndex(asize) .. 4 \subseteq Nat
  <2> HIDE DEF n
  <2>1. ListIndex(asize) <= i /\ ListIndex(asize) \in Lists /\ i \in Lists
    BY <1>1, ClassIn, ClassGrows
  <2> HIDE DEF i
  <2> QED
    BY <2>1 DEF Lists
<1>4. Seek(h, p, fits) = p
  <2> HIDE DEF fits
  <2>1. Target(h, p) = p
    BY <1>1 DEF Target
  <2>2. Target(h, p) \in {p} /\ \A q \in {p} \ (fits \cup {Null, Wild}) : Target(h, NextOf(h, q)) \in {p}
    BY <1>2, <2>1
  <2>3. PICK at : /\ StepsFrom(at, h, p, fits)
                  /\ \A k \in 0 .. Steps : at[k] \in {p}
                  /\ Seek(h, p, fits) = IF at[Steps] \in fits \cup {Null, Wild}
                                        THEN at[Steps] ELSE Loop
    BY <2>2, SeekSteps
  <2>4. Steps \in 0 .. Steps
    BY StepsIn
  <2> QED
    BY <1>2, <2>3, <2>4
<1>5. i \in hits /\ hits \subseteq Nat
  <2> HIDE DEF i, fits
  <2>1. found[i] = p
    BY <1>1, <1>3, <1>4
  <2>2. p # Null
    BY <1>1, RowsIn
  <2> QED
    BY <1>3, <2>1, <2>2
<1>6. FindFit(h, asize) = found[least] /\ found[least] # Null
  <2>1. FindFit(h, asize) = IF hits = {} THEN Null ELSE found[least]
    BY DEF FindFit
  <2> HIDE DEF found, i
  <2>2. least \in hits
    <3> HIDE DEF hits
    <3>1. \E j \in hits : \A k \in hits : j <= k
      BY <1>5, LeastNatural
    <3> QED
      BY <3>1
  <2>3. found[least] # Null
    BY <2>2
  <2> QED
    BY <1>5, <2>1, <2>3
<1> QED
  BY <1>6

\* sf_realloc to nothing is sf_free.
LEMMA ReallocNothing ==
    ASSUME NEW h, NEW B, Full(h, B), NEW p, NEW old, NEW d, Holding(h, B, p, old, d)
    PROVE  /\ Realloc(h, p, 0).block = Null
           /\ Realloc(h, p, 0).heap.fault = "none" => Realloc(h, p, 0).heap = Free(h, p)
<1>1. Requested(h, p) = old /\ old \in Nat
  BY GrantedIn DEF Holding
<1>2. CASE Rejected(h, p)
  <2>1. Realloc(h, p, 0) = Stop(h, "abort")
    BY <1>2, Zenon DEF Realloc
  <2>2. Rec(h)
    BY FullIn, HeapFields
  <2> QED
    BY <2>1, <2>2, StopFault DEF Stop, Answer
<1>3. CASE ~Rejected(h, p)
  <2>1. ~(0 > Requested(h, p)) /\ 0 \notin 1 .. Requested(h, p) - 1
    BY <1>1
  <2>2. Realloc(h, p, 0) = Answer(Free(h, p), Null, "none")
    BY <1>3, <2>1, Zenon DEF Realloc
  <2> QED
    BY <2>2 DEF Answer
<1> QED
  BY <1>2, <1>3

\* A step that takes back what was granted to g is a call of sf_free, under
\* whatever name.
LEMMA FreedBy ==
    ASSUME HeapInv, Orderly(heap), Next, NEW g \in Live, grants'[g].size = 0, heap'.fault = "none"
    PROVE  heap' = Free(heap, grants[g].ptr)
<1>1. Granting(grants) /\ g \in Grants /\ grants[g].size \in Nat /\ grants[g].size > 0
  BY DEF HeapInv, Live, Granting
<1>2. ASSUME NEW f \in Grants, SfFree(f) PROVE heap' = Free(heap, grants[g].ptr)
  <2>1. heap' = Free(heap, grants[f].ptr) /\ grants' = [grants EXCEPT ![f] = [ptr |-> Null, size |-> 0]]
    BY <1>2 DEF SfFree
  <2>2. f = g
    BY <1>1, <2>1 DEF Granting
  <2> QED
    BY <2>1, <2>2
<1>3. ASSUME NEW f \in Grants, NEW size \in Nat, NEW a, NEW kept, Take(f, size, a, kept)
      PROVE  f = g /\ size = 0 /\ (a.block = Null => heap' = a.heap)
  <2>1. /\ heap' = IF a.block = Null THEN a.heap ELSE Write(a.heap, f, a.block, kept + 1, size)
        /\ grants' = CASE a.block # Null -> [grants EXCEPT ![f] = [ptr |-> a.block, size |-> size]]
                       [] a.block = Null /\ size = 0 -> [grants EXCEPT ![f] = [ptr |-> Null, size |-> 0]]
                       [] OTHER -> grants
    BY <1>3 DEF Take
  <2>2. \/ grants' = [grants EXCEPT ![f] = [ptr |-> a.block, size |-> size]]
        \/ size = 0 /\ grants' = [grants EXCEPT ![f] = [ptr |-> Null, size |-> 0]]
        \/ grants' = grants
    BY <2>1
  <2>3. f = g /\ size = 0
    BY <1>1, <2>2 DEF Granting
  <2> QED
    BY <2>1, <2>3
<1>4. ASSUME NEW f \in Grants, NEW size \in Sizes, SfMalloc(f, size) PROVE FALSE
  <2>1. Take(f, size, Malloc(heap, size), 0) /\ grants[f].size = 0 /\ size \in Nat
    BY <1>4, BoundsAssumption DEF SfMalloc, Unused
  <2>2. f = g
    BY <1>3, <2>1
  <2> QED
    BY <1>1, <2>1, <2>2
<1>5. ASSUME NEW f \in Grants, NEW size \in Sizes, SfRealloc(f, size)
      PROVE  heap' = Free(heap, grants[g].ptr)
  <2> DEFINE a == Realloc(heap, grants[f].ptr, size)
  <2>1. Take(f, size, a, grants[f].size) /\ size \in Nat
    BY <1>5, BoundsAssumption DEF SfRealloc
  <2> HIDE DEF a
  <2>2. f = g /\ size = 0 /\ (a.block = Null => heap' = a.heap)
    BY <1>3, <2>1
  <2>3. PICK B : Full(heap, B) /\ Owned(heap, B, grants)
    BY DEF HeapInv
  <2>4. Holding(heap, B, grants[g].ptr, grants[g].size, Data(g))
    BY <1>1, <2>3 DEF Owned
  <2>5. a = Realloc(heap, grants[g].ptr, 0)
    BY <2>2 DEF a
  <2>6. a.block = Null /\ (a.heap.fault = "none" => a.heap = Free(heap, grants[g].ptr))
    BY <2>3, <2>4, <2>5, ReallocNothing
  <2> QED
    BY <2>2, <2>6
<1> QED
  BY <1>2, <1>4, <1>5 DEF Next

\* FreedIsReused, as long as the lists are not in disorder.
FreedLeads ==
    heap'.disordered # TRUE =>
        \A g \in Live : grants'[g].size = 0 /\ heap'.fault = "none" =>
            FindFit(heap', Adjusted(grants[g].size)) # Null

\* What sf_free or sf_realloc takes back is at the head of a list where find_fit
\* comes to it, if to nothing before: the next request for as much needs no page.
THEOREM FreedIsFoundAgain == Spec => [][FreedLeads]_vars
<1>1. HeapInv /\ [Next]_vars => [FreedLeads]_vars
  <2> SUFFICES ASSUME HeapInv, Next, heap'.disordered # TRUE,
                      NEW g \in Live, grants'[g].size = 0, heap'.fault = "none"
               PROVE  FindFit(heap', Adjusted(grants[g].size)) # Null
    BY DEF FreedLeads
  <2>1. Rec(heap) /\ Growth(heap, heap') /\ g \in Grants /\ grants[g].size \in Nat /\ grants[g].size > 0
    BY StepGrowth DEF HeapInv, Live, Granting
  <2>2. heap.fault = "none"
    BY DEF Next, SfMalloc, SfRealloc, SfFree, Call
  <2>3. Orderly(heap)
    BY <2>1, <2>2 DEF Growth, Orderly
  <2>4. heap' = Free(heap, grants[g].ptr)
    BY <2>3, FreedBy
  <2>5. PICK B : Full(heap, B) /\ Owned(heap, B, grants)
    BY <2>3 DEF HeapInv
  <2>6. Holding(heap, B, grants[g].ptr, grants[g].size, Data(g))
    BY <2>1, <2>5 DEF Owned
  <2>7. /\ grants[g].ptr \in B /\ heap.mem[grants[g].ptr].allocated = 1
        /\ Size(heap, grants[g].ptr) \in Nat
        /\ Adjusted(grants[g].size) <= Size(heap, grants[g].ptr)
    BY <2>5, <2>6, GrantedIn DEF Holding
  <2>8. Leads(heap', grants[g].ptr, Size(heap, grants[g].ptr))
    BY <2>4, <2>5, <2>7, FreeFull
  <2>9. Adjusted(grants[g].size) \in Nat /\ MINSIZE <= Adjusted(grants[g].size)
    BY <2>1, AdjustedIn DEF MINSIZE
  <2> QED
    BY <2>7, <2>8, <2>9, LeadsFound
<1> QED
  BY <1>1, HeapInvCorrect, PTL DEF Spec

-----------------------------------------------------------------------------
(* Types.  In a heap in disorder even the head of a list may lead outside the *)
(* memory, when the call that made it so has faulted.                         *)

Errors == {"none", "EINVAL", "ENOMEM"}

Ledger ==
    /\ grants = [g \in Grants |-> grants[g]]
    /\ \A g \in Grants : /\ grants[g] = [ptr |-> grants[g].ptr, size |-> grants[g].size]
                         /\ grants[g].size \in Sizes \cup {0}
                         /\ grants[g].size = 0 => grants[g].ptr = Null
    /\ sf_errno \in Errors
    /\ calls \in 0 .. Calls

LEMMA MallocAnswers ==
    ASSUME NEW h, NEW size
    PROVE  Malloc(h, size).errno \in Errors /\ (size = 0 => Malloc(h, size).block = Null)
<1>1. ASSUME NEW k, NEW a PROVE Extend(k, a, size).errno \in Errors
  BY DEF Extend, Answer, Errors
<1>2. ASSUME NEW a, NEW fit PROVE Satisfy(h, a, size, fit).errno \in Errors
  <2>1. \/ Satisfy(h, a, size, fit) \in {Stop(h, "wild"), Stop(h, "loop")}
        \/ Satisfy(h, a, size, fit) = Extend(Grow(h, a \div PAGE_SZ), a, size)
        \/ Satisfy(h, a, size, fit) = Answer(Place(h, fit, a, size), fit, "none")
    BY SMT DEF Satisfy
  <2>2. \A f : Stop(h, f).errno \in Errors
    BY DEF Stop, Answer, Errors
  <2>3. Answer(Place(h, fit, a, size), fit, "none").errno \in Errors
    BY DEF Answer, Errors
  <2> QED
    BY <1>1, <2>1, <2>2, <2>3
<1>3. Answer(h, Null, "EINVAL").errno \in Errors /\ Answer(h, Null, "EINVAL").block = Null
  BY DEF Answer, Errors
<1>4. CASE size \in 1 .. 4 * PAGE_SZ
  <2>1. Malloc(h, size) = Satisfy(h, Adjusted(size), size, FindFit(h, Adjusted(size)))
    BY <1>4 DEF Malloc
  <2>2. size # 0
    BY <1>4
  <2> QED
    BY <1>2, <2>1, <2>2
<1>5. CASE size \notin 1 .. 4 * PAGE_SZ
  <2>1. Malloc(h, size) = Answer(h, Null, "EINVAL")
    BY <1>5 DEF Malloc
  <2> QED
    BY <1>3, <2>1
<1> QED
  BY <1>4, <1>5

LEMMA ReallocAnswers ==
    ASSUME NEW h, NEW p, NEW size
    PROVE  Realloc(h, p, size).errno \in Errors /\ (size = 0 => Realloc(h, p, size).block = Null)
<1> DEFINE a == Realloc(h, p, size)
           new == Malloc(h, size)
<1>1. \/ a = Stop(h, "abort")
      \/ a = Answer(Free(h, p), Null, "none")
      \/ a = Carry(p, Footer(h, p), new)
      \/ size \in 1 .. Requested(h, p) - 1 /\ a = Answer(Shrink(h, p, size), p, "none")
      \/ a = Answer(h, Null, "none")
  BY SMT DEF Realloc
<1>2. Stop(h, "abort").errno \in Errors /\ Stop(h, "abort").block = Null
  BY DEF Stop, Answer, Errors
<1>3. \A k, q : Answer(k, q, "none").errno \in Errors /\ Answer(k, q, "none").block = q
  BY DEF Answer, Errors
<1>4. new.errno \in Errors /\ (size = 0 => new.block = Null)
  BY MallocAnswers
<1>5. size \in 1 .. Requested(h, p) - 1 => size # 0
  OBVIOUS
<1> HIDE DEF new
<1>6. \/ new.block = Null /\ Carry(p, Footer(h, p), new) = new
      \/ new.block # Null /\ \E k : Carry(p, Footer(h, p), new) = Answer(k, new.block, "none")
  BY DEF Carry
<1>7. /\ Carry(p, Footer(h, p), new).errno \in Errors
      /\ size = 0 => Carry(p, Footer(h, p), new).block = Null
  BY <1>3, <1>4, <1>6
<1> HIDE DEF a
<1>8. a.errno \in Errors /\ (size = 0 => a.block = Null)
  BY <1>1, <1>2, <1>3, <1>5, <1>7
<1> QED
  BY <1>8 DEF a

LEMMA TakeLedger ==
    ASSUME Ledger, NEW g \in Grants, NEW size \in Sizes, NEW a, NEW kept, Take(g, size, a, kept),
           a.errno \in Errors, size = 0 => a.block = Null, calls' \in 0 .. Calls
    PROVE  Ledger'
<1>1. sf_errno' \in Errors
  BY DEF Take, Ledger
<1>2. \/ size # 0 /\ grants' = [grants EXCEPT ![g] = [ptr |-> a.block, size |-> size]]
      \/ grants' = [grants EXCEPT ![g] = [ptr |-> Null, size |-> 0]]
      \/ grants' = grants
  BY DEF Take
<1> QED
  BY <1>1, <1>2 DEF Ledger

LEMMA StepLedger == ASSUME Ledger, [Next]_vars PROVE Ledger'
<1>1. CASE UNCHANGED vars
  BY <1>1 DEF Ledger, vars
<1>2. ASSUME Call PROVE calls' \in 0 .. Calls
  BY <1>2, BoundsAssumption DEF Call, Ledger
<1>3. ASSUME NEW g \in Grants, NEW size \in Sizes, SfMalloc(g, size) PROVE Ledger'
  <2>1. Call /\ Take(g, size, Malloc(heap, size), 0)
    BY <1>3 DEF SfMalloc
  <2> QED
    BY <1>2, <2>1, MallocAnswers, TakeLedger
<1>4. ASSUME NEW g \in Grants, NEW size \in Sizes, SfRealloc(g, size) PROVE Ledger'
  <2>1. Call /\ Take(g, size, Realloc(heap, grants[g].ptr, size), grants[g].size)
    BY <1>4 DEF SfRealloc
  <2> QED
    BY <1>2, <2>1, ReallocAnswers, TakeLedger
<1>5. ASSUME NEW g \in Grants, SfFree(g) PROVE Ledger'
  <2>1. /\ calls' \in 0 .. Calls /\ sf_errno' = sf_errno
        /\ grants' = [grants EXCEPT ![g] = [ptr |-> Null, size |-> 0]]
    BY <1>2, <1>5 DEF SfFree
  <2> QED
    BY <2>1 DEF Ledger
<1> QED
  BY <1>1, <1>3, <1>4, <1>5 DEF Next

LEMMA LedgerCorrect == Spec => []Ledger
<1>1. Init => Ledger
  BY BoundsAssumption DEF Init, Ledger, Errors
<1> QED
  BY <1>1, StepLedger, PTL DEF Spec

LEMMA Typed == ASSUME HeapInv, Ledger, Sorted PROVE TypeOK
<1>1. PICK B : Full(heap, B) /\ Owned(heap, B, grants)
  BY DEF HeapInv, Sorted, Running, Orderly
<1>2. /\ heap \in Heaps /\ heap.end \in PageEnds /\ B \subseteq Rows
  BY <1>1, FullIn
<1>3. \A w \in Words : IsTag(w) \/ IsLink(w) \/ w \in {Data(g) : g \in Grants}
  <2>1. \A w \in DataWords : \E g \in Grants : w = Data(g)
    BY DEF DataWords, Data
  <2> QED
    BY <2>1, WordKinds DEF Words
<1>4. ASSUME NEW g \in Grants
      PROVE  grants[g] \in [ptr : Rows \cup {Null}, size : Sizes \cup {0}]
  <2>1. grants[g].size \in Nat
    BY DEF HeapInv, Granting
  <2>2. CASE grants[g].size > 0
    <3>1. Holding(heap, B, grants[g].ptr, grants[g].size, Data(g))
      BY <1>1, <2>2 DEF Owned
    <3>2. grants[g].ptr \in Rows
      BY <1>2, <3>1 DEF Holding, Granted
    <3> QED
      BY <3>2 DEF Ledger
  <2>3. CASE grants[g].size = 0
    BY <2>3 DEF Ledger
  <2> QED
    BY <2>1, <2>2, <2>3
<1>5. grants \in [Grants -> [ptr : Rows \cup {Null}, size : Sizes \cup {0}]]
  BY <1>4 DEF Ledger
<1>6. heap.mem \in [Rows -> Words] /\ heap.head \in [Lists -> Rows \cup {Null}]
      /\ heap.fault \in {"none", "wild", "loop", "abort"} /\ heap.disordered \in BOOLEAN
  BY <1>2 DEF Heaps
<1>7. heap.end \in {k * PAGE_SZ : k \in 0 .. Pages}
  BY <1>2 DEF PageEnds
<1>8. sf_errno \in {"none", "EINVAL", "ENOMEM"} /\ calls \in 0 .. Calls
  BY DEF Ledger, Errors
<1> QED
  BY <1>3, <1>5, <1>6, <1>7, <1>8 DEF TypeOK

\* Every variable keeps its type, as long as the lists are not in disorder.
THEOREM HeapTypeCorrect == Spec => [](Sorted => TypeOK)
  BY HeapInvCorrect, LedgerCorrect, Typed, PTL
=============================================================================
