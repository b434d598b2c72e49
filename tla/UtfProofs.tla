------------------------------- MODULE UtfProofs -------------------------------
(***************************************************************************)
(* What the converter's functions on single glyphs compute, for every code *)
(* point: the encodings of the standard, and back again; and what the      *)
(* converter does with a whole file, for any texts, any damage at their    *)
(* ends, any arguments and anything an uninitialised buffer can hold.      *)
(***************************************************************************)
EXTENDS UtfProps, FiniteSetTheorems, WellFoundedInduction, TLAPS

\* A code point is below 2^21: the leading byte of four has room for its three
\* highest bits.
LEMMA Bits ==
    ASSUME NEW cp \in CodePoints
    PROVE  cp \in Nat /\ (cp \div 4096) \div 64 \in 0 .. 7
  BY SMT DEF CodePoints

\* The bytes of the four sizes of glyphs.
One(cp)   == <<cp>>
Two(cp)   == <<192 + (cp \div 64), 128 + (cp % 64)>>
Three(cp) == <<224 + (cp \div 4096), 128 + ((cp \div 64) % 64), 128 + (cp % 64)>>
Four(cp)  == <<240 + ((cp \div 4096) \div 64), 128 + ((cp \div 4096) % 64),
               128 + ((cp \div 64) % 64), 128 + (cp % 64)>>
Bytewise(cp) ==
    IF cp <= 127 THEN One(cp) ELSE IF cp <= 2047 THEN Two(cp)
    ELSE IF cp <= 65535 THEN Three(cp) ELSE Four(cp)

\* What code_point_to_utf8_glyph writes, byte by byte.
LEMMA GlyphBytewise ==
    ASSUME NEW cp \in CodePoints
    PROVE  Utf8Glyph(cp) = Bytewise(cp)
<1>1. CASE cp <= 127
  BY SMT, Bits, <1>1 DEF Utf8Glyph, Utf8Size, Bytewise, One
<1>2. CASE cp > 127 /\ cp <= 2047
  BY SMT, Bits, <1>2 DEF Utf8Glyph, Utf8Size, Continued, Bytewise, Two
<1>3. CASE cp > 2047 /\ cp <= 65535
  BY SMT, Bits, <1>3 DEF Utf8Glyph, Utf8Size, Continued, Bytewise, Three
<1>4. CASE cp > 65535
  BY SMT, Bits, <1>4 DEF Utf8Glyph, Utf8Size, Continued, Bytewise, Four
<1>. QED
  BY SMT, Bits, <1>1, <1>2, <1>3, <1>4

\* What the standard asks for, byte by byte.
LEMMA StandardBytewise ==
    ASSUME NEW cp \in CodePoints
    PROVE  Utf8(cp) = Bytewise(cp)
<1>1. CASE cp <= 127
  <2>1. Utf8(cp) = Utf8Bytes(cp, 1) /\ Bytewise(cp) = One(cp)
    BY SMT, Bits, <1>1 DEF Utf8, Bytewise
  <2>. QED
    BY SMT, Bits, <2>1 DEF Utf8Bytes, Shifted, One
<1>2. CASE cp > 127 /\ cp <= 2047
  <2>1. Utf8(cp) = Utf8Bytes(cp, 2) /\ Bytewise(cp) = Two(cp)
    BY SMT, Bits, <1>2 DEF Utf8, Bytewise
  <2>. QED
    BY SMT, Bits, <2>1 DEF Utf8Bytes, Shifted, Two
<1>3. CASE cp > 2047 /\ cp <= 65535
  <2>1. Utf8(cp) = Utf8Bytes(cp, 3) /\ Bytewise(cp) = Three(cp)
    BY SMT, Bits, <1>3 DEF Utf8, Bytewise
  <2>. QED
    BY SMT, Bits, <2>1 DEF Utf8Bytes, Shifted, Three
<1>4. CASE cp > 65535
  <2>1. Utf8(cp) = Utf8Bytes(cp, 4) /\ Bytewise(cp) = Four(cp)
    BY SMT, Bits, <1>4 DEF Utf8, Bytewise
  <2>. QED
    BY SMT, Bits, <2>1 DEF Utf8Bytes, Shifted, Four
<1>. QED
  BY SMT, Bits, <1>1, <1>2, <1>3, <1>4

\* code_point_to_utf8_glyph writes the glyph that the standard defines.
THEOREM Utf8GlyphIsStandard ==
    ASSUME NEW cp \in CodePoints
    PROVE  Utf8Glyph(cp) = Utf8(cp)
  BY SMT, GlyphBytewise, StandardBytewise

\* Cutting the bits out of a continued byte and out of the leading bytes.
LEMMA BitsOut ==
    /\ \A x \in 0 .. 63 : (128 + x) % 64 = x
    /\ \A x \in 0 .. 31 : (192 + x) % 32 = x /\ Remaining(192 + x) = 1
    /\ \A x \in 0 .. 15 : (224 + x) % 16 = x /\ Remaining(224 + x) = 2
    /\ \A x \in 0 .. 7 : (240 + x) % 8 = x /\ Remaining(240 + x) = 3
    /\ \A x \in 0 .. 127 : Remaining(x) = 0
  BY SMT DEF Remaining

\* A number is put together again from what a shift keeps and what it drops.
LEMMA Together ==
    ASSUME NEW cp \in Nat
    PROVE  /\ (cp \div 64) * 64 + (cp % 64) = cp
           /\ (cp \div 4096) * 4096 + ((cp \div 64) % 64) * 64 + (cp % 64) = cp
           /\ (((cp \div 4096) \div 64) * 64) * 4096 + ((cp \div 4096) % 64) * 4096
                + ((cp \div 64) % 64) * 64 + (cp % 64) = cp
           /\ cp % 64 \in 0 .. 63 /\ (cp \div 64) % 64 \in 0 .. 63 /\ (cp \div 4096) % 64 \in 0 .. 63
<1>1. \A n \in Nat : (n \div 64) * 64 + (n % 64) = n /\ n % 64 \in 0 .. 63
  BY SMT
<1>2. cp \div 4096 = (cp \div 64) \div 64
  BY SMT
<1>3. cp \div 64 \in Nat /\ cp \div 4096 \in Nat
  BY SMT
<1>. QED
  BY SMT, <1>1, <1>2, <1>3

\* Decoding takes back what encoding wrote: from the first byte
\* remaining_utf8_bytes tells how many follow, and from all of them the decoding
\* function puts the code point together again.
THEOREM Utf8RoundTrip ==
    ASSUME NEW cp \in CodePoints
    PROVE  /\ Remaining(Utf8Glyph(cp)[1]) + 1 = Len(Utf8Glyph(cp))
           /\ Utf8CodePoint(Utf8Glyph(cp), Len(Utf8Glyph(cp))) = cp
<1>. SUFFICES /\ Remaining(Bytewise(cp)[1]) + 1 = Len(Bytewise(cp))
              /\ Utf8CodePoint(Bytewise(cp), Len(Bytewise(cp))) = cp
  BY SMT, GlyphBytewise
<1>1. CASE cp <= 127
  BY SMT, Bits, BitsOut, <1>1 DEF Bytewise, One, Utf8CodePoint
<1>2. CASE cp > 127 /\ cp <= 2047
  <2>1. cp \div 64 \in 0 .. 31 /\ cp % 64 \in 0 .. 63
    BY SMT, Bits, <1>2
  <2>2. Bytewise(cp) = Two(cp)
    BY SMT, Bits, <1>2 DEF Bytewise
  <2>3. Utf8CodePoint(Two(cp), 2) = (cp \div 64) * 64 + (cp % 64)
    BY SMT, <2>1, BitsOut DEF Two, Utf8CodePoint
  <2>4. Len(Two(cp)) = 2 /\ Two(cp)[1] = 192 + (cp \div 64)
    BY SMT DEF Two
  <2>5. Remaining(Two(cp)[1]) = 1
    BY SMT, Bits, BitsOut, <2>1, <2>4
  <2>6. Utf8CodePoint(Two(cp), 2) = cp
    BY SMT, Bits, Together, <2>3
  <2>. QED
    BY SMT, <2>2, <2>4, <2>5, <2>6
<1>3. CASE cp > 2047 /\ cp <= 65535
  <2>1. cp \div 4096 \in 0 .. 15
    BY SMT, Bits, <1>3
  <2>2. Bytewise(cp) = Three(cp)
    BY SMT, Bits, <1>3 DEF Bytewise
  <2>3. Utf8CodePoint(Three(cp), 3) = (cp \div 4096) * 4096 + ((cp \div 64) % 64) * 64 + (cp % 64)
    BY SMT, <2>1, Bits, Together, BitsOut DEF Three, Utf8CodePoint
  <2>4. Len(Three(cp)) = 3 /\ Three(cp)[1] = 224 + (cp \div 4096)
    BY SMT DEF Three
  <2>5. Remaining(Three(cp)[1]) = 2
    BY SMT, Bits, BitsOut, <2>1, <2>4
  <2>6. Utf8CodePoint(Three(cp), 3) = cp
    BY SMT, Bits, Together, <2>3
  <2>. QED
    BY SMT, <2>2, <2>4, <2>5, <2>6
<1>4. CASE cp > 65535
  <2>2. Bytewise(cp) = Four(cp)
    BY SMT, Bits, <1>4 DEF Bytewise
  <2>3. Utf8CodePoint(Four(cp), 4) =
            (((cp \div 4096) \div 64) * 64) * 4096 + ((cp \div 4096) % 64) * 4096
              + ((cp \div 64) % 64) * 64 + (cp % 64)
    BY SMT, Bits, Together, BitsOut DEF Four, Utf8CodePoint
  <2>4. Len(Four(cp)) = 4 /\ Four(cp)[1] = 240 + ((cp \div 4096) \div 64)
    BY SMT DEF Four
  <2>5. Remaining(Four(cp)[1]) = 3
    BY SMT, Bits, BitsOut, <2>4
  <2>6. Utf8CodePoint(Four(cp), 4) = cp
    BY SMT, Bits, Together, <2>3
  <2>. QED
    BY SMT, <2>2, <2>4, <2>5, <2>6
<1>. QED
  BY SMT, Bits, <1>1, <1>2, <1>3, <1>4

-----------------------------------------------------------------------------

\* The halves of a supplementary code point.
High(cp) == 55296 + ((cp - 65536) \div 1024)
Low(cp)  == 56320 + ((cp - 65536) % 1024)

\* A unit is put together again from its two bytes.
LEMMA PairOfBytes ==
    ASSUME NEW unit \in Nat
    PROVE  (unit % 256) + 256 * (unit \div 256) = unit
  BY SMT

\* The halves are units, they give the code point back, and the surrogate tests
\* recognise the first one unless it is at an end of its range.
LEMMA HalvesRejoin ==
    ASSUME NEW cp \in CodePoints, cp > 65535
    PROVE  /\ High(cp) \in Nat /\ High(cp) >= 55296 /\ High(cp) <= 56319
           /\ Low(cp) \in Nat /\ Low(cp) >= 56320 /\ Low(cp) <= 57343
           /\ 65536 + (High(cp) - 55296) * 1024 + ((Low(cp) - 56320) % 1024) = cp
           /\ ~Missed(cp) <=> (High(cp) > 55296 /\ High(cp) < 56319)
<1> DEFINE q == cp \div 1024
           r == cp % 1024
<1>1. /\ q \in Nat /\ 64 <= q /\ q <= 1087
      /\ r \in Nat /\ r <= 1023 /\ cp = 1024 * q + r
  BY SMT DEF CodePoints
<1>. HIDE DEF q, r
<1>2. (cp - 65536) \div 1024 = q - 64 /\ (cp - 65536) % 1024 = r
  BY SMT, <1>1
<1>3. High(cp) = 55296 + (q - 64) /\ Low(cp) = 56320 + r
  BY SMT, <1>2 DEF High, Low
<1>4. Missed(cp) <=> q \in {64, 1087}
  BY SMT DEF Missed, q
<1>. QED
  BY SMT, <1>1, <1>3, <1>4

\* What a glyph looks like: one unit, or the two halves.
LEMMA GlyphUnits ==
    ASSUME NEW cp \in CodePoints, NEW to \in {"UTF16LE", "UTF16BE"}
    PROVE  Utf16Glyph(to, cp) =
             IF cp <= 65535
             THEN IF to = "UTF16LE" THEN <<cp % 256, cp \div 256>> ELSE <<cp \div 256, cp % 256>>
             ELSE IF to = "UTF16LE"
                  THEN <<High(cp) % 256, High(cp) \div 256, Low(cp) % 256, Low(cp) \div 256>>
                  ELSE <<High(cp) \div 256, High(cp) % 256, Low(cp) \div 256, Low(cp) % 256>>
<1>. DEFINE units == IF cp >= 65536 THEN Pair(High(cp), Low(cp)) ELSE Single(cp)
<1>1. Utf16Glyph(to, cp) =
        IF to = "UTF16LE" THEN units
        ELSE [i \in DOMAIN units |-> IF i % 2 = 1 THEN units[i + 1] ELSE units[i - 1]]
  BY SMT DEF Utf16Glyph, High, Low
<1>2. cp \in Nat
  BY SMT DEF CodePoints
<1>3. units = IF cp <= 65535 THEN <<cp % 256, cp \div 256>>
              ELSE <<High(cp) % 256, High(cp) \div 256, Low(cp) % 256, Low(cp) \div 256>>
  BY SMT, <1>2 DEF Pair, Single
<1>. HIDE DEF units
<1>4. CASE cp <= 65535
  BY SMT, <1>1, <1>3, <1>4
<1>5. CASE cp > 65535
  BY SMT, <1>1, <1>2, <1>3, <1>5
<1>. QED
  BY SMT, <1>2, <1>4, <1>5

\* code_point_to_utf16le_glyph and code_point_to_utf16be_glyph write the glyph
\* that the standard defines.
THEOREM Utf16GlyphIsStandard ==
    ASSUME NEW cp \in CodePoints, NEW to \in {"UTF16LE", "UTF16BE"}
    PROVE  Utf16Glyph(to, cp) = Encoding(to, cp)
<1>0. cp \in Nat
  BY SMT DEF CodePoints
<1>1. Encoding(to, cp) = Bytes(Utf16(cp), to = "UTF16LE")
  BY SMT DEF Encoding
<1>2. Utf16(cp) = IF cp <= 65535 THEN <<cp>> ELSE <<High(cp), Low(cp)>>
  BY SMT, <1>0 DEF Utf16, High, Low
<1>3. CASE cp <= 65535
  <2>1. Utf16(cp) = <<cp>>
    BY SMT, <1>2, <1>3
  <2>. QED
    BY SMT, <1>1, <2>1, <1>3, GlyphUnits DEF Bytes
<1>4. CASE cp > 65535
  <2>1. Utf16(cp) = <<High(cp), Low(cp)>>
    BY SMT, <1>0, <1>2, <1>4
  <2>. HIDE DEF High, Low
  <2>. QED
    BY SMT, <1>0, <1>1, <2>1, <1>4, GlyphUnits DEF Bytes
<1>. QED
  BY SMT, <1>0, <1>3, <1>4

\* The four bytes of the buffer when the glyph of cp has been read, the bytes of
\* each unit in the machine's order; what a glyph of one unit leaves is stale.
Buffered(cp, stale) ==
    LET glyph == Utf16Glyph("UTF16LE", cp)
    IN  [i \in 1 .. 4 |-> IF i <= Len(glyph) THEN glyph[i] ELSE stale[i]]

\* What the decoder makes of the buffer.
LEMMA BufferUnits ==
    ASSUME NEW cp \in CodePoints, NEW stale \in [1 .. 4 -> 0 .. 255]
    PROVE  /\ cp <= 65535 => Upper(Buffered(cp, stale)) = cp
           /\ cp > 65535 => /\ Upper(Buffered(cp, stale)) = High(cp)
                            /\ Lower(Buffered(cp, stale)) = Low(cp)
<1>0. cp \in Nat
  BY SMT DEF CodePoints
<1>1. CASE cp <= 65535
  <2>1. Utf16Glyph("UTF16LE", cp) = <<cp % 256, cp \div 256>>
    BY SMT, <1>1, GlyphUnits
  <2>2. Buffered(cp, stale)[1] = cp % 256 /\ Buffered(cp, stale)[2] = cp \div 256
    BY SMT, <2>1 DEF Buffered
  <2>. QED
    <3>2. (cp % 256) + 256 * (cp \div 256) = cp
      BY SMT, <1>0, PairOfBytes
    <3>. QED
      BY SMT, <1>0, <1>1, <2>2, <3>2 DEF Upper
<1>2. CASE cp > 65535
  <2>. DEFINE h == High(cp)
              l == Low(cp)
  <2>1. Utf16Glyph("UTF16LE", cp) = <<h % 256, h \div 256, l % 256, l \div 256>>
    BY SMT, <1>0, <1>2, GlyphUnits
  <2>2. h \in Nat /\ l \in Nat
    BY SMT, <1>2, HalvesRejoin
  <2>. HIDE DEF h, l
  <2>3. /\ Buffered(cp, stale)[1] = h % 256 /\ Buffered(cp, stale)[2] = h \div 256
        /\ Buffered(cp, stale)[3] = l % 256 /\ Buffered(cp, stale)[4] = l \div 256
    BY SMT, <2>1 DEF Buffered
  <2>4. Upper(Buffered(cp, stale)) = h /\ Lower(Buffered(cp, stale)) = l
    <3>1. (h % 256) + 256 * (h \div 256) = h /\ (l % 256) + 256 * (l \div 256) = l
      BY SMT, <2>2, PairOfBytes
    <3>. QED
      BY SMT, <2>3, <3>1 DEF Upper, Lower
  <2>. QED
    BY SMT, <1>0, <1>2, <2>4 DEF h, l
<1>. QED
  BY SMT, <1>0, <1>1, <1>2

\* Every code point that is no half comes back from UTF-16, whatever the buffer
\* held before, except those the surrogate tests miss.
THEOREM Utf16RoundTrip ==
    ASSUME NEW cp \in CodePoints, cp \notin 55296 .. 57343, ~Missed(cp) \/ cp <= 65535,
           NEW stale \in [1 .. 4 -> 0 .. 255]
    PROVE  /\ IsUpperSurrogate(Buffered(cp, stale)) <=> cp > 65535
           /\ Utf16CodePoint(Buffered(cp, stale)) = cp
<1>0. cp \in Nat
  BY SMT DEF CodePoints
<1>1. CASE cp <= 65535
  <2>1. Upper(Buffered(cp, stale)) = cp
    BY SMT, <1>1, BufferUnits
  <2>. QED
    BY SMT, <1>0, <1>1, <2>1 DEF IsUpperSurrogate, Utf16CodePoint
<1>2. CASE cp > 65535
  <2>1. /\ Upper(Buffered(cp, stale)) = High(cp)
        /\ Lower(Buffered(cp, stale)) = Low(cp)
    BY SMT, <1>2, BufferUnits
  <2>2. IsUpperSurrogate(Buffered(cp, stale))
    BY SMT, <1>0, <1>2, <2>1, HalvesRejoin DEF IsUpperSurrogate
  <2>. QED
    BY SMT, <1>2, <2>1, <2>2, HalvesRejoin DEF Utf16CodePoint
<1>. QED
  BY SMT, <1>0, <1>1, <1>2

\* Those it misses are taken for their first half, and the second is read as a
\* code point of its own.
THEOREM MissedIsSplit ==
    ASSUME NEW cp \in CodePoints, cp > 65535, Missed(cp), NEW stale \in [1 .. 4 -> 0 .. 255]
    PROVE  Utf16CodePoint(Buffered(cp, stale)) = High(cp)
<1>1. Upper(Buffered(cp, stale)) = High(cp)
  BY SMT, BufferUnits
<1>2. ~IsUpperSurrogate(Buffered(cp, stale))
  BY SMT, <1>1, HalvesRejoin DEF IsUpperSurrogate
<1>. QED
  BY SMT, <1>1, <1>2 DEF Utf16CodePoint

-----------------------------------------------------------------------------
(* A text's encoding, code point by code point *)

\* The well-ordering of the naturals, without induction over a predicate.
LEMMA LeastNatural ==
    ASSUME NEW S \in SUBSET Nat, S # {}
    PROVE  \E m \in S : \A n \in S : m <= n
<1> DEFINE Initial == {0 .. n : n \in S}
<1>1. Initial \subseteq FiniteSubsetsOf(Nat) /\ Initial # {}
  <2>1. \A n \in S : IsFiniteSet(0 .. n) /\ 0 .. n \in SUBSET Nat
    BY FS_Interval
  <2> QED
    BY <2>1 DEF FiniteSubsetsOf
<1>2. PICK x \in Initial : \A y \in Initial : ~(<<y, x>> \in StrictSubsetOrdering(Nat))
  BY <1>1, WFMin, FS_StrictSubsetOrderingWellFounded
<1>3. PICK m \in S : x = 0 .. m
  BY <1>2
<1>4. ASSUME NEW n \in S, n < m PROVE FALSE
  <2>1. 0 .. n \in Initial /\ 0 .. n \subseteq x /\ 0 .. n # x
    BY <1>3, <1>4
  <2>2. x \in SUBSET Nat
    BY <1>3
  <2> QED
    BY <1>2, <2>1, <2>2 DEF StrictSubsetOrdering
<1> QED
  BY <1>4

\* g is what the definition of Encoded calls encoded, for n code points.
Encodes(g, f, t, n) ==
    g = [k \in 0 .. n |-> IF k = 0 THEN <<>> ELSE g[k - 1] \o Encoding(f, t[k])]

LEMMA EncodesExists ==
    ASSUME NEW f, NEW t, NEW n \in Nat
    PROVE  \E g : Encodes(g, f, t, n)
<1> DEFINE Bad == {m \in Nat : ~\E g : Encodes(g, f, t, m)}
<1> SUFFICES ASSUME Bad # {} PROVE FALSE
  OBVIOUS
<1>1. PICK m \in Bad : \A k \in Bad : m <= k
  BY LeastNatural
<1>2. CASE m = 0
  <2> DEFINE g == [k \in 0 .. 0 |-> <<>>]
  <2>1. Encodes(g, f, t, 0)
    BY DEF Encodes
  <2> QED
    BY <1>1, <1>2, <2>1
<1>3. CASE m # 0
  <2>1. m - 1 \in Nat /\ m - 1 \notin Bad
    BY <1>1, <1>3
  <2>2. PICK g : Encodes(g, f, t, m - 1)
    BY <2>1
  <2> DEFINE last == g[m - 1] \o Encoding(f, t[m])
             h == [k \in 0 .. m |-> IF k < m THEN g[k] ELSE last]
  <2> HIDE DEF last
  <2>3. \A k \in 0 .. m - 1 : h[k] = g[k]
    BY <1>1
  <2>4. ASSUME NEW k \in 0 .. m
        PROVE  h[k] = IF k = 0 THEN <<>> ELSE h[k - 1] \o Encoding(f, t[k])
    <3>1. CASE k = 0
      <4>1. 0 \in 0 .. m - 1
        BY <1>1, <1>3
      <4>2. g[0] = <<>>
        BY <2>2, <4>1 DEF Encodes
      <4> HIDE DEF h
      <4> QED
        BY <2>3, <3>1, <4>1, <4>2
    <3>2. CASE k > 0 /\ k < m
      <4>1. g[k] = g[k - 1] \o Encoding(f, t[k])
        BY SMTT(30), <1>1, <2>2, <3>2 DEF Encodes
      <4>2. h[k] = g[k] /\ h[k - 1] = g[k - 1]
        BY <1>1, <2>3, <3>2
      <4>3. k # 0
        BY <3>2
      <4> HIDE DEF h
      <4> QED
        BY <4>1, <4>2, <4>3
    <3>3. CASE k = m
      <4>1. k # 0 /\ k - 1 = m - 1 /\ k - 1 \in 0 .. m - 1
        BY <1>1, <1>3, <3>3
      <4>2. h[k - 1] = g[m - 1]
        BY <2>3, <4>1
      <4>3. h[k] = last
        BY <1>1, <3>3
      <4> HIDE DEF h
      <4> QED
        BY <3>3, <4>1, <4>2, <4>3 DEF last
    <3> QED
      BY <1>1, <3>1, <3>2, <3>3
  <2>5. Encodes(h, f, t, m)
    <3>1. h = [k \in 0 .. m |-> h[k]]
      OBVIOUS
    <3> HIDE DEF h
    <3> QED
      BY <2>4, <3>1 DEF Encodes
  <2> QED
    BY <1>1, <2>5
<1> QED
  BY <1>2, <1>3

LEMMA EncodesUnique ==
    ASSUME NEW f, NEW t, NEW n \in Nat, NEW m \in Nat, NEW g, NEW h,
           Encodes(g, f, t, n), Encodes(h, f, t, m), NEW k \in Nat, k <= n, k <= m
    PROVE  g[k] = h[k]
<1> DEFINE Bad == {i \in 0 .. k : g[i] # h[i]}
<1> SUFFICES ASSUME Bad # {} PROVE FALSE
  OBVIOUS
<1>1. PICK i \in Bad : \A j \in Bad : i <= j
  <2>1. Bad \in SUBSET Nat
    OBVIOUS
  <2> HIDE DEF Bad
  <2> QED
    BY <2>1, LeastNatural
<1>2. CASE i = 0
  BY <1>1, <1>2 DEF Encodes
<1>3. CASE i # 0
  <2>1. i - 1 \in 0 .. k /\ i - 1 \notin Bad /\ i \in 0 .. n /\ i \in 0 .. m
    BY <1>1, <1>3
  <2>2. g[i] = g[i - 1] \o Encoding(f, t[i]) /\ h[i] = h[i - 1] \o Encoding(f, t[i])
    BY <1>3, <2>1 DEF Encodes
  <2> QED
    BY <1>1, <2>1, <2>2
<1> QED
  BY <1>2, <1>3

LEMMA EncodedIs ==
    ASSUME NEW f, NEW t, NEW n \in Nat, NEW g, Encodes(g, f, t, n)
    PROVE  Encoded(f, t, n) = g[n]
<1> DEFINE e == CHOOSE e : Encodes(e, f, t, n)
<1>1. Encoded(f, t, n) = e[n]
  BY DEF Encoded, Encodes
<1>2. Encodes(e, f, t, n)
  BY EncodesExists
<1> HIDE DEF e
<1> QED
  BY <1>1, <1>2, EncodesUnique

\* The encoding of a text starts empty and grows by that of its next code point.
LEMMA EncodedNone ==
    ASSUME NEW f, NEW t PROVE Encoded(f, t, 0) = <<>>
<1>1. PICK g : Encodes(g, f, t, 0)
  BY EncodesExists
<1>2. Encoded(f, t, 0) = g[0]
  BY <1>1, EncodedIs
<1> QED
  BY <1>1, <1>2 DEF Encodes

LEMMA EncodedStep ==
    ASSUME NEW f, NEW t, NEW n \in Nat
    PROVE  Encoded(f, t, n + 1) = Encoded(f, t, n) \o Encoding(f, t[n + 1])
<1>1. PICK g : Encodes(g, f, t, n + 1)
  BY EncodesExists
<1>2. PICK h : Encodes(h, f, t, n)
  BY EncodesExists
<1>3. Encoded(f, t, n + 1) = g[n + 1] /\ Encoded(f, t, n) = h[n]
  BY <1>1, <1>2, EncodedIs
<1>4. g[n] = h[n]
  BY <1>1, <1>2, EncodesUnique
<1>5. g[n + 1] = g[n] \o Encoding(f, t[n + 1])
  BY <1>1 DEF Encodes
<1> QED
  BY <1>3, <1>4, <1>5

Octet == 0 .. 255

LEMMA TupleOfTwo ==
    ASSUME NEW S, NEW a \in S, NEW b \in S
    PROVE  <<a, b>> \in Seq(S) /\ Len(<<a, b>>) \in 1 .. 4
  OBVIOUS

LEMMA TupleOfFour ==
    ASSUME NEW S, NEW a \in S, NEW b \in S, NEW c \in S, NEW d \in S
    PROVE  <<a, b, c, d>> \in Seq(S) /\ Len(<<a, b, c, d>>) \in 1 .. 4
  OBVIOUS

LEMMA EncodingBytes ==
    ASSUME NEW cp \in CodePoints, NEW f \in Formats
    PROVE  Encoding(f, cp) \in Seq(Octet) /\ Len(Encoding(f, cp)) \in 1 .. 4
<1>0. cp \in Nat
  BY SMT DEF CodePoints
<1>1. CASE f = "UTF8"
  <2>1. Encoding(f, cp) = Bytewise(cp)
    BY <1>1, StandardBytewise DEF Encoding
  <2>2. CASE cp <= 127
    BY SMT, <1>0, <2>1, <2>2 DEF Bytewise, One, Octet
  <2>3. CASE cp > 127 /\ cp <= 2047
    <3>1. cp \div 64 \in 0 .. 31 /\ cp % 64 \in 0 .. 63
      BY SMT, <1>0, <2>3
    <3>2. Encoding(f, cp) = Two(cp)
      BY SMT, <1>0, <2>1, <2>3 DEF Bytewise
    <3> QED
      BY SMT, <3>1, <3>2 DEF Two, Octet
  <2>4. CASE cp > 2047 /\ cp <= 65535
    <3>1. cp \div 4096 \in 0 .. 15 /\ (cp \div 64) % 64 \in 0 .. 63 /\ cp % 64 \in 0 .. 63
      BY SMT, <1>0, <2>4
    <3>2. Encoding(f, cp) = Three(cp)
      BY SMT, <1>0, <2>1, <2>4 DEF Bytewise
    <3> QED
      BY SMT, <3>1, <3>2 DEF Three, Octet
  <2>5. CASE cp > 65535
    <3>1. Encoding(f, cp) = Four(cp)
      BY SMT, <1>0, <2>1, <2>5 DEF Bytewise
    <3> QED
      BY SMT, <1>0, <3>1, Bits, Together DEF Four, Octet
  <2> QED
    BY <1>0, <2>2, <2>3, <2>4, <2>5
<1>2. CASE f # "UTF8"
  <2>1. f \in {"UTF16LE", "UTF16BE"}
    BY <1>2 DEF Formats
  <2>2. Encoding(f, cp) = Utf16Glyph(f, cp)
    BY <2>1, Utf16GlyphIsStandard
  <2>3. CASE cp <= 65535
    <3>1. cp % 256 \in Octet /\ cp \div 256 \in Octet
      BY SMT, <1>0, <2>3 DEF Octet
    <3>2. Encoding(f, cp) \in {<<cp % 256, cp \div 256>>, <<cp \div 256, cp % 256>>}
      BY SMT, <2>1, <2>2, <2>3, GlyphUnits
    <3>3. PICK a \in Octet, b \in Octet : Encoding(f, cp) = <<a, b>>
      BY <3>1, <3>2
    <3>4. <<a, b>> \in Seq(Octet) /\ Len(<<a, b>>) \in 1 .. 4
      BY TupleOfTwo
    <3> QED
      BY <3>3, <3>4, Zenon
  <2>4. CASE cp > 65535
    <3> DEFINE h == High(cp)
               l == Low(cp)
    <3>1. h \in Nat /\ h <= 65535 /\ l \in Nat /\ l <= 65535
      BY <2>4, HalvesRejoin
    <3>2. Encoding(f, cp) \in {<<h % 256, h \div 256, l % 256, l \div 256>>,
                              <<h \div 256, h % 256, l \div 256, l % 256>>}
      BY SMT, <1>0, <2>1, <2>2, <2>4, GlyphUnits
    <3> HIDE DEF h, l
    <3>3. \A x \in Nat : x <= 65535 => x % 256 \in Octet /\ x \div 256 \in Octet
      BY SMT DEF Octet
    <3>4. /\ h % 256 \in Octet /\ h \div 256 \in Octet
          /\ l % 256 \in Octet /\ l \div 256 \in Octet
      BY <3>1, <3>3
    <3>5. PICK a \in Octet, b \in Octet, c \in Octet, d \in Octet :
            Encoding(f, cp) = <<a, b, c, d>>
      BY <3>2, <3>4
    <3>6. <<a, b, c, d>> \in Seq(Octet) /\ Len(<<a, b, c, d>>) \in 1 .. 4
      BY TupleOfFour
    <3> QED
      BY <3>5, <3>6, Zenon
  <2> QED
    BY <1>0, <2>3, <2>4
<1> QED
  BY <1>1, <1>2

\* A text's encoding is a sequence of bytes.
LEMMA EncodedBytes ==
    ASSUME NEW t \in Seq(CodePoints), NEW f \in Formats, NEW n \in 0 .. Len(t)
    PROVE  Encoded(f, t, n) \in Seq(Octet)
<1> DEFINE Bad == {m \in 0 .. Len(t) : Encoded(f, t, m) \notin Seq(Octet)}
<1> SUFFICES ASSUME Bad # {} PROVE FALSE
  OBVIOUS
<1>1. Bad \in SUBSET Nat
  OBVIOUS
<1>2. PICK m \in Bad : \A k \in Bad : m <= k
  <2> HIDE DEF Bad
  <2> QED
    BY <1>1, LeastNatural
<1>3. m \in 0 .. Len(t) /\ Encoded(f, t, m) \notin Seq(Octet)
  BY <1>2
<1>4. m # 0
  <2>1. <<>> \in Seq(Octet)
    OBVIOUS
  <2> HIDE DEF Bad
  <2> QED
    BY <1>3, <2>1, EncodedNone
<1>5. m - 1 \in 0 .. Len(t) /\ m - 1 \in Nat /\ t[m] \in CodePoints
  BY <1>3, <1>4
<1>6. Encoded(f, t, m - 1) \in Seq(Octet)
  BY <1>2, <1>3, <1>5
<1>7. Encoded(f, t, m) = Encoded(f, t, m - 1) \o Encoding(f, t[m])
  <2>1. (m - 1) + 1 = m
    BY <1>3
  <2> QED
    BY <1>5, <2>1, EncodedStep
<1> QED
  BY <1>3, <1>5, <1>6, <1>7, EncodingBytes

\* Where the next code point's encoding stands.
LEMMA EncodedNext ==
    ASSUME NEW t \in Seq(CodePoints), NEW f \in Formats, NEW n \in 0 .. Len(t) - 1
    PROVE  /\ Len(Encoded(f, t, n + 1)) = Len(Encoded(f, t, n)) + Len(Encoding(f, t[n + 1]))
           /\ \A i \in 1 .. Len(Encoded(f, t, n)) :
                Encoded(f, t, n + 1)[i] = Encoded(f, t, n)[i]
           /\ \A i \in 1 .. Len(Encoding(f, t[n + 1])) :
                Encoded(f, t, n + 1)[Len(Encoded(f, t, n)) + i] = Encoding(f, t[n + 1])[i]
<1>1. Encoded(f, t, n) \in Seq(Octet) /\ Encoding(f, t[n + 1]) \in Seq(Octet)
  BY EncodedBytes, EncodingBytes
<1>2. Encoded(f, t, n + 1) = Encoded(f, t, n) \o Encoding(f, t[n + 1])
  BY EncodedStep
<1> QED
  BY <1>1, <1>2

LEMMA EncodedPrefix ==
    ASSUME NEW t \in Seq(CodePoints), NEW f \in Formats, NEW n \in 0 .. Len(t), NEW k \in 0 .. n
    PROVE  /\ Len(Encoded(f, t, k)) <= Len(Encoded(f, t, n))
           /\ \A i \in 1 .. Len(Encoded(f, t, k)) : Encoded(f, t, n)[i] = Encoded(f, t, k)[i]
<1> DEFINE Extends(m) ==
             /\ Len(Encoded(f, t, k)) <= Len(Encoded(f, t, m))
             /\ \A i \in 1 .. Len(Encoded(f, t, k)) : Encoded(f, t, m)[i] = Encoded(f, t, k)[i]
           Bad == {m \in k .. n : ~Extends(m)}
<1> SUFFICES ASSUME Bad # {} PROVE FALSE
  OBVIOUS
<1>1. Bad \in SUBSET Nat
  OBVIOUS
<1>2. PICK m \in Bad : \A j \in Bad : m <= j
  <2> HIDE DEF Bad
  <2> QED
    BY <1>1, LeastNatural
<1>3. m \in k .. n /\ ~Extends(m)
  BY <1>2
<1>4. \A j \in 0 .. Len(t) : Encoded(f, t, j) \in Seq(Octet)
  BY EncodedBytes
<1>5. k \in 0 .. Len(t) /\ Extends(k)
  BY <1>4
<1>6. m - 1 \in k .. n /\ m - 1 \in 0 .. Len(t) - 1 /\ (m - 1) + 1 = m
  BY <1>3, <1>5
<1>7. Extends(m - 1)
  BY <1>2, <1>6
<1>8. Encoding(f, t[m]) \in Seq(Octet)
  BY <1>6, EncodingBytes
<1>9. /\ Len(Encoded(f, t, m)) = Len(Encoded(f, t, m - 1)) + Len(Encoding(f, t[m]))
      /\ \A i \in 1 .. Len(Encoded(f, t, m - 1)) : Encoded(f, t, m)[i] = Encoded(f, t, m - 1)[i]
  BY <1>6, EncodedNext
<1> QED
  BY <1>3, <1>4, <1>5, <1>6, <1>7, <1>8, <1>9

-----------------------------------------------------------------------------
(* The input file, and what its mark says *)

\* The input file holds a beginning of its text's encoding.
InputInv ==
    /\ text \in Texts /\ format \in Formats
    /\ input \in Seq(Octet)
    /\ Len(input) <= Whole(Len(text))
    /\ \A i \in 1 .. Len(input) : input[i] = Encoded(format, text, Len(text))[i]

LEMMA TextTypes ==
    ASSUME InputInv
    PROVE  /\ text \in Seq(Scalars) /\ text \in Seq(CodePoints)
           /\ \A k \in 1 .. Len(text) : text[k] \in Scalars /\ text[k] \in CodePoints
<1>1. text \in Seq(Scalars)
  BY TextsAssumption DEF InputInv
<1>2. Scalars \subseteq CodePoints
  BY DEF Scalars
<1> QED
  BY <1>1, <1>2

LEMMA InitInput == Init => InputInv
<1> SUFFICES ASSUME Init PROVE InputInv
  OBVIOUS
<1> DEFINE whole == Encoded(format, text, Len(text))
<1>1. PICK cut \in Cuts : input = SubSeq(whole, 1, Len(whole) - cut)
  BY DEF Init
<1>2. text \in Texts /\ format \in Formats
  BY DEF Init
<1>3. text \in Seq(Scalars) /\ Scalars \subseteq CodePoints
  BY <1>2, TextsAssumption DEF Scalars
<1>4. text \in Seq(CodePoints) /\ Len(text) \in 0 .. Len(text)
  BY <1>3
<1>5. whole \in Seq(Octet)
  BY <1>2, <1>4, EncodedBytes
<1>6. cut \in Nat
  BY CutsAssumption
<1> HIDE DEF whole
<1>7. /\ input \in Seq(Octet) /\ Len(input) <= Len(whole)
      /\ \A i \in 1 .. Len(input) : input[i] = whole[i]
  BY <1>1, <1>5, <1>6
<1> QED
  BY <1>2, <1>7 DEF InputInv, Whole, whole

\* The bytes of a code point stand in the input behind those of the ones before
\* it, as far as the file goes.
LEMMA GlyphInInput ==
    ASSUME InputInv, NEW k \in 0 .. Len(text) - 1, NEW i \in 1 .. Len(Encoding(format, text[k + 1])),
           Whole(k) + i <= Len(input)
    PROVE  input[Whole(k) + i] = Encoding(format, text[k + 1])[i]
<1> DEFINE all == Encoded(format, text, Len(text))
           e   == Encoding(format, text[k + 1])
<1>1. text \in Seq(CodePoints) /\ format \in Formats
  BY TextTypes DEF InputInv
<1>2. k \in 0 .. Len(text) /\ k + 1 \in 0 .. Len(text) /\ Len(text) \in 0 .. Len(text)
      /\ k + 1 \in 0 .. Len(text) /\ text[k + 1] \in CodePoints
  BY <1>1
<1>3. Encoded(format, text, k) \in Seq(Octet) /\ Encoded(format, text, k + 1) \in Seq(Octet)
      /\ all \in Seq(Octet) /\ e \in Seq(Octet)
  BY <1>1, <1>2, EncodedBytes, EncodingBytes
<1>4. /\ Len(Encoded(format, text, k + 1)) = Whole(k) + Len(e)
      /\ Encoded(format, text, k + 1)[Whole(k) + i] = e[i]
  BY <1>1, EncodedNext DEF Whole
<1>5. /\ \A j \in 1 .. Len(Encoded(format, text, k + 1)) :
           all[j] = Encoded(format, text, k + 1)[j]
  BY <1>1, <1>2, EncodedPrefix
<1>6. Whole(k) \in Nat
  BY <1>3 DEF Whole
<1>7. Whole(k) + i \in 1 .. Len(input) /\ Whole(k) + i \in 1 .. Len(Encoded(format, text, k + 1))
  BY <1>3, <1>4, <1>6 DEF InputInv
<1> QED
  BY <1>4, <1>5, <1>7 DEF InputInv

\* The first bytes of a text without a misleading first code point are a mark
\* only if that code point is the mark, in the encoding the mark says.
LEMMA MarkedIsFormat ==
    ASSUME InputInv, Marked # "none"
    PROVE  Marked = format /\ text[1] = Mark
<1> DEFINE e == Encoding(format, text[1])
           cp == text[1]
<1>1. Len(input) >= 3
  BY DEF Marked
<1>2. text # <<>>
  <2>1. CASE text = <<>>
    <3>1. Whole(Len(text)) = 0
      BY <2>1, EncodedNone DEF Whole
    <3> QED
      BY <1>1, <3>1 DEF InputInv
  <2> QED
    BY <2>1
<1>3. text \in Seq(CodePoints) /\ 1 \in 1 .. Len(text) /\ cp \in CodePoints /\ cp \in Scalars
  BY <1>2, TextTypes
<1>4. cp \notin {48111, 61371, 65534}
  BY <1>2, MarksAssumption DEF InputInv
<1>5. e \in Seq(Octet) /\ Len(e) \in 1 .. 4 /\ format \in Formats
  BY <1>3, EncodingBytes DEF InputInv
<1>6. \A i \in 1 .. 3 : i <= Len(e) => input[i] = e[i]
  <2> TAKE i \in 1 .. 3
  <2>1. Whole(0) = 0
    BY EncodedNone DEF Whole
  <2>2. 0 \in 0 .. Len(text) - 1 /\ Len(input) \in Nat
    BY <1>3 DEF InputInv
  <2> QED
    BY <1>1, <1>5, <2>1, <2>2, GlyphInInput
<1>7. \/ Marked = "UTF8" /\ input[1] = 239 /\ input[2] = 187 /\ input[3] = 191
      \/ Marked = "UTF16LE" /\ input[1] = 255 /\ input[2] = 254
      \/ Marked = "UTF16BE" /\ input[1] = 254 /\ input[2] = 255
  <2> DEFINE three == SubSeq(input, 1, 3)
             two   == SubSeq(input, 1, 2)
  <2>1. /\ three[1] = input[1] /\ three[2] = input[2] /\ three[3] = input[3]
        /\ two[1] = input[1] /\ two[2] = input[2]
    BY <1>1 DEF InputInv
  <2>2. \/ Marked = "UTF8" /\ three = <<239, 187, 191>>
        \/ Marked = "UTF16LE" /\ two = <<255, 254>>
        \/ Marked = "UTF16BE" /\ two = <<254, 255>>
    BY DEF Marked
  <2> HIDE DEF three, two
  <2> QED
    BY <2>1, <2>2
<1>8. cp \in Nat
  BY <1>3 DEF CodePoints
<1>9. CASE format = "UTF8"
  <2>1. e = Bytewise(cp)
    BY <1>3, <1>9, StandardBytewise DEF Encoding
  <2> HIDE DEF e, cp
  <2>2. CASE cp <= 127
    <3>1. e = One(cp)
      BY <2>1, <2>2 DEF Bytewise
    <3>2. e[1] = cp /\ Len(e) = 1
      BY <3>1 DEF One
    <3> QED
      BY <1>6, <1>7, <2>2, <3>2, <1>8
  <2>3. CASE cp > 127 /\ cp <= 2047
    <3>1. e = Two(cp)
      BY <1>8, <2>1, <2>3 DEF Bytewise
    <3>2. e[1] = 192 + (cp \div 64) /\ Len(e) = 2 /\ cp \div 64 <= 31 /\ cp \div 64 \in Nat
      BY SMT, <1>8, <2>3, <3>1 DEF Two
    <3> QED
      BY <1>6, <1>7, <3>2
  <2>4. CASE cp > 2047 /\ cp <= 65535
    <3>1. e = Three(cp)
      BY <1>8, <2>1, <2>4 DEF Bytewise
    <3>2. /\ Len(e) = 3 /\ cp \div 4096 <= 15 /\ cp \div 4096 \in Nat
          /\ e[1] = 224 + (cp \div 4096) /\ e[2] = 128 + ((cp \div 64) % 64)
          /\ e[3] = 128 + (cp % 64)
      BY SMT, <1>8, <2>4, <3>1 DEF Three
    <3>3. input[1] = e[1] /\ input[2] = e[2] /\ input[3] = e[3]
      BY <1>6, <3>2
    <3>4. Marked = "UTF8" /\ input[1] = 239 /\ input[2] = 187 /\ input[3] = 191
      BY <1>7, <3>2, <3>3
    <3>5. (cp \div 64) % 64 \in Nat /\ cp % 64 \in Nat
      BY SMT, <1>8
    <3>6. cp \div 4096 = 15 /\ (cp \div 64) % 64 = 59 /\ cp % 64 = 63
      BY <3>2, <3>3, <3>4, <3>5
    <3>7. (cp \div 4096) * 4096 + ((cp \div 64) % 64) * 64 + (cp % 64) = cp
      BY <1>8, Together
    <3>8. cp = 65279
      BY <3>6, <3>7
    <3> QED
      BY <1>9, <3>4, <3>8 DEF Mark, cp
  <2>5. CASE cp > 65535
    <3>1. e = Four(cp)
      BY <1>8, <2>1, <2>5 DEF Bytewise
    <3>2. e[1] = 240 + ((cp \div 4096) \div 64) /\ Len(e) = 4
      BY SMT, <1>8, <3>1 DEF Four
    <3>3. (cp \div 4096) \div 64 \in 0 .. 7
      BY <1>3, Bits
    <3> QED
      BY <1>6, <1>7, <3>2, <3>3
  <2> QED
    BY <1>8, <2>2, <2>3, <2>4, <2>5
<1>10. CASE format # "UTF8"
  <2>1. format \in {"UTF16LE", "UTF16BE"}
    BY <1>5, <1>10 DEF Formats
  <2>2. e = Utf16Glyph(format, cp)
    BY <1>3, <2>1, Utf16GlyphIsStandard
  <2>3. CASE cp <= 65535
    <3>1. e = IF format = "UTF16LE" THEN <<cp % 256, cp \div 256>> ELSE <<cp \div 256, cp % 256>>
      BY <1>3, <2>1, <2>2, <2>3, GlyphUnits
    <3> HIDE DEF e, cp
    <3>2. Len(e) = 2 /\ IF format = "UTF16LE" THEN e[1] = cp % 256 /\ e[2] = cp \div 256
                                              ELSE e[1] = cp \div 256 /\ e[2] = cp % 256
      BY <3>1
    <3>3. input[1] = e[1] /\ input[2] = e[2]
      BY <1>6, <3>2
    <3>4. (cp % 256) + 256 * (cp \div 256) = cp /\ cp % 256 \in Nat /\ cp \div 256 \in Nat
      BY SMT, <1>8
    <3>5. CASE format = "UTF16LE"
      <4>1. input[1] + 256 * input[2] = cp
        BY <3>2, <3>3, <3>4, <3>5
      <4>2. \/ Marked = "UTF8" /\ cp = 48111
            \/ Marked = "UTF16LE" /\ cp = 65279
            \/ Marked = "UTF16BE" /\ cp = 65534
        BY <1>7, <4>1
      <4> QED
        BY <1>4, <3>5, <4>2 DEF Mark, cp
    <3>6. CASE format = "UTF16BE"
      <4>1. input[2] + 256 * input[1] = cp
        BY <3>2, <3>3, <3>4, <3>6
      <4>2. \/ Marked = "UTF8" /\ cp = 61371
            \/ Marked = "UTF16LE" /\ cp = 65534
            \/ Marked = "UTF16BE" /\ cp = 65279
        BY <1>7, <4>1
      <4> QED
        BY <1>4, <3>6, <4>2 DEF Mark, cp
    <3> QED
      BY <2>1, <3>5, <3>6
  <2>4. CASE cp > 65535
    <3> DEFINE h == High(cp)
               l == Low(cp)
    <3>1. h \in Nat /\ h >= 55296 /\ h <= 56319
      BY <1>3, <2>4, HalvesRejoin
    <3>2. e \in {<<h % 256, h \div 256, l % 256, l \div 256>>,
                 <<h \div 256, h % 256, l \div 256, l % 256>>}
      BY SMT, <1>3, <1>8, <2>1, <2>2, <2>4, GlyphUnits
    <3> HIDE DEF h, l, e, cp
    <3>3. h \div 256 \in Nat /\ h \div 256 >= 216 /\ h \div 256 <= 219
      BY SMT, <3>1
    <3>4. Len(e) = 4 /\ (e[1] = h \div 256 \/ e[2] = h \div 256)
      BY <3>2
    <3>5. input[1] = e[1] /\ input[2] = e[2]
      BY <1>6, <3>4
    <3> QED
      BY <1>7, <3>3, <3>4, <3>5
  <2> QED
    BY <1>8, <2>3, <2>4
<1> QED
  BY <1>9, <1>10

-----------------------------------------------------------------------------
(* Parsing the arguments *)

LEMMA FirstIs ==
    ASSUME NEW S \in SUBSET Nat, NEW m \in S, \A j \in S : m <= j
    PROVE  First(S) = m
<1>1. \A i \in S : (\A j \in S : i <= j) => i = m
  OBVIOUS
<1> QED
  BY <1>1 DEF First

LEMMA LastIs ==
    ASSUME NEW S \in SUBSET Nat, NEW m \in S, \A j \in S : j <= m
    PROVE  Last(S) = m
<1>1. \A i \in S : (\A j \in S : j <= i) => i = m
  OBVIOUS
<1> QED
  BY <1>1 DEF Last

\* g is what the definition of Parsed calls parsed, for the first n arguments.
Parses(g, n) ==
    g = [k \in 0 .. n |-> IF k = 0 THEN NotParsed ELSE ParseOne(g[k - 1], args[k])]

LEMMA ParsesExists == ASSUME NEW n \in Nat PROVE \E g : Parses(g, n)
<1> DEFINE Bad == {m \in Nat : ~\E g : Parses(g, m)}
<1> SUFFICES ASSUME Bad # {} PROVE FALSE
  OBVIOUS
<1>1. PICK m \in Bad : \A k \in Bad : m <= k
  BY LeastNatural
<1>2. CASE m = 0
  <2> DEFINE g == [k \in 0 .. 0 |-> NotParsed]
  <2>1. Parses(g, 0)
    BY DEF Parses
  <2> QED
    BY <1>1, <1>2, <2>1
<1>3. CASE m # 0
  <2>1. m - 1 \in Nat /\ m - 1 \notin Bad
    BY <1>1, <1>3
  <2>2. PICK g : Parses(g, m - 1)
    BY <2>1
  <2> DEFINE last == ParseOne(g[m - 1], args[m])
             h == [k \in 0 .. m |-> IF k < m THEN g[k] ELSE last]
  <2> HIDE DEF last
  <2>3. \A k \in 0 .. m - 1 : h[k] = g[k]
    BY <1>1
  <2>4. ASSUME NEW k \in 0 .. m
        PROVE  h[k] = IF k = 0 THEN NotParsed ELSE ParseOne(h[k - 1], args[k])
    <3>1. CASE k = 0
      <4>1. 0 \in 0 .. m - 1
        BY <1>1, <1>3
      <4>2. g[0] = NotParsed
        BY <2>2, <4>1 DEF Parses
      <4> HIDE DEF h
      <4> QED
        BY <2>3, <3>1, <4>1, <4>2
    <3>2. CASE k > 0 /\ k < m
      <4>1. g[k] = ParseOne(g[k - 1], args[k])
        BY <1>1, <2>2, <3>2 DEF Parses
      <4>2. h[k] = g[k] /\ h[k - 1] = g[k - 1] /\ k # 0
        BY <1>1, <2>3, <3>2
      <4> HIDE DEF h
      <4> QED
        BY <4>1, <4>2
    <3>3. CASE k = m
      <4>1. k # 0 /\ k - 1 = m - 1 /\ k - 1 \in 0 .. m - 1
        BY <1>1, <1>3, <3>3
      <4>2. h[k - 1] = g[m - 1] /\ h[k] = last
        BY <1>1, <2>3, <3>3, <4>1
      <4> HIDE DEF h
      <4> QED
        BY <3>3, <4>1, <4>2 DEF last
    <3> QED
      BY <1>1, <3>1, <3>2, <3>3
  <2>5. Parses(h, m)
    <3>1. h = [k \in 0 .. m |-> h[k]]
      OBVIOUS
    <3> HIDE DEF h
    <3> QED
      BY <2>4, <3>1 DEF Parses
  <2> QED
    BY <1>1, <2>5
<1> QED
  BY <1>2, <1>3

\* What the first n arguments have set: the files, and the last -e.
ParsedTo(p, n) ==
    /\ \E e, in, out, x : p = [encoding_to |-> e, in_file |-> in, out_file |-> out, exit |-> x]
    /\ p.exit \in {"none", "success", "failure"}
    /\ p.exit = "none" =>
         LET names == {i \in Positional : i <= n}
             encs  == {i \in Encodings : i <= n}
         IN  /\ \A i \in Stopping : i > n
             /\ p.in_file = NameAt(IF names \cap Real # {} THEN names \cap Real ELSE names)
             /\ p.out_file = NameAt({i \in names : \E j \in names \cap Real : j < i})
             /\ encs # {} => p.encoding_to = Named(args[Last(encs)])

LEMMA ParseOneArg ==
    ASSUME args \in Seq(STRING), NEW n \in 1 .. Len(args), NEW p, ParsedTo(p, n - 1)
    PROVE  ParsedTo(ParseOne(p, args[n]), n)
<1> DEFINE q == ParseOne(p, args[n])
           before == {i \in Positional : i <= n - 1}
           names  == {i \in Positional : i <= n}
           beforeIn == IF before \cap Real # {} THEN before \cap Real ELSE before
           namesIn  == IF names \cap Real # {} THEN names \cap Real ELSE names
           beforeSecond == {i \in before : \E j \in before \cap Real : j < i}
           second == {i \in names : \E j \in names \cap Real : j < i}
           beforeEncs == {i \in Encodings : i <= n - 1}
           encs == {i \in Encodings : i <= n}
<1>0. DOMAIN args = 1 .. Len(args) /\ n \in DOMAIN args /\ n \in Nat
  OBVIOUS
<1>1. PICK e, in, out, x : p = [encoding_to |-> e, in_file |-> in, out_file |-> out, exit |-> x]
  BY DEF ParsedTo
<1>2. CASE p.exit # "none"
  BY <1>2 DEF ParseOne, ParsedTo
<1>3. CASE p.exit = "none" /\ args[n] \in {"-h", "-x"}
  <2>1. q = [encoding_to |-> e, in_file |-> in, out_file |-> out,
             exit |-> IF args[n] = "-h" THEN "success" ELSE "failure"]
    <3>1. CASE args[n] = "-h"
      <4>1. q = [p EXCEPT !.exit = "success"]
        BY <1>3, <3>1 DEF ParseOne, Names
      <4> HIDE DEF q
      <4> QED
        BY <1>1, <3>1, <4>1
    <3>2. CASE args[n] = "-x"
      <4>1. q = [p EXCEPT !.exit = "failure"]
        BY <1>3, <3>2 DEF ParseOne, Names
      <4> HIDE DEF q
      <4> QED
        BY <1>1, <3>2, <4>1
    <3> QED
      BY <1>3, <3>1, <3>2
  <2> HIDE DEF q
  <2>2. q.exit \in {"success", "failure"}
    BY <2>1
  <2> QED
    BY <2>1, <2>2 DEF ParsedTo, q
<1>4. CASE p.exit = "none" /\ args[n] \notin {"-h", "-x"}
  <2>1. /\ \A i \in Stopping : i > n - 1
        /\ in = NameAt(beforeIn) /\ out = NameAt(beforeSecond)
        /\ beforeEncs # {} => e = Named(args[Last(beforeEncs)])
    BY <1>1, <1>4 DEF ParsedTo
  <2>2. \A i \in Stopping : i > n
    BY <1>0, <1>4, <2>1 DEF Stopping
  <2>3. Positional \subseteq 1 .. Len(args) /\ Encodings \subseteq 1 .. Len(args)
    BY <1>0 DEF Positional, Encodings
  <2>0. \A i \in 1 .. Len(args) : (i <= n <=> i <= n - 1 \/ i = n) /\ (i <= n - 1 => i # n)
    OBVIOUS
  <2>4. CASE args[n] \in Names
    <3>1. q = IF in \in {"none", "bin/utf"} THEN [p EXCEPT !.in_file = args[n]]
              ELSE IF out = "none" THEN [p EXCEPT !.out_file = args[n]] ELSE p
      BY <1>1, <1>4, <2>4 DEF ParseOne, Names
    <3>2. n \in Positional /\ n \notin Encodings
      BY <1>0, <2>4 DEF Positional, Encodings
    <3>3. names = before \cup {n} /\ encs = beforeEncs /\ n \notin before
      <4>1. \A i \in Encodings : i <= n <=> i <= n - 1
        BY <2>0, <2>3, <3>2
      <4>2. \A i \in Positional : i <= n <=> i <= n - 1 \/ i = n
        BY <2>0, <2>3
      <4>3. n \notin before
        BY <1>0
      <4> QED
        BY <3>2, <4>1, <4>2, <4>3
    <3>4. \A S \in SUBSET before : S # {} => NameAt(S) = args[First(S)] /\ NameAt(S) # "none"
                                             /\ First(S) \in S /\ \A j \in S : First(S) <= j
      <4> TAKE S \in SUBSET before
      <4>1. S \in SUBSET Nat
        BY <2>3
      <4> HIDE DEF before
      <4>2. ASSUME S # {}
            PROVE  NameAt(S) = args[First(S)] /\ NameAt(S) # "none"
                   /\ First(S) \in S /\ \A j \in S : First(S) <= j
        <5>1. PICK m \in S : \A j \in S : m <= j
          BY <4>1, <4>2, LeastNatural
        <5>2. First(S) = m
          BY <4>1, <5>1, FirstIs
        <5>3. args[m] \in Names
          BY DEF Positional, before
        <5> QED
          BY <4>2, <5>1, <5>2, <5>3 DEF NameAt, Names
      <4> QED
        BY <4>2
    <3>5. \A i \in before : i < n /\ i \in Nat
      BY <2>3
    <3>6. CASE before \cap Real = {}
      <4>1. in \in {"none", "bin/utf"} /\ out = "none"
        <5>1. beforeIn = before /\ beforeSecond = {}
          BY <3>6
        <5>2. NameAt(beforeSecond) = "none"
          BY <5>1 DEF NameAt
        <5>3. before = {} => NameAt(before) = "none"
          BY DEF NameAt
        <5>4. before # {} => First(before) \in before /\ NameAt(before) = args[First(before)]
          BY <3>4
        <5>5. before # {} => NameAt(before) = "bin/utf"
          BY <3>6, <5>4 DEF Real, before
        <5> QED
          BY <2>1, <5>1, <5>2, <5>3, <5>5
      <4>2. NameAt(second) = "none"
        <5>1. \A j \in names \cap Real : j = n
          BY <3>3, <3>6
        <5>2. \A i \in names : ~(n < i)
          BY <1>0, <3>3, <3>5
        <5>3. second = {}
          BY <5>1, <5>2
        <5> QED
          BY <5>3 DEF NameAt
      <4>3. NameAt(namesIn) = args[n] \/ (args[n] = "bin/utf" /\ NameAt(namesIn) = "bin/utf")
        <5>1. CASE n \in Real
          <6>1. namesIn = {n}
            BY <3>2, <3>3, <3>6, <5>1
          <6>2. First({n}) = n
            BY <1>0, FirstIs
          <6> QED
            BY <6>1, <6>2 DEF NameAt
        <5>2. CASE n \notin Real
          <6>1. namesIn = names /\ names # {} /\ \A i \in names : args[i] = "bin/utf"
            BY <3>2, <3>3, <3>6, <5>2 DEF Real
          <6>2. names \in SUBSET Nat
            BY <1>0, <3>3, <3>5
          <6>3. First(names) \in names
            <7> HIDE DEF names
            <7>1. PICK m \in names : \A j \in names : m <= j
              BY <6>1, <6>2, LeastNatural
            <7>2. First(names) = m
              BY <6>2, <7>1, FirstIs
            <7> QED
              BY <7>1, <7>2
          <6>4. args[n] = "bin/utf"
            BY <3>2, <5>2 DEF Real
          <6> QED
            BY <6>1, <6>3, <6>4 DEF NameAt
        <5> QED
          BY <5>1, <5>2
      <4>4. q = [encoding_to |-> e, in_file |-> args[n], out_file |-> out, exit |-> x]
        BY <1>1, <3>1, <4>1
      <4> HIDE DEF q, names, namesIn, second, encs, beforeEncs
      <4>5. /\ q.exit = "none" /\ q.in_file = args[n] /\ q.out_file = out /\ q.encoding_to = e
            /\ \E e1, in1, out1, x1 :
                 q = [encoding_to |-> e1, in_file |-> in1, out_file |-> out1, exit |-> x1]
        BY <1>1, <1>4, <4>4
      <4> QED
        BY <2>1, <2>2, <3>3, <4>1, <4>2, <4>3, <4>5
           DEF ParsedTo, q, names, namesIn, second, encs, beforeEncs
    <3>7. CASE before \cap Real # {}
      <4>0. beforeIn = before \cap Real /\ namesIn = names \cap Real
            /\ before \cap Real \subseteq names \cap Real
        BY <3>3, <3>7
      <4>1. First(beforeIn) \in before \cap Real /\ in \notin {"none", "bin/utf"}
            /\ \A j \in beforeIn : First(beforeIn) <= j
        <5>1. /\ NameAt(beforeIn) = args[First(beforeIn)] /\ NameAt(beforeIn) # "none"
              /\ First(beforeIn) \in beforeIn /\ \A j \in beforeIn : First(beforeIn) <= j
          <6>1. beforeIn \in SUBSET before /\ beforeIn # {}
            BY <3>7
          <6> HIDE DEF before, beforeIn
          <6> QED
            BY <3>4, <6>1
        <5> HIDE DEF beforeIn, before
        <5>2. NameAt(beforeIn) # "bin/utf"
          BY <4>0, <5>1 DEF Real
        <5> QED
          BY <2>1, <4>0, <5>1, <5>2
      <4>2. First(namesIn) = First(beforeIn)
        <5>1. /\ namesIn \in SUBSET Nat /\ First(beforeIn) \in namesIn
              /\ \A j \in namesIn : First(beforeIn) <= j
          <6>1. \A j \in namesIn : j \in beforeIn \/ j = n
            BY <3>3, <4>0
          <6>2. First(beforeIn) < n /\ First(beforeIn) \in Nat /\ namesIn \subseteq names
            BY <3>5, <4>0, <4>1
          <6>3. names \in SUBSET Nat
            BY <1>0, <3>3, <3>5
          <6>4. First(beforeIn) \in namesIn
            BY <4>0, <4>1
          <6> HIDE DEF namesIn, beforeIn, names, before
          <6>5. \A j \in namesIn : First(beforeIn) <= j
            BY <1>0, <4>1, <6>1, <6>2
          <6> QED
            BY <6>2, <6>3, <6>4, <6>5
        <5> HIDE DEF namesIn, beforeIn
        <5> QED
          BY <5>1, FirstIs
      <4>3. NameAt(namesIn) = in
        <5>1. beforeIn # {} /\ namesIn # {}
          BY <3>7, <4>0
        <5> HIDE DEF namesIn, beforeIn
        <5> QED
          BY <2>1, <4>2, <5>1 DEF NameAt
      <4>4. second = beforeSecond \cup {n}
        <5>1. n \in second
          BY <3>3, <3>5, <4>0, <4>1
        <5>2. \A i \in before : i \in second <=> i \in beforeSecond
          <6> TAKE i \in before
          <6>1. \A j \in names \cap Real : j < i => j \in before \cap Real
            <7> TAKE j \in names \cap Real
            <7>1. CASE j = n
              BY <1>0, <3>5, <7>1
            <7>2. CASE j # n
              BY <3>3, <7>2
            <7> QED
              BY <7>1, <7>2
          <6> QED
            BY <3>3, <4>0, <6>1
        <5> QED
          BY <3>3, <5>1, <5>2
      <4>5. CASE beforeSecond = {}
        <5>1. First({n}) = n
          BY <1>0, FirstIs
        <5>2. out = "none" /\ NameAt(second) = args[n]
          BY <2>1, <4>4, <4>5, <5>1 DEF NameAt
        <5>3. q = [encoding_to |-> e, in_file |-> in, out_file |-> args[n], exit |-> x]
          BY <1>1, <3>1, <4>1, <5>2
        <5> HIDE DEF q, names, namesIn, second, encs, beforeEncs
        <5>4. /\ q.exit = "none" /\ q.in_file = in /\ q.out_file = args[n] /\ q.encoding_to = e
              /\ \E e1, in1, out1, x1 :
                   q = [encoding_to |-> e1, in_file |-> in1, out_file |-> out1, exit |-> x1]
          BY <1>1, <1>4, <5>3
        <5> QED
          BY <2>1, <2>2, <3>3, <4>3, <5>2, <5>4
             DEF ParsedTo, q, names, namesIn, second, encs, beforeEncs
      <4>6. CASE beforeSecond # {}
        <5>1. First(beforeSecond) \in beforeSecond /\ out # "none"
              /\ \A j \in beforeSecond : First(beforeSecond) <= j
          BY <2>1, <3>4, <4>6
        <5>2. First(second) = First(beforeSecond)
          <6>1. /\ second \in SUBSET Nat /\ First(beforeSecond) \in second
                /\ \A j \in second : First(beforeSecond) <= j
            BY <1>0, <3>5, <4>4, <5>1
          <6> HIDE DEF second, beforeSecond
          <6> QED
            BY <6>1, FirstIs
        <5>3. NameAt(second) = out
          BY <2>1, <4>4, <4>6, <5>2 DEF NameAt
        <5>4. q = p
          BY <3>1, <4>1, <5>1
        <5>5. p.in_file = in /\ p.out_file = out /\ p.encoding_to = e
          BY <1>1
        <5> HIDE DEF q, names, namesIn, second, encs, beforeEncs
        <5> QED
          BY <1>1, <1>4, <2>1, <2>2, <3>3, <4>3, <5>3, <5>4, <5>5
             DEF ParsedTo, q, names, namesIn, second, encs, beforeEncs
      <4> QED
        BY <4>5, <4>6
    <3> QED
      BY <3>6, <3>7
  <2>5. CASE args[n] = "-i"
    <3>1. q = p /\ n \notin Positional /\ n \notin Encodings
      BY <1>0, <2>5 DEF ParseOne, Positional, Encodings, Names
    <3>2. names = before /\ encs = beforeEncs
      <4>1. \A i \in Positional \cup Encodings : i <= n <=> i <= n - 1
        BY <2>0, <2>3, <3>1
      <4> QED
        BY <4>1
    <3>3. second = beforeSecond /\ namesIn = beforeIn
      BY <3>2
    <3>4. p.in_file = in /\ p.out_file = out /\ p.encoding_to = e
      BY <1>1
    <3> HIDE DEF q, names, namesIn, second, encs, beforeEncs, before, beforeIn, beforeSecond
    <3>5. /\ p.exit = "none" /\ \A i \in Stopping : i > n
          /\ p.in_file = NameAt(namesIn) /\ p.out_file = NameAt(second)
          /\ encs # {} => p.encoding_to = Named(args[Last(encs)])
      BY <1>4, <2>1, <2>2, <3>2, <3>3, <3>4
    <3>6. ParsedTo(p, n)
      BY <1>1, <3>5, Zenon DEF ParsedTo, names, namesIn, second, encs
    <3> QED
      BY <3>1, <3>6 DEF q
  <2>6. CASE args[n] \notin Names /\ args[n] # "-i"
    <3>1. q = [encoding_to |-> Named(args[n]), in_file |-> in, out_file |-> out, exit |-> x]
      BY <1>1, <1>4, <2>6 DEF ParseOne
    <3>2. n \notin Positional /\ n \in Encodings
      BY <1>0, <1>4, <2>6 DEF Positional, Encodings
    <3>3. /\ names = before /\ second = beforeSecond /\ namesIn = beforeIn
          /\ encs = beforeEncs \cup {n}
      <4>1. \A i \in Positional : i <= n <=> i <= n - 1
        BY <2>0, <2>3, <3>2
      <4>2. \A i \in Encodings : i <= n <=> i <= n - 1 \/ i = n
        BY <2>0, <2>3
      <4>3. names = before
        BY <4>1
      <4>4. encs = beforeEncs \cup {n}
        BY <3>2, <4>2
      <4> QED
        BY <4>3, <4>4
    <3>4. Last(encs) = n
      <4>1. encs \in SUBSET Nat /\ n \in encs /\ \A j \in encs : j <= n
        BY <1>0, <2>3, <3>2
      <4> HIDE DEF encs
      <4> QED
        BY <4>1, LastIs
    <3> HIDE DEF q, names, namesIn, second, encs, beforeEncs, before, beforeIn, beforeSecond
    <3>5. /\ q.exit = "none" /\ q.in_file = in /\ q.out_file = out
          /\ q.encoding_to = Named(args[n])
          /\ \E e1, in1, out1, x1 :
               q = [encoding_to |-> e1, in_file |-> in1, out_file |-> out1, exit |-> x1]
      BY <1>1, <1>4, <3>1
    <3> QED
      BY <2>1, <2>2, <3>3, <3>4, <3>5 DEF ParsedTo, q, names, namesIn, second, encs
  <2> QED
    BY <2>4, <2>5, <2>6
<1> QED
  BY <1>2, <1>3, <1>4

\* What parse_args takes of all arguments, wherever they stand.
LEMMA ParsedAll == args \in Seq(STRING) => ParsedTo(Parsed, Len(args))
<1> SUFFICES ASSUME args \in Seq(STRING) PROVE ParsedTo(Parsed, Len(args))
  OBVIOUS
<1> DEFINE g == CHOOSE g : Parses(g, Len(args))
<1>1. Len(args) \in Nat
  OBVIOUS
<1>2. Parsed = g[Len(args)]
  BY DEF Parsed, Parses
<1>3. Parses(g, Len(args))
  BY <1>1, ParsesExists
<1> HIDE DEF g
<1> DEFINE Bad == {m \in 0 .. Len(args) : ~ParsedTo(g[m], m)}
<1>4. ASSUME Bad # {} PROVE FALSE
  <2>1. PICK m \in Bad : \A k \in Bad : m <= k
    <3>1. Bad \in SUBSET Nat
      OBVIOUS
    <3> HIDE DEF Bad
    <3> QED
      BY <1>4, <3>1, LeastNatural
  <2>2. m \in 0 .. Len(args) /\ ~ParsedTo(g[m], m)
    BY <2>1
  <2>3. CASE m = 0
    <3>1. g[m] = NotParsed
      BY <1>1, <1>3, <2>3 DEF Parses
    <3>2. \A i \in DOMAIN args : ~(i <= 0)
      OBVIOUS
    <3>3. /\ {i \in Positional : i <= 0} = {} /\ {i \in Encodings : i <= 0} = {}
          /\ \A i \in Stopping : i > 0
      BY <3>2 DEF Positional, Encodings, Stopping
    <3>4. ParsedTo(NotParsed, 0)
      BY <3>3 DEF ParsedTo, NotParsed, NameAt
    <3> QED
      BY <2>2, <2>3, <3>1, <3>4
  <2>4. CASE m # 0
    <3>1. m \in 1 .. Len(args) /\ m - 1 \in 0 .. Len(args) /\ ~(m <= m - 1)
      BY <2>2, <2>4
    <3>2. ParsedTo(g[m - 1], m - 1)
      BY <2>1, <3>1
    <3>3. g[m] = ParseOne(g[m - 1], args[m])
      BY <1>1, <1>3, <2>2, <2>4 DEF Parses
    <3> QED
      BY <2>2, <3>1, <3>2, <3>3, ParseOneArg
  <2> QED
    BY <2>3, <2>4
<1> QED
  BY <1>1, <1>2, <1>4

\* The arguments are parsed once, and what they set is kept.
OptionsInv == args \in ArgLists /\ OptionsAnywhere

LEMMA RealAreNames == Positional \cap Real = Real
  BY DEF Real

LEMMA OptionsKept == OptionsInv /\ [Next]_vars => OptionsInv'
<1> SUFFICES ASSUME OptionsInv, [Next]_vars PROVE OptionsInv'
  OBVIOUS
<1> USE DEF OptionsInv
<1>0. Positional' = Positional /\ Real' = Real /\ Stopping' = Stopping /\ Encodings' = Encodings
      /\ args' = args
  BY DEF Next, ParseArgs, CheckBom, Dispatch, Transcribe, EndOfFile, FromUtf8, FromUtf16,
         LittleToBig, BigToLittle, Continue, vars, file, Positional, Real, Stopping, Encodings
<1>1. CASE ParseArgs
  <2>1. ParsedTo(Parsed, Len(args))
    BY ArgsAssumption, ParsedAll
  <2>2. CASE Parsed.exit = "none"
    <3>1. \A i \in Positional \cup Stopping \cup Encodings : i <= Len(args) /\ ~(i > Len(args))
      BY ArgsAssumption DEF Positional, Stopping, Encodings
    <3>2. /\ {i \in Positional : i <= Len(args)} = Positional
          /\ {i \in Encodings : i <= Len(args)} = Encodings
      BY <3>1
    <3>3. /\ Stopping = {} /\ Parsed.in_file = NameAt(IF Real # {} THEN Real ELSE Positional)
          /\ Parsed.out_file = NameAt({i \in Positional : \E j \in Real : j < i})
          /\ Encodings # {} => Parsed.encoding_to = Named(args[Last(Encodings)])
      BY <2>1, <2>2, <3>1, <3>2, RealAreNames DEF ParsedTo
    <3> QED
      BY <1>0, <1>1, <3>3 DEF ParseArgs, OptionsAnywhere, NameAt
  <2>3. CASE Parsed.exit # "none"
    <3>1. pc' \in {"success", "failure"}
      BY <1>1, <2>1, <2>3 DEF ParseArgs, ParsedTo
    <3> QED
      BY <1>0, <3>1 DEF OptionsAnywhere
  <2> QED
    BY <2>2, <2>3
<1>2. CASE ~ParseArgs
  <2>1. /\ UNCHANGED <<encoding_to, in_file, out_file>>
        /\ pc' = pc \/ pc \in {"mark", "open", "convert", "transcribe"}
    BY <1>2 DEF Next, CheckBom, Dispatch, Transcribe, EndOfFile, FromUtf8, FromUtf16,
                LittleToBig, BigToLittle, Iteration, Continue, vars, state
  <2> QED
    BY <1>0, <2>1 DEF OptionsAnywhere, NameAt
<1> QED
  BY <1>1, <1>2

\* The first name is the input, bin/utf passed over while there is another, the
\* next one the output, and the last -e the one that counts, for every argument
\* list in which "--" is no argument.
THEOREM OptionsCorrect == Spec => []OptionsAnywhere
<1>1. Init => OptionsInv
  BY DEF Init, OptionsInv, OptionsAnywhere
<1>2. OptionsInv => OptionsAnywhere
  BY DEF OptionsInv
<1> QED
  BY <1>1, <1>2, OptionsKept, PTL DEF Spec

-----------------------------------------------------------------------------
(* The buffer *)

Buffers == [1 .. 4 -> Octet]

\* What read() leaves in the buffer, and how far it gets.
LEMMA ReadBytes ==
    ASSUME input \in Seq(Octet), NEW b \in Buffers, NEW i \in 1 .. 4,
           NEW at \in 0 .. Len(input), NEW n \in 0 .. 3, i + n <= 5
    PROVE  /\ Left(at) \in Nat /\ Got(at, n) \in 0 .. n /\ at + Got(at, n) \in 0 .. Len(input)
           /\ Got(at, n) = IF n <= Left(at) THEN n ELSE Left(at)
           /\ Read(b, i, at, n) \in Buffers
           /\ \A j \in 1 .. 4 :
                Read(b, i, at, n)[j] = IF j >= i /\ j < i + Got(at, n)
                                       THEN input[at + j - i + 1] ELSE b[j]
<1>1. Left(at) \in Nat /\ Left(at) = Len(input) - at
  BY DEF Left
<1>2. /\ Got(at, n) \in 0 .. n /\ Got(at, n) <= Left(at)
      /\ Got(at, n) = IF n <= Left(at) THEN n ELSE Left(at)
  BY <1>1 DEF Got
<1> DEFINE got == Got(at, n)
<1> HIDE DEF got
<1>3. got \in 0 .. n /\ got <= Len(input) - at
  BY <1>1, <1>2 DEF got
<1>4. Read(b, i, at, n) = [j \in 1 .. 4 |-> IF j \in i .. i + got - 1
                                            THEN input[at + j - i + 1] ELSE b[j]]
  BY DEF Read, got
<1>5. \A j \in 1 .. 4 : j \in i .. i + got - 1 <=> j >= i /\ j < i + got
  BY <1>3
<1>6. \A j \in 1 .. 4 : j >= i /\ j < i + got => input[at + j - i + 1] \in Octet
  <2> TAKE j \in 1 .. 4
  <2>1. j >= i /\ j < i + got => at + j - i + 1 \in 1 .. Len(input)
    BY <1>3
  <2> QED
    BY <2>1
<1>7. \A j \in 1 .. 4 : Read(b, i, at, n)[j] = IF j >= i /\ j < i + got
                                               THEN input[at + j - i + 1] ELSE b[j]
  BY <1>4, <1>5
<1>8. Read(b, i, at, n) \in Buffers
  <2>1. \A j \in 1 .. 4 : (IF j \in i .. i + got - 1 THEN input[at + j - i + 1] ELSE b[j]) \in Octet
    BY <1>5, <1>6 DEF Buffers
  <2> QED
    BY <1>4, <2>1 DEF Buffers
<1> QED
  BY <1>1, <1>2, <1>3, <1>7, <1>8 DEF got

LEMMA SwapBytes ==
    ASSUME NEW b \in Buffers, NEW i \in 1 .. 3
    PROVE  /\ Swap(b, i) \in Buffers
           /\ Swap(b, i)[i] = b[i + 1] /\ Swap(b, i)[i + 1] = b[i]
           /\ \A j \in 1 .. 4 : j # i /\ j # i + 1 => Swap(b, i)[j] = b[j]
<1>1. i \in 1 .. 4 /\ i + 1 \in 1 .. 4 /\ i # i + 1
  OBVIOUS
<1>2. b[i] \in Octet /\ b[i + 1] \in Octet
  BY <1>1 DEF Buffers
<1> QED
  BY <1>1, <1>2 DEF Swap, Buffers

\* A code point and a glyph can be made of any buffer.
LEMMA GlyphOfAny ==
    ASSUME NEW cp \in Int
    PROVE  /\ Utf8Glyph(cp) \in Seq(Int) /\ Len(Utf8Glyph(cp)) > 0
           /\ \A to : Utf16Glyph(to, cp) \in Seq(Int) /\ Len(Utf16Glyph(to, cp)) > 0
<1>1. Continued(cp) \in Int /\ \A k \in {64, 4096} : Continued(cp \div k) \in Int
  BY SMT DEF Continued
<1>2. Utf8Glyph(cp) \in Seq(Int) /\ Len(Utf8Glyph(cp)) > 0
  BY SMT, <1>1 DEF Utf8Glyph, Utf8Size
<1>3. ASSUME NEW to PROVE Utf16Glyph(to, cp) \in Seq(Int) /\ Len(Utf16Glyph(to, cp)) > 0
  <2> DEFINE units == IF cp >= 65536
                      THEN Pair(55296 + ((cp - 65536) \div 1024), 56320 + ((cp - 65536) % 1024))
                      ELSE Single(cp)
  <2>1. units \in Seq(Int) /\ Len(units) \in {2, 4}
    BY SMT DEF Pair, Single
  <2>2. Utf16Glyph(to, cp) = IF to = "UTF16LE" THEN units
          ELSE [i \in DOMAIN units |-> IF i % 2 = 1 THEN units[i + 1] ELSE units[i - 1]]
    BY DEF Utf16Glyph
  <2> HIDE DEF units
  <2>3. \A i \in DOMAIN units : (IF i % 2 = 1 THEN units[i + 1] ELSE units[i - 1]) \in Int
    <3>1. CASE Len(units) = 2
      <4>1. DOMAIN units = {1, 2} /\ units[1] \in Int /\ units[2] \in Int
        BY <2>1, <3>1
      <4> QED
        BY SMT, <4>1
    <3>2. CASE Len(units) = 4
      <4>0. DOMAIN units = 1 .. Len(units) /\ \A i \in 1 .. Len(units) : units[i] \in Int
        BY <2>1
      <4>1. DOMAIN units = 1 .. 4 /\ \A i \in 1 .. 4 : units[i] \in Int
        BY <3>2, <4>0, Zenon
      <4>2. \A i \in 1 .. 4 : IF i % 2 = 1 THEN i + 1 \in 1 .. 4 ELSE i - 1 \in 1 .. 4
        BY SMT
      <4> QED
        BY <4>1, <4>2
    <3> QED
      BY <2>1, <3>1, <3>2
  <2>4. DOMAIN units = 1 .. Len(units) /\ Len(units) \in Nat /\ Len(units) > 0
    BY <2>1
  <2>5. [i \in DOMAIN units |-> IF i % 2 = 1 THEN units[i + 1] ELSE units[i - 1]] \in Seq(Int)
    BY <2>3, <2>4
  <2>6. Len([i \in DOMAIN units |-> IF i % 2 = 1 THEN units[i + 1] ELSE units[i - 1]]) = Len(units)
    BY <2>4
  <2> QED
    BY <2>1, <2>2, <2>4, <2>5, <2>6
<1> QED
  BY <1>2, <1>3

LEMMA CodePointOfAny ==
    ASSUME NEW b \in Buffers
    PROVE  Utf16CodePoint(b) \in Int /\ \A n \in 1 .. 4 : Utf8CodePoint(b, n) \in Int
<1>1. b[1] \in Nat /\ b[2] \in Nat /\ b[3] \in Nat /\ b[4] \in Nat
  BY DEF Buffers, Octet
<1>2. Upper(b) \in Int /\ Lower(b) \in Int
  BY <1>1 DEF Upper, Lower
<1>3. Utf16CodePoint(b) \in Int
  BY SMT, <1>2 DEF Utf16CodePoint
<1>4. \A n \in 1 .. 4 : Utf8CodePoint(b, n) \in Int
  <2>1. \A x \in Nat : x % 32 \in Int /\ x % 64 \in Int /\ x % 16 \in Int /\ x % 8 \in Int
    BY SMT
  <2> DEFINE low(i) == b[i] % 64
  <2>2. /\ \A i \in 1 .. 4 : low(i) \in Int
        /\ b[1] % 32 \in Int /\ b[1] % 16 \in Int /\ b[1] % 8 \in Int
    BY <1>1, <2>1
  <2>3. \A n \in 1 .. 4 : Utf8CodePoint(b, n) =
            IF n = 1 THEN b[1]
            ELSE IF n = 2 THEN (b[1] % 32) * 64 + low(2)
            ELSE IF n = 3 THEN (b[1] % 16) * 4096 + low(2) * 64 + low(3)
            ELSE ((b[1] % 8) * 64) * 4096 + low(2) * 4096 + low(3) * 64 + low(4)
    BY DEF Utf8CodePoint
  <2> DEFINE five == b[1] % 32
             four == b[1] % 16
             three == b[1] % 8
  <2> HIDE DEF low, five, four, three
  <2>4. /\ five * 64 + low(2) \in Int /\ four * 4096 + low(2) * 64 + low(3) \in Int
        /\ (three * 64) * 4096 + low(2) * 4096 + low(3) * 64 + low(4) \in Int
    BY <2>2 DEF five, four, three
  <2> QED
    BY <1>1, <2>3, <2>4 DEF five, four, three
<1> QED
  BY <1>3, <1>4

-----------------------------------------------------------------------------
(* Where the converter is *)

\* The marked encoding is that of the file; converting starts with nothing read
\* and nothing written, and only from a marked input to another file.
PhaseInv ==
    /\ buf \in Buffers /\ pos \in 0 .. Len(input) /\ output \in Seq(Int)
    /\ pc \in {"parse", "mark", "open", "convert", "transcribe", "crash", "success", "failure"}
    /\ pc \in {"parse", "mark", "open"} => pos = 0 /\ output = <<>>
    /\ pc \in {"parse", "mark"} => encoding_from = "none"
    /\ encoding_from # "none" => encoding_from = format /\ text[1] = Mark
    /\ pc \in {"open", "convert", "transcribe"} \/ output # <<>> =>
         encoding_from # "none" /\ in_file = "in" /\ out_file \notin {"in", "none"}
    /\ pc = "convert" => encoding_to \in Formats /\ encoding_to # encoding_from
    /\ pc = "transcribe" => encoding_to = encoding_from

\* What an iteration of a loop does to the state it has.
Iterates(b, at, written) ==
    /\ b \in Buffers /\ at \in 0 .. Len(input) /\ written \in Seq(Int)
    /\ buf' = b /\ pos' = at /\ output' = output \o written

LEMMA Utf8Step ==
    ASSUME InputInv, PhaseInv, FromUtf8
    PROVE  LET first == Read(buf, 1, pos, 1)
               n     == Remaining(first[1])
               glyph == Read(first, 2, pos + 1, n)
           IN  /\ first \in Buffers /\ first[1] = input[pos + 1]
               /\ n \in 0 .. 3 /\ pos + 1 \in 0 .. Len(input)
               /\ Iterates(glyph, pos + 1 + Got(pos + 1, n),
                           Utf16Glyph(encoding_to, Utf8CodePoint(glyph, n + 1)))
               /\ Len(Utf16Glyph(encoding_to, Utf8CodePoint(glyph, n + 1))) > 0
<1> DEFINE first == Read(buf, 1, pos, 1)
           n     == Remaining(first[1])
           glyph == Read(first, 2, pos + 1, n)
           cp    == Utf8CodePoint(glyph, n + 1)
<1>1. /\ input \in Seq(Octet) /\ buf \in Buffers /\ pos \in 0 .. Len(input)
  BY DEF InputInv, PhaseInv
<1>2. /\ buf' = glyph /\ pos' = pos + 1 + Got(pos + 1, n)
      /\ output' = output \o Utf16Glyph(encoding_to, cp)
  BY DEF FromUtf8, Continue
<1>3. Left(pos) > 0
  BY DEF FromUtf8, Iteration
<1>4. /\ Left(pos) \in Nat /\ first \in Buffers
      /\ Got(pos, 1) = IF 1 <= Left(pos) THEN 1 ELSE Left(pos)
      /\ \A j \in 1 .. 4 : first[j] = IF j >= 1 /\ j < 1 + Got(pos, 1)
                                      THEN input[pos + j - 1 + 1] ELSE buf[j]
  BY <1>1, ReadBytes
<1>5. Got(pos, 1) = 1
  BY <1>3, <1>4
<1>6. first[1] = input[pos + 1]
  <2>1. 1 \in 1 .. 4 /\ 1 >= 1 /\ 1 < 1 + 1 /\ pos + 1 - 1 + 1 = pos + 1
    BY <1>1
  <2> QED
    BY <1>4, <1>5, <2>1
<1>7. n \in 0 .. 3
  BY DEF Remaining
<1>8. pos + 1 \in 0 .. Len(input)
  BY <1>1, <1>3, <1>4 DEF Left
<1> HIDE DEF first, n
<1>9. glyph \in Buffers /\ pos + 1 + Got(pos + 1, n) \in 0 .. Len(input)
  <2> DEFINE at == pos + 1
  <2>1. 2 \in 1 .. 4 /\ 2 + n <= 5 /\ at \in 0 .. Len(input)
    BY <1>7, <1>8
  <2> HIDE DEF at
  <2>2. Read(first, 2, at, n) \in Buffers /\ at + Got(at, n) \in 0 .. Len(input)
    BY <1>1, <1>4, <1>7, <2>1, ReadBytes
  <2> QED
    BY <2>2 DEF at
<1> HIDE DEF glyph
<1>10. n + 1 \in 1 .. 4
  BY <1>7
<1>11. cp \in Int
  BY <1>9, <1>10, CodePointOfAny
<1> HIDE DEF cp
<1>12. Utf16Glyph(encoding_to, cp) \in Seq(Int) /\ Len(Utf16Glyph(encoding_to, cp)) > 0
  BY <1>11, GlyphOfAny
<1> QED
  BY <1>2, <1>4, <1>6, <1>7, <1>8, <1>9, <1>12 DEF Iterates, first, n, glyph, cp

\* A 16-bit number of the input in the buffer, as far as the file has it.
LEMMA UnitBytes ==
    ASSUME input \in Seq(Octet), NEW b \in Buffers, NEW i \in {1, 3}, NEW at \in 0 .. Len(input)
    PROVE  /\ Read(b, i, at, 2) \in Buffers /\ Swap(Read(b, i, at, 2), i) \in Buffers
           /\ ReadUnit(b, i, at) \in Buffers
           /\ Got(at, 2) \in 0 .. 2 /\ at + Got(at, 2) \in 0 .. Len(input)
           /\ Left(at) \in Nat /\ Got(at, 2) = IF 2 <= Left(at) THEN 2 ELSE Left(at)
<1>1. i \in 1 .. 4 /\ i \in 1 .. 3 /\ 2 \in 0 .. 3 /\ i + 2 <= 5
  OBVIOUS
<1>2. /\ Left(at) \in Nat /\ Got(at, 2) \in 0 .. 2 /\ at + Got(at, 2) \in 0 .. Len(input)
      /\ Got(at, 2) = IF 2 <= Left(at) THEN 2 ELSE Left(at)
      /\ Read(b, i, at, 2) \in Buffers
  BY <1>1, ReadBytes
<1>3. Swap(Read(b, i, at, 2), i) \in Buffers
  BY <1>1, <1>2, SwapBytes
<1> QED
  BY <1>2, <1>3 DEF ReadUnit

LEMMA Utf16Step ==
    ASSUME InputInv, PhaseInv, FromUtf16
    PROVE  LET unit  == ReadUnit(buf, 1, pos)
               at    == pos + Got(pos, 2)
               whole == IF IsUpperSurrogate(unit) THEN ReadUnit(unit, 3, at) ELSE unit
           IN  /\ unit \in Buffers /\ at \in 0 .. Len(input)
               /\ Iterates(whole, IF IsUpperSurrogate(unit) THEN at + Got(at, 2) ELSE at,
                           Utf8Glyph(Utf16CodePoint(whole)))
               /\ Len(Utf8Glyph(Utf16CodePoint(whole))) > 0
<1> DEFINE unit  == ReadUnit(buf, 1, pos)
           at    == pos + Got(pos, 2)
           whole == IF IsUpperSurrogate(unit) THEN ReadUnit(unit, 3, at) ELSE unit
           cp    == Utf16CodePoint(whole)
           to    == IF IsUpperSurrogate(unit) THEN at + Got(at, 2) ELSE at
<1>1. /\ input \in Seq(Octet) /\ buf \in Buffers /\ pos \in 0 .. Len(input)
  BY DEF InputInv, PhaseInv
<1>2. buf' = whole /\ pos' = to /\ output' = output \o Utf8Glyph(cp)
  BY DEF FromUtf16, Continue
<1>3. unit \in Buffers /\ at \in 0 .. Len(input)
  BY <1>1, UnitBytes
<1> HIDE DEF unit, at
<1>4. whole \in Buffers /\ to \in 0 .. Len(input)
  <2>1. ReadUnit(unit, 3, at) \in Buffers /\ at + Got(at, 2) \in 0 .. Len(input)
    BY <1>1, <1>3, UnitBytes
  <2> QED
    BY <1>3, <2>1
<1> HIDE DEF whole, to
<1>5. cp \in Int
  BY <1>4, CodePointOfAny
<1> HIDE DEF cp
<1>6. Utf8Glyph(cp) \in Seq(Int) /\ Len(Utf8Glyph(cp)) > 0
  BY <1>5, GlyphOfAny
<1> QED
  BY <1>2, <1>3, <1>4, <1>6 DEF Iterates, unit, at, whole, cp, to

LEMMA FunctionIsSeq ==
    ASSUME NEW S, NEW n \in Nat, NEW s \in [1 .. n -> S]
    PROVE  s \in Seq(S) /\ Len(s) = n
  OBVIOUS

LEMMA FirstTwo ==
    ASSUME NEW S, NEW s \in Seq(S), Len(s) >= 2
    PROVE  SubSeq(s, 1, 2) = <<s[1], s[2]>>
<1> DEFINE two == SubSeq(s, 1, 2)
<1>1. Len(two) = 2 /\ two \in Seq(S)
  OBVIOUS
<1>2. two[1] = s[1] /\ two[2] = s[2]
  OBVIOUS
<1> HIDE DEF two
<1>3. two = <<two[1], two[2]>>
  BY <1>1
<1> QED
  BY <1>2, <1>3 DEF two

LEMMA BufferIsSeq ==
    ASSUME NEW b \in Buffers
    PROVE  /\ b \in Seq(Octet) /\ b \in Seq(Int) /\ Len(b) = 4
           /\ SubSeq(b, 1, 2) = <<b[1], b[2]>> /\ <<b[1], b[2]>> \in Seq(Int)
<1>1. b \in Seq(Octet) /\ Len(b) = 4
  BY FunctionIsSeq DEF Buffers
<1>2. b \in [1 .. 4 -> Int]
  BY DEF Buffers, Octet
<1>3. b \in Seq(Int)
  BY <1>2, FunctionIsSeq
<1>4. b[1] \in Int /\ b[2] \in Int
  BY <1>2
<1>5. SubSeq(b, 1, 2) = <<b[1], b[2]>>
  <2>1. Len(b) >= 2
    BY <1>1
  <2> QED
    BY <1>1, <2>1, FirstTwo
<1>6. <<b[1], b[2]>> \in Seq(Int)
  BY <1>4
<1> QED
  BY <1>1, <1>3, <1>5, <1>6

LEMMA LittleToBigStep ==
    ASSUME InputInv, PhaseInv, LittleToBig
    PROVE  LET unit == Swap(Read(buf, 1, pos, 2), 1)
               at   == pos + Got(pos, 2)
               both == Swap(Read(unit, 3, at, 2), 3)
           IN  /\ unit \in Buffers /\ both \in Buffers /\ at \in 0 .. Len(input)
               /\ IF IsLowerSurrogate(unit)
                  THEN Iterates(both, at + Got(at, 2), both)
                  ELSE Iterates(unit, at, <<unit[1], unit[2]>>)
<1> DEFINE unit == Swap(Read(buf, 1, pos, 2), 1)
           at   == pos + Got(pos, 2)
           both == Swap(Read(unit, 3, at, 2), 3)
<1>1. /\ input \in Seq(Octet) /\ buf \in Buffers /\ pos \in 0 .. Len(input)
  BY DEF InputInv, PhaseInv
<1>2. IF IsLowerSurrogate(unit)
      THEN buf' = both /\ pos' = at + Got(at, 2) /\ output' = output \o both
      ELSE buf' = unit /\ pos' = at /\ output' = output \o SubSeq(unit, 1, 2)
  BY DEF LittleToBig, Continue
<1>3. unit \in Buffers /\ at \in 0 .. Len(input)
  BY <1>1, UnitBytes
<1> HIDE DEF unit, at
<1>4. both \in Buffers /\ at + Got(at, 2) \in 0 .. Len(input)
  BY <1>1, <1>3, UnitBytes
<1> HIDE DEF both
<1> QED
  BY <1>2, <1>3, <1>4, BufferIsSeq DEF Iterates, unit, at, both

LEMMA BigToLittleStep ==
    ASSUME InputInv, PhaseInv, BigToLittle
    PROVE  /\ buf' \in Buffers /\ pos' \in 0 .. Len(input) /\ output' \in Seq(Int)
           /\ pc' \in {"convert", "success"}
           /\ UNCHANGED <<file, state>>
<1> DEFINE unit == Swap(Read(buf, 1, pos, 2), 1)
           at   == pos + Got(pos, 2)
           mark == <<0, 255, 254, 0>>
<1>1. /\ input \in Seq(Octet) /\ buf \in Buffers /\ pos \in 0 .. Len(input) /\ output \in Seq(Int)
      /\ pc = "convert"
  BY DEF InputInv, PhaseInv, BigToLittle, Iteration
<1>2. unit \in Buffers /\ at \in 0 .. Len(input)
  BY <1>1, UnitBytes
<1>3. /\ UNCHANGED <<file, state>>
      /\ \/ pc' = "success" /\ buf' = Read(unit, 3, at, 2) /\ pos' = at + Got(at, 2)
            /\ output' = output
         \/ \E past \in Garbage :
              /\ buf' = Swap(unit, 3) /\ pos' = at /\ pc' = pc
              /\ output' = output \o (mark \o SubSeq(past, 1, 2))
         \/ buf' = unit /\ pos' = at /\ pc' = pc /\ output' = output \o mark
  <2>1. IF IsLowerSurrogate(unit) /\ Left(at) > 0
        THEN /\ pc' = "success" /\ buf' = Read(unit, 3, at, 2) /\ pos' = at + Got(at, 2)
             /\ UNCHANGED <<file, state, output>>
        ELSE IF IsLowerSurrogate(unit)
        THEN \E past \in Garbage : Continue(Swap(unit, 3), at, mark \o SubSeq(past, 1, 2))
        ELSE Continue(unit, at, mark)
    BY Zenon DEF BigToLittle
  <2> HIDE DEF unit, at, mark
  <2>2. CASE IsLowerSurrogate(unit) /\ Left(at) > 0
    BY <2>1, <2>2
  <2>3. CASE IsLowerSurrogate(unit) /\ ~(Left(at) > 0)
    BY <2>1, <2>3, Zenon DEF Continue
  <2>4. CASE ~IsLowerSurrogate(unit)
    BY <2>1, <2>4, Zenon DEF Continue
  <2> QED
    BY <2>2, <2>3, <2>4
<1> HIDE DEF unit, at
<1>4. /\ Read(unit, 3, at, 2) \in Buffers /\ at + Got(at, 2) \in 0 .. Len(input)
  BY <1>1, <1>2, UnitBytes
<1>5. Swap(unit, 3) \in Buffers
  BY <1>2, SwapBytes
<1>6. mark \in Seq(Int)
  OBVIOUS
<1>7. ASSUME NEW past \in Garbage PROVE SubSeq(past, 1, 2) \in Seq(Int)
  <2>1. past \in Buffers
    BY BufferAssumption DEF Buffers, Octet
  <2> QED
    BY <2>1, BufferIsSeq
<1> HIDE DEF mark
<1>8. output' \in Seq(Int)
  <2>1. ASSUME NEW past \in Garbage PROVE output \o (mark \o SubSeq(past, 1, 2)) \in Seq(Int)
    BY <1>1, <1>6, <1>7
  <2>2. output \o mark \in Seq(Int)
    BY <1>1, <1>6
  <2> QED
    BY <1>1, <1>3, <2>1, <2>2, Zenon
<1> QED
  BY <1>1, <1>2, <1>3, <1>4, <1>5, <1>8

LEMMA FileKept == [Next]_vars => UNCHANGED file
  BY DEF Next, ParseArgs, CheckBom, Dispatch, Transcribe, EndOfFile, FromUtf8, FromUtf16,
         LittleToBig, BigToLittle, Continue, vars

LEMMA InputKept == InputInv /\ [Next]_vars => InputInv'
  BY FileKept DEF InputInv, Whole, file

LEMMA PhaseKept == InputInv /\ OptionsInv /\ PhaseInv /\ [Next]_vars => PhaseInv'
<1> SUFFICES ASSUME InputInv, OptionsInv, PhaseInv, [Next]_vars PROVE PhaseInv'
  OBVIOUS
<1> USE DEF file, state
<1>1. CASE UNCHANGED vars
  BY <1>1 DEF PhaseInv, vars
<1>2. CASE ParseArgs
  <2>1. Parsed.exit \in {"none", "success", "failure"}
    BY ArgsAssumption, ParsedAll DEF OptionsInv, ParsedTo
  <2>2. pc' \in {"mark", "success", "failure"} /\ pc = "parse"
    BY <1>2, <2>1 DEF ParseArgs
  <2> QED
    BY <1>2, <2>2 DEF ParseArgs, PhaseInv
<1>3. CASE CheckBom
  <2>1. Marked # "none" => Marked = format /\ text[1] = Mark
    BY MarkedIsFormat
  <2>2. /\ pc = "mark" /\ pc' \in {"open", "failure"}
        /\ pc' = "open" => in_file = "in" /\ Marked # "none" /\ out_file \notin {"in", "none"}
        /\ encoding_from' = IF in_file = "in" THEN Marked ELSE "none"
        /\ UNCHANGED <<text, format, input, encoding_to, in_file, out_file, buf, pos, output>>
    BY <1>3 DEF CheckBom
  <2> QED
    BY <2>1, <2>2 DEF PhaseInv
<1>4. CASE Dispatch
  <2>1. /\ pc = "open"
        /\ \/ pc' = "crash"
           \/ pc' = "transcribe" /\ encoding_to = encoding_from
           \/ pc' = "convert" /\ encoding_to \in Formats /\ encoding_to # encoding_from
        /\ UNCHANGED <<file, state, buf, pos>>
    BY <1>4 DEF Dispatch
  <2>2. output' \in {<<254, 255>>, <<0, 255>>, <<>>}
    BY <1>4 DEF Dispatch
  <2>3. <<254, 255>> \in Seq(Int) /\ <<0, 255>> \in Seq(Int) /\ <<>> \in Seq(Int)
    OBVIOUS
  <2>4. output' \in Seq(Int)
    BY <2>2, <2>3, Zenon
  <2> QED
    BY <2>1, <2>4 DEF PhaseInv
<1>5. CASE Transcribe
  <2>1. input \in Seq(Int) /\ Len(input) \in 0 .. Len(input)
    <3>1. /\ input \in [1 .. Len(input) -> Octet] /\ Len(input) \in Nat
      BY DEF InputInv
    <3>2. Octet \subseteq Int
      BY DEF Octet
    <3>3. input \in [1 .. Len(input) -> Int]
      BY <3>1, <3>2
    <3> QED
      BY <3>1, <3>3, FunctionIsSeq
  <2> QED
    BY <1>5, <2>1 DEF Transcribe, PhaseInv
<1>6. CASE EndOfFile
  BY <1>6 DEF EndOfFile, PhaseInv
<1>7. CASE FromUtf8 \/ FromUtf16 \/ LittleToBig
  <2>1. \E b, at, written : Iterates(b, at, written)
    <3>1. CASE FromUtf8
      BY <3>1, Utf8Step
    <3>2. CASE FromUtf16
      BY <3>2, Utf16Step
    <3>3. CASE LittleToBig
      BY <3>3, LittleToBigStep
    <3> QED
      BY <1>7, <3>1, <3>2, <3>3
  <2>2. pc = "convert" /\ UNCHANGED <<file, state, pc>>
    BY <1>7 DEF FromUtf8, FromUtf16, LittleToBig, Iteration, Continue
  <2>3. buf' \in Buffers /\ pos' \in 0 .. Len(input) /\ output' \in Seq(Int)
    BY <2>1 DEF Iterates, PhaseInv
  <2> QED
    BY <2>2, <2>3 DEF PhaseInv
<1>8. CASE BigToLittle
  <2>1. pc = "convert"
    BY <1>8 DEF BigToLittle, Iteration
  <2> QED
    BY <1>8, <2>1, BigToLittleStep DEF PhaseInv
<1> QED
  BY <1>1, <1>2, <1>3, <1>4, <1>5, <1>6, <1>7, <1>8 DEF Next

LEMMA InitPhase == Init => OptionsInv /\ PhaseInv
<1> SUFFICES ASSUME Init PROVE OptionsInv /\ PhaseInv
  OBVIOUS
<1>1. InputInv
  BY InitInput
<1>2. buf \in Buffers
  BY BufferAssumption DEF Init, Buffers, Octet
<1>3. 0 \in 0 .. Len(input)
  BY <1>1 DEF InputInv
<1>4. /\ args \in ArgLists /\ pc = "parse" /\ pos = 0 /\ output = <<>>
      /\ encoding_from = "none"
  BY DEF Init
<1>5. <<>> \in Seq(Int)
  OBVIOUS
<1> QED
  BY <1>2, <1>3, <1>4, <1>5 DEF OptionsInv, OptionsAnywhere, PhaseInv

LEMMA ConverterInvariant == Spec => [](InputInv /\ OptionsInv /\ PhaseInv)
<1>1. Init => InputInv /\ OptionsInv /\ PhaseInv
  BY InitInput, InitPhase
<1>2. InputInv /\ OptionsInv /\ PhaseInv /\ [Next]_vars => (InputInv /\ OptionsInv /\ PhaseInv)'
  BY InputKept, OptionsKept, PhaseKept
<1> QED
  BY <1>1, <1>2, PTL DEF Spec

\* Whatever the text, its format, the damage and the arguments, nothing is
\* written unless the mark of the input names the encoding the input is in, and
\* nothing is ever written to the input file.
THEOREM OnlyMarkedCorrect == Spec => []OnlyMarkedIsRead
<1>1. PhaseInv => OnlyMarkedIsRead
  BY DEF PhaseInv, OnlyMarkedIsRead
<1> QED
  BY <1>1, ConverterInvariant, PTL

-----------------------------------------------------------------------------
(* From UTF-16LE to UTF-16BE *)

BigEndian == encoding_from = "UTF16LE" /\ encoding_to = "UTF16BE" /\ Len(input) % 2 = 0

LEMMA Joined ==
    ASSUME NEW S, NEW s \in Seq(S), NEW t \in Seq(S), NEW u \in Seq(S),
           Len(u) = Len(s) + Len(t),
           \A i \in 1 .. Len(s) : u[i] = s[i],
           \A i \in 1 .. Len(t) : u[Len(s) + i] = t[i]
    PROVE  u = s \o t
<1>1. s \o t \in Seq(S) /\ Len(s \o t) = Len(s) + Len(t)
  OBVIOUS
<1>2. \A i \in 1 .. Len(u) : u[i] = (s \o t)[i]
  <2> TAKE i \in 1 .. Len(u)
  <2>1. CASE i <= Len(s)
    BY <2>1
  <2>2. CASE i > Len(s)
    <3>1. i - Len(s) \in 1 .. Len(t) /\ Len(s) + (i - Len(s)) = i
      BY <2>2
    <3>2. u[i] = t[i - Len(s)]
      BY <3>1
    <3> QED
      BY <2>2, <3>2
  <2> QED
    BY <2>1, <2>2
<1> QED
  BY <1>1, <1>2

\* The input turned around, its own mark too, grows by whole units.
LEMMA SwappedNext ==
    ASSUME input \in Seq(Octet), NEW n \in Nat, n % 2 = 0, n + 2 <= Len(input)
    PROVE  /\ Swapped(0, n) \in Seq(Octet) /\ Len(Swapped(0, n)) = n
           /\ Swapped(0, n + 2) = Swapped(0, n) \o <<input[n + 2], input[n + 1]>>
<1>0. Len(input) \in Nat
  OBVIOUS
<1>1. ASSUME NEW m \in Nat, m % 2 = 0, m <= Len(input)
      PROVE  Swapped(0, m) \in Seq(Octet) /\ Len(Swapped(0, m)) = m
  <2>1. ASSUME NEW i \in 1 .. m
        PROVE  (IF i % 2 = 1 THEN input[i + 1] ELSE input[i - 1]) \in Octet
    <3>1. CASE i % 2 = 1
      <4>1. i # m
        BY <1>1, <3>1
      <4>2. i + 1 \in 1 .. Len(input)
        BY <1>0, <1>1, <4>1
      <4> QED
        BY <3>1, <4>2
    <3>2. CASE i % 2 # 1
      <4>1. i # 1
        BY SMT, <3>2
      <4>2. i - 1 \in 1 .. Len(input)
        BY <1>0, <1>1, <4>1
      <4> QED
        BY <3>2, <4>2
    <3> QED
      BY <3>1, <3>2
  <2>2. Swapped(0, m) \in [1 .. m -> Octet]
    BY <2>1 DEF Swapped
  <2> QED
    BY <2>2, FunctionIsSeq
<1>2. (n + 2) % 2 = 0 /\ n + 2 \in Nat
  BY SMT
<1>3. Swapped(0, n) \in Seq(Octet) /\ Len(Swapped(0, n)) = n
  <2>1. n <= Len(input)
    BY <1>0
  <2> QED
    BY <1>1, <2>1
<1>4. Swapped(0, n + 2) \in Seq(Octet) /\ Len(Swapped(0, n + 2)) = n + 2
  BY <1>0, <1>1, <1>2
<1> DEFINE more == <<input[n + 2], input[n + 1]>>
<1>5. more \in Seq(Octet) /\ Len(more) = 2 /\ more[1] = input[n + 2] /\ more[2] = input[n + 1]
  BY <1>0
<1>6. /\ \A i \in 1 .. n : Swapped(0, n + 2)[i] = Swapped(0, n)[i]
      /\ Swapped(0, n + 2)[n + 1] = input[n + 2] /\ Swapped(0, n + 2)[n + 2] = input[n + 1]
  <2>1. (n + 1) % 2 = 1 /\ (n + 2) % 2 # 1
    BY SMT
  <2> QED
    BY <2>1 DEF Swapped
<1> HIDE DEF more
<1>7. \A i \in 1 .. 2 : Swapped(0, n + 2)[n + i] = more[i]
  BY <1>5, <1>6
<1>8. /\ \A i \in 1 .. Len(more) : Swapped(0, n + 2)[Len(Swapped(0, n)) + i] = more[i]
      /\ \A i \in 1 .. Len(Swapped(0, n)) : Swapped(0, n + 2)[i] = Swapped(0, n)[i]
      /\ Len(Swapped(0, n + 2)) = Len(Swapped(0, n)) + Len(more)
  BY <1>3, <1>4, <1>5, <1>6, <1>7
<1>9. Swapped(0, n + 2) = Swapped(0, n) \o more
  BY <1>3, <1>4, <1>5, <1>8, Joined
<1> QED
  BY <1>3, <1>9 DEF more

LEMMA OctetsAreInts ==
    ASSUME NEW s \in Seq(Octet) PROVE s \in Seq(Int)
<1>1. s \in [1 .. Len(s) -> Octet] /\ Len(s) \in Nat
  OBVIOUS
<1>2. Octet \subseteq Int
  BY DEF Octet
<1>3. s \in [1 .. Len(s) -> Int]
  BY <1>1, <1>2
<1> QED
  BY <1>1, <1>3, FunctionIsSeq

LEMMA Associative ==
    \A s, t, u \in Seq(Int) : (s \o t) \o u = s \o (t \o u)
  OBVIOUS

LEMMA AfterJoined ==
    \A s, t \in Seq(Int) : \A i \in 1 .. Len(t) : (s \o t)[Len(s) + i] = t[i]
  OBVIOUS

LEMMA PrefixOfJoined ==
    ASSUME NEW S, NEW s \in Seq(S), NEW t \in Seq(S)
    PROVE  /\ s \o t \in Seq(S) /\ Len(s \o t) = Len(s) + Len(t)
           /\ SubSeq(s \o t, 1, Len(s)) = s
<1>1. s \o t \in Seq(S) /\ Len(s \o t) = Len(s) + Len(t)
      /\ \A i \in 1 .. Len(s) : (s \o t)[i] = s[i]
  OBVIOUS
<1> DEFINE st == s \o t
<1> HIDE DEF st
<1>2. st \in Seq(S) /\ Len(s) <= Len(st) /\ Len(s) \in Nat /\ \A i \in 1 .. Len(s) : st[i] = s[i]
  BY <1>1 DEF st
<1> DEFINE p == SubSeq(st, 1, Len(s))
<1>3. p \in Seq(S) /\ Len(p) = Len(s) /\ \A i \in 1 .. Len(s) : p[i] = st[i]
  BY <1>2
<1> HIDE DEF p
<1>4. p = s
  BY <1>2, <1>3
<1> QED
  BY <1>1, <1>4 DEF p, st

\* What has been written: every unit read, turned around once, behind the mark;
\* at the end of the file one may have been written again.
MarkAnd(n) == <<254, 255>> \o Swapped(0, n)

SwapsSoFar == pos % 2 = 0 /\ output = MarkAnd(pos)
SwapsLast  ==
    /\ pos % 2 = 0 /\ pos = Len(input)
    /\ Len(output) = Len(MarkAnd(pos)) + 2 /\ SubSeq(output, 1, Len(MarkAnd(pos))) = MarkAnd(pos)
    /\ LastWritten > 56320 /\ LastWritten < 57343

SwapInv == Converting /\ BigEndian => SwapsSoFar \/ SwapsLast

\* The units turned around in the buffer, and what is written of them.
LEMMA SwapStep ==
    ASSUME InputInv, PhaseInv, BigEndian, LittleToBig, SwapsSoFar
    PROVE  SwapsSoFar' \/ SwapsLast'
<1> DEFINE unit == Swap(Read(buf, 1, pos, 2), 1)
           at   == pos + Got(pos, 2)
           both == Swap(Read(unit, 3, at, 2), 3)
           mark == <<254, 255>>
           more(n) == <<input[n + 2], input[n + 1]>>
           rest == <<both[3], both[4]>>
<1> HIDE DEF unit, at, both, mark, more, rest
<1>1. /\ input \in Seq(Octet) /\ buf \in Buffers /\ pos \in 0 .. Len(input)
      /\ Len(input) \in Nat /\ pos \in Nat /\ Len(input) % 2 = 0 /\ pos % 2 = 0
  <2>1. input \in Seq(Octet) /\ buf \in Buffers /\ pos \in 0 .. Len(input)
    BY DEF InputInv, PhaseInv
  <2>2. Len(input) % 2 = 0 /\ pos % 2 = 0
    BY DEF BigEndian, SwapsSoFar
  <2> QED
    BY <2>1, <2>2
<1>2. Left(pos) > 0
  BY DEF LittleToBig, Iteration
<1>3. pos + 2 <= Len(input)
  <2>1. pos < Len(input)
    BY <1>1, <1>2 DEF Left
  <2> QED
    BY SMT, <1>1, <2>1
<1>4. Got(pos, 2) = 2 /\ at = pos + 2
  BY <1>1, <1>3 DEF Got, Left, at
<1>5. /\ unit \in Buffers /\ unit[1] = input[pos + 2] /\ unit[2] = input[pos + 1]
  <2> DEFINE r == Read(buf, 1, pos, 2)
  <2>1. /\ r \in Buffers
        /\ \A j \in 1 .. 4 : r[j] = IF j >= 1 /\ j < 1 + Got(pos, 2)
                                    THEN input[pos + j - 1 + 1] ELSE buf[j]
    <3>1. 1 \in 1 .. 4 /\ 2 \in 0 .. 3 /\ 1 + 2 <= 5
      OBVIOUS
    <3> QED
      BY <1>1, <3>1, ReadBytes
  <2> HIDE DEF r
  <2>2. r[1] = input[pos + 1 - 1 + 1] /\ r[2] = input[pos + 2 - 1 + 1]
    BY <1>4, <2>1
  <2>3. r[1] = input[pos + 1] /\ r[2] = input[pos + 2]
    BY <1>1, <2>2
  <2> QED
    BY <2>1, <2>3, SwapBytes DEF r, unit
<1>6. /\ both \in Buffers /\ both[1] = unit[1] /\ both[2] = unit[2]
      /\ at + 2 <= Len(input) =>
           Got(at, 2) = 2 /\ both[3] = input[at + 2] /\ both[4] = input[at + 1]
      /\ Got(at, 2) = 0 => both[3] = unit[4] /\ both[4] = unit[3]
  <2> DEFINE r == Read(unit, 3, at, 2)
  <2>1. at \in 0 .. Len(input) /\ 3 \in 1 .. 4 /\ 2 \in 0 .. 3 /\ 3 + 2 <= 5
    BY <1>1, <1>3, <1>4
  <2>2. /\ r \in Buffers
        /\ \A j \in 1 .. 4 : r[j] = IF j >= 3 /\ j < 3 + Got(at, 2)
                                    THEN input[at + j - 3 + 1] ELSE unit[j]
    BY <1>1, <1>5, <2>1, ReadBytes
  <2> HIDE DEF r
  <2>3. r[1] = unit[1] /\ r[2] = unit[2]
    BY <2>2
  <2>4. at + 2 <= Len(input) =>
          Got(at, 2) = 2 /\ r[3] = input[at + 1] /\ r[4] = input[at + 2]
    <3>1. at + 2 <= Len(input) => Got(at, 2) = 2
      BY <1>1, <2>1 DEF Got, Left
    <3>2. at + 3 - 3 + 1 = at + 1 /\ at + 4 - 3 + 1 = at + 2
      BY <2>1
    <3> QED
      BY <2>2, <3>1, <3>2
  <2>5. /\ Swap(r, 3) \in Buffers /\ Swap(r, 3)[3] = r[4] /\ Swap(r, 3)[4] = r[3]
        /\ Swap(r, 3)[1] = r[1] /\ Swap(r, 3)[2] = r[2]
    BY <2>2, SwapBytes
  <2>6. Got(at, 2) = 0 => r[3] = unit[3] /\ r[4] = unit[4]
    BY <2>2
  <2> QED
    BY <2>3, <2>4, <2>5, <2>6 DEF r, both
<1>7. IF IsLowerSurrogate(unit)
      THEN pos' = at + Got(at, 2) /\ output' = output \o both
      ELSE pos' = at /\ output' = output \o <<unit[1], unit[2]>>
  BY LittleToBigStep DEF Iterates, unit, at, both
<1>8. /\ Swapped(0, pos) \in Seq(Int) /\ Swapped(0, pos + 2) = Swapped(0, pos) \o more(pos)
      /\ Len(Swapped(0, pos)) = pos
  <2>1. /\ Swapped(0, pos) \in Seq(Octet) /\ Len(Swapped(0, pos)) = pos
        /\ Swapped(0, pos + 2) = Swapped(0, pos) \o <<input[pos + 2], input[pos + 1]>>
    BY <1>1, <1>3, SwappedNext
  <2> QED
    BY <2>1, OctetsAreInts DEF more
<1>9. mark \in Seq(Int) /\ Len(mark) = 2
  BY DEF mark
<1>10. more(pos) \in Seq(Int) /\ Len(more(pos)) = 2
  <2>1. pos + 2 \in 1 .. Len(input) /\ pos + 1 \in 1 .. Len(input)
    BY <1>1, <1>3
  <2>2. input[pos + 2] \in Octet /\ input[pos + 1] \in Octet
    BY <1>1, <2>1
  <2>3. input[pos + 2] \in Int /\ input[pos + 1] \in Int
    BY <2>2 DEF Octet
  <2> QED
    BY <2>3 DEF more
<1>11. (mark \o Swapped(0, pos)) \o more(pos) = mark \o Swapped(0, pos + 2)
  <2>1. (mark \o Swapped(0, pos)) \o more(pos) = mark \o (Swapped(0, pos) \o more(pos))
    BY <1>8, <1>9, <1>10, Associative, Zenon
  <2> QED
    BY <1>8, <2>1, Zenon
<1>12. MarkAnd(pos)' = mark \o Swapped(0, pos') /\ input' = input
  <2>1. input' = input
    BY DEF LittleToBig, Continue, file
  <2> QED
    BY <2>1 DEF MarkAnd, Swapped, mark
<1>13. CASE ~IsLowerSurrogate(unit)
  <2>1. output' = (mark \o Swapped(0, pos)) \o more(pos)
    BY <1>5, <1>7, <1>13 DEF more, SwapsSoFar, MarkAnd, mark
  <2>2. pos' = pos + 2 /\ (pos + 2) % 2 = 0
    BY SMT, <1>1, <1>4, <1>7, <1>13
  <2>3. output' = MarkAnd(pos)'
    BY <1>11, <1>12, <2>1, <2>2, Zenon
  <2> QED
    BY <2>2, <2>3, Zenon DEF SwapsSoFar
<1>14. CASE IsLowerSurrogate(unit)
  <2>1. both \in Seq(Int) /\ Len(both) = 4
    BY <1>6, BufferIsSeq
  <2>2. rest \in Seq(Int) /\ Len(rest) = 2
    <3>1. both[3] \in Octet /\ both[4] \in Octet
      BY <1>6 DEF Buffers
    <3>2. both[3] \in Int /\ both[4] \in Int
      BY <3>1 DEF Octet
    <3> QED
      BY <3>2 DEF rest
  <2>3. both = more(pos) \o rest
    <3>1. both[1] = more(pos)[1] /\ both[2] = more(pos)[2]
      BY <1>5, <1>6 DEF more
    <3>2. both[3] = rest[1] /\ both[4] = rest[2]
      BY DEF rest
    <3>3. \A i \in 1 .. 2 : both[i] = more(pos)[i] /\ both[2 + i] = rest[i]
      BY <3>1, <3>2
    <3>4. /\ Len(both) = Len(more(pos)) + Len(rest)
          /\ \A i \in 1 .. Len(more(pos)) : both[i] = more(pos)[i]
          /\ \A i \in 1 .. Len(rest) : both[Len(more(pos)) + i] = rest[i]
      BY <1>10, <2>1, <2>2, <3>3
    <3> QED
      BY <1>10, <2>1, <2>2, <3>4, Joined
  <2>4. output' = (mark \o Swapped(0, pos + 2)) \o rest
    <3>1. output' = (mark \o Swapped(0, pos)) \o (more(pos) \o rest)
      <4>1. output' = output \o both /\ output = mark \o Swapped(0, pos)
        BY <1>7, <1>14, Zenon DEF mark, SwapsSoFar, MarkAnd
      <4> QED
        BY <4>1, <2>3, Zenon
    <3>2. mark \o Swapped(0, pos) \in Seq(Int)
      BY <1>8, <1>9
    <3>3. ((mark \o Swapped(0, pos)) \o more(pos)) \o rest = (mark \o Swapped(0, pos)) \o (more(pos) \o rest)
      BY <1>10, <2>2, <3>2, Associative, Zenon
    <3> QED
      BY <1>11, <3>1, <3>3, Zenon
  <2>5. CASE pos + 4 <= Len(input)
    <3>1. at + 2 <= Len(input) /\ at \in Nat /\ at % 2 = 0
      BY SMT, <1>1, <1>4, <2>5
    <3>2. pos' = pos + 4 /\ rest = more(pos + 2)
      <4>1. at + 2 = pos + 4 /\ at + 1 = pos + 3 /\ pos + 2 + 2 = pos + 4 /\ pos + 2 + 1 = pos + 3
        BY <1>1, <1>4
      <4> QED
        BY <1>1, <1>4, <1>6, <1>7, <1>14, <3>1, <4>1 DEF more, rest
    <3>3. Swapped(0, (pos + 2) + 2) = Swapped(0, pos + 2) \o more(pos + 2) /\ Swapped(0, pos + 2) \in Seq(Int)
      <4>1. pos + 2 \in Nat /\ (pos + 2) % 2 = 0 /\ (pos + 2) + 2 <= Len(input)
        BY <1>4, <3>1
      <4> QED
        BY <1>1, <4>1, SwappedNext, OctetsAreInts DEF more
    <3>4. mark \o Swapped(0, (pos + 2) + 2) = (mark \o Swapped(0, pos + 2)) \o rest
      <4>1. (mark \o Swapped(0, pos + 2)) \o rest = mark \o (Swapped(0, pos + 2) \o rest)
        BY <1>9, <2>2, <3>3, Associative, Zenon
      <4> QED
        BY <3>2, <3>3, <4>1, Zenon
    <3>5. (pos + 2) + 2 = pos + 4 /\ (pos + 4) % 2 = 0
      BY SMT, <1>1
    <3>6. output' = MarkAnd(pos)'
      BY <1>12, <2>4, <3>2, <3>4, <3>5, Zenon
    <3> QED
      BY <3>2, <3>5, <3>6, Zenon DEF SwapsSoFar
  <2>6. CASE ~(pos + 4 <= Len(input))
    <3>1. Len(input) = pos + 2
      BY SMT, <1>1, <1>3, <2>6
    <3>2. at = Len(input) /\ Got(at, 2) = 0
      BY <1>1, <1>4, <3>1 DEF Got, Left
    <3>3. pos' = pos + 2 /\ pos' = Len(input) /\ pos' % 2 = 0
      BY <1>1, <1>7, <1>14, <3>1, <3>2
    <3>4. mark \o Swapped(0, pos + 2) \in Seq(Int)
      <4>1. Swapped(0, pos + 2) \in Seq(Int)
        BY <1>8, <1>10, PrefixOfJoined
      <4> QED
        BY <1>9, <4>1
    <3> DEFINE done == mark \o Swapped(0, pos + 2)
    <3> HIDE DEF done
    <3>5. Len(done \o rest) = Len(done) + Len(rest) /\ SubSeq(done \o rest, 1, Len(done)) = done
      BY <2>2, <3>4, PrefixOfJoined DEF done
    <3>6. output' = done \o rest
      BY <2>4 DEF done
    <3>7. done = MarkAnd(pos)'
      BY <1>12, <3>3, Zenon DEF done
    <3>8. Len(output') = Len(done) + 2
      BY <2>2, <3>5, <3>6
    <3>9. Len(output)' = Len(MarkAnd(pos))' + 2
      BY <3>7, <3>8, Zenon
    <3>10. SubSeq(output, 1, Len(MarkAnd(pos)))' = MarkAnd(pos)'
      BY <3>5, <3>6, <3>7, Zenon
    <3>11. LastWritten' > 56320 /\ LastWritten' < 57343
      <4>1. rest[1] = unit[4] /\ rest[2] = unit[3]
        BY <1>6, <3>2 DEF rest
      <4>2. /\ (done \o rest)[Len(done) + 1] = rest[1] /\ (done \o rest)[Len(done) + 2] = rest[2]
            /\ Len(done) + 2 - 1 = Len(done) + 1
        <5>0. done \in Seq(Int)
          BY <3>4 DEF done
        <5>1. \A i \in 1 .. Len(rest) : (done \o rest)[Len(done) + i] = rest[i]
          BY <2>2, <5>0, AfterJoined, Zenon
        <5>2. Len(done) \in Nat /\ 1 \in 1 .. Len(rest) /\ 2 \in 1 .. Len(rest)
          BY <2>2, <3>4 DEF done
        <5> QED
          BY <5>1, <5>2
      <4>3. output'[Len(output')] = unit[3] /\ output'[Len(output') - 1] = unit[4]
        BY <3>6, <3>8, <4>1, <4>2
      <4>4. LastWritten' = Lower(unit)
        BY <4>3 DEF LastWritten, Lower
      <4> QED
        BY <1>14, <4>4 DEF IsLowerSurrogate
    <3> QED
      BY <1>12, <3>3, <3>9, <3>10, <3>11 DEF SwapsLast
  <2> QED
    BY <2>5, <2>6
<1> QED
  BY <1>13, <1>14

LEMMA SwapKept == InputInv /\ OptionsInv /\ PhaseInv /\ SwapInv /\ [Next]_vars => SwapInv'
<1> SUFFICES ASSUME InputInv, OptionsInv, PhaseInv, SwapInv, [Next]_vars,
                    Converting', BigEndian'
             PROVE  (SwapsSoFar \/ SwapsLast)'
  BY DEF SwapInv
<1>0. input' = input
  BY FileKept DEF file
<1> USE DEF file, state
<1>1. CASE UNCHANGED vars \/ EndOfFile
  <2>1. Converting /\ BigEndian /\ pos' = pos /\ output' = output
    BY <1>1 DEF EndOfFile, Converting, BigEndian, vars
  <2>2. MarkAnd(pos)' = MarkAnd(pos)
    BY <1>0, <2>1 DEF MarkAnd, Swapped
  <2> QED
    BY <1>0, <2>1, <2>2 DEF SwapInv, SwapsSoFar, SwapsLast, LastWritten, Lower
<1>2. CASE ParseArgs \/ CheckBom
  <2>1. ~(Converting' /\ BigEndian')
    <3>1. Parsed.exit \in {"none", "success", "failure"}
      BY ArgsAssumption, ParsedAll DEF OptionsInv, ParsedTo
    <3> QED
      BY <1>2, <3>1 DEF ParseArgs, CheckBom, Converting, BigEndian, PhaseInv
  <2> QED
    BY <2>1
<1>3. CASE Dispatch
  <2>1. pos' = 0 /\ output' = <<254, 255>>
    BY <1>3 DEF Dispatch, PhaseInv, BigEndian
  <2>2. Swapped(0, 0) = <<>>
    BY DEF Swapped
  <2>3. <<254, 255>> \o <<>> = <<254, 255>>
    OBVIOUS
  <2>4. 0 % 2 = 0
    OBVIOUS
  <2>5. output' = MarkAnd(0) /\ pos' = 0
    BY <2>1, <2>2, <2>3, Zenon DEF MarkAnd
  <2>6. MarkAnd(pos)' = MarkAnd(0)
    BY <1>0, <2>5 DEF MarkAnd, Swapped
  <2> QED
    BY <2>4, <2>5, <2>6 DEF SwapsSoFar
<1>4. CASE LittleToBig
  <2>1. /\ UNCHANGED <<input, encoding_to, encoding_from>>
        /\ pc = "convert" /\ Left(pos) > 0
    BY <1>4 DEF LittleToBig, Iteration, Continue
  <2>2. Converting /\ BigEndian
    BY <2>1 DEF Converting, BigEndian
  <2>3. pos # Len(input)
    BY <2>1 DEF Left, InputInv
  <2> QED
    BY <1>4, <2>2, <2>3, SwapStep DEF SwapInv, SwapsLast
<1>5. CASE FromUtf8 \/ FromUtf16 \/ BigToLittle \/ Transcribe
  <2>1. ~BigEndian'
    BY <1>5 DEF FromUtf8, FromUtf16, BigToLittle, Transcribe, Continue, BigEndian, PhaseInv
  <2> QED
    BY <2>1
<1> QED
  BY <1>1, <1>2, <1>3, <1>4, <1>5 DEF Next

\* From UTF-16LE to UTF-16BE the units of the input are written behind a mark,
\* each turned around once, whatever the buffer held and however often the stale
\* lower half made an iteration read a second unit.  Only at the end of the file
\* one unit more may follow, and only one that reads as the lower half of a pair.
THEOREM SwapsUnitsCorrect == Spec => []SwapsUnits
<1>1. Init => SwapInv
  BY DEF Init, SwapInv, Converting
<1>2. InputInv /\ OptionsInv /\ PhaseInv /\ SwapInv /\ [Next]_vars => SwapInv'
  BY SwapKept
<1>3. SwapInv => SwapsUnits
  BY DEF SwapInv, SwapsSoFar, SwapsLast, MarkAnd, SwapsUnits, BigEndian
<1> QED
  BY <1>1, <1>2, <1>3, ConverterInvariant, PTL DEF Spec

-----------------------------------------------------------------------------
(* Between UTF-8 and UTF-16 *)

\* The next code point to read stands at the position of the file.
AtGlyph(k) ==
    /\ k \in 0 .. Len(text) - 1
    /\ pos = Whole(k) /\ output = Encoded(encoding_to, text, k)
    /\ text[k + 1] \in Scalars /\ text[k + 1] \in CodePoints
    /\ Whole(k + 1) = pos + Len(Encoding(format, text[k + 1]))

LEMMA FollowsAtGlyph ==
    ASSUME InputInv, PhaseInv, Left(pos) > 0, NEW k \in 0 .. Len(text), Follows(k)
    PROVE  AtGlyph(k)
<1>1. /\ pos \in Nat /\ pos < Len(input) /\ Len(input) \in Nat
  <2>1. pos \in 0 .. Len(input) /\ input \in Seq(Octet)
    BY DEF PhaseInv, InputInv
  <2> QED
    BY <2>1 DEF Left
<1>2. pos = Whole(k) /\ output = Encoded(encoding_to, text, k)
  BY <1>1 DEF Follows
<1>3. k # Len(text)
  BY <1>1, <1>2 DEF InputInv
<1>4. text \in Seq(CodePoints) /\ format \in Formats /\ \A i \in 1 .. Len(text) : text[i] \in Scalars
  BY TextTypes DEF InputInv
<1>5. k \in 0 .. Len(text) - 1 /\ k + 1 \in 1 .. Len(text)
  BY <1>3, <1>4
<1>6. text[k + 1] \in Scalars /\ text[k + 1] \in CodePoints
  BY <1>4, <1>5 DEF Scalars
<1>7. Whole(k + 1) = pos + Len(Encoding(format, text[k + 1]))
  BY <1>2, <1>4, <1>5, EncodedNext DEF Whole
<1> QED
  BY <1>2, <1>5, <1>6, <1>7 DEF AtGlyph

\* An iteration writes the encoding of the next code point when the file has all
\* of its bytes, and otherwise reads to the end of the file.
Advances(k, written) ==
    /\ pos' = IF Whole(k + 1) <= Len(input) THEN Whole(k + 1) ELSE Len(input)
    /\ Whole(k + 1) <= Len(input) => written = Encoding(encoding_to, text[k + 1])
    /\ written \in Seq(Int) /\ Len(written) > 0
    /\ output' = output \o written

LEMMA AdvanceFollows ==
    ASSUME InputInv, PhaseInv, UNCHANGED <<file, state>>, Left(pos) > 0,
           encoding_to \in Formats, NEW k, AtGlyph(k), NEW written, Advances(k, written)
    PROVE  (\E j \in 0 .. Len(text) : Follows(j))'
<1>0. /\ pos \in Nat /\ pos < Len(input) /\ Len(input) \in Nat
  <2>1. pos \in 0 .. Len(input) /\ input \in Seq(Octet)
    BY DEF PhaseInv, InputInv
  <2> QED
    BY <2>1 DEF Left
<1>1. /\ k \in 0 .. Len(text) - 1 /\ k \in Nat /\ pos = Whole(k) /\ Len(text) \in Nat
      /\ output = Encoded(encoding_to, text, k) /\ text \in Seq(CodePoints)
  BY TextTypes DEF AtGlyph
<1>2. /\ text' = text /\ format' = format /\ input' = input /\ encoding_to' = encoding_to
  BY DEF file, state
<1>3. \A j : /\ Whole(j)' = Whole(j)
             /\ Encoded(encoding_to, text, j)' = Encoded(encoding_to, text, j)
  BY <1>2 DEF Whole
<1>4. CASE Whole(k + 1) <= Len(input)
  <2>1. output' = Encoded(encoding_to, text, k) \o Encoding(encoding_to, text[k + 1])
    BY <1>1, <1>4, Zenon DEF Advances
  <2>2. Encoded(encoding_to, text, k + 1) = Encoded(encoding_to, text, k) \o Encoding(encoding_to, text[k + 1])
    BY <1>1, EncodedStep
  <2>3. pos' = Whole(k + 1)
    BY <1>4 DEF Advances
  <2>4. Follows(k + 1)'
    BY <1>3, <2>1, <2>2, <2>3, Zenon DEF Follows
  <2>5. k + 1 \in 0 .. Len(text')
    BY <1>1, <1>2
  <2> QED
    BY <2>4, <2>5
<1>5. CASE ~(Whole(k + 1) <= Len(input))
  <2> DEFINE done == Encoded(encoding_to, text, k)
  <2>1. done \in Seq(Int)
    <3>1. k \in 0 .. Len(text)
      BY <1>1
    <3> QED
      BY <1>1, <3>1, EncodedBytes, OctetsAreInts
  <2>2. Whole(k + 1) \in Nat
    <3>1. k + 1 \in 0 .. Len(text) /\ format \in Formats
      BY <1>1 DEF InputInv
    <3>2. Encoded(format, text, k + 1) \in Seq(Octet)
      BY <1>1, <3>1, EncodedBytes
    <3> QED
      BY <3>2 DEF Whole
  <2>3. pos' = Len(input) /\ Whole(k) < Len(input) /\ Len(input) < Whole(k + 1)
    BY <1>0, <1>1, <1>5, <2>2 DEF Advances
  <2>4. output' = done \o written /\ written \in Seq(Int) /\ Len(written) > 0
    BY <1>1, Zenon DEF Advances
  <2> HIDE DEF done
  <2>5. Len(output') > Len(done) /\ SubSeq(output', 1, Len(done)) = done
    BY <2>1, <2>4, PrefixOfJoined
  <2>6. k < Len(text)
    BY <1>1
  <2>7. Follows(k)'
    BY <1>2, <1>3, <2>3, <2>5, <2>6 DEF Follows, done
  <2>8. k \in 0 .. Len(text')
    BY <1>1, <1>2
  <2> QED
    BY <2>7, <2>8
<1> QED
  BY <1>4, <1>5

\* Decoding reads no byte behind the glyph.
LEMMA Utf8Bytewise ==
    ASSUME NEW b, NEW e, NEW n \in 1 .. 4, \A i \in 1 .. n : b[i] = e[i]
    PROVE  Utf8CodePoint(b, n) = Utf8CodePoint(e, n)
<1>1. /\ 1 <= n => b[1] = e[1]
      /\ 2 <= n => b[2] = e[2]
      /\ 3 <= n => b[3] = e[3]
      /\ 4 <= n => b[4] = e[4]
  OBVIOUS
<1>2. CASE n = 1
  BY <1>1, <1>2 DEF Utf8CodePoint
<1>3. CASE n = 2
  BY <1>1, <1>3 DEF Utf8CodePoint
<1>4. CASE n = 3
  BY <1>1, <1>4 DEF Utf8CodePoint
<1>5. CASE n = 4
  BY <1>1, <1>5 DEF Utf8CodePoint
<1> QED
  BY <1>2, <1>3, <1>4, <1>5

LEMMA Utf8Advances ==
    ASSUME InputInv, PhaseInv, FromUtf8, encoding_from = format,
           encoding_to \in {"UTF16LE", "UTF16BE"}, NEW k, AtGlyph(k)
    PROVE  \E written : Advances(k, written)
<1> DEFINE cp    == text[k + 1]
           e     == Encoding("UTF8", cp)
           first == Read(buf, 1, pos, 1)
           n     == Remaining(first[1])
           glyph == Read(first, 2, pos + 1, n)
           done  == Utf16Glyph(encoding_to, Utf8CodePoint(glyph, n + 1))
<1>1. /\ input \in Seq(Octet) /\ buf \in Buffers /\ pos \in 0 .. Len(input) /\ Len(input) \in Nat
      /\ format = "UTF8" /\ Left(pos) > 0 /\ pos < Len(input) /\ pos \in Nat
  <2>1. input \in Seq(Octet) /\ buf \in Buffers /\ pos \in 0 .. Len(input)
    BY DEF InputInv, PhaseInv
  <2>2. Left(pos) > 0 /\ format = "UTF8"
    BY DEF FromUtf8, Iteration
  <2> QED
    BY <2>1, <2>2 DEF Left
<1>2. /\ cp \in CodePoints /\ k \in 0 .. Len(text) - 1 /\ pos = Whole(k)
      /\ Whole(k + 1) = pos + Len(e)
  BY <1>1 DEF AtGlyph
<1>3. /\ first \in Buffers /\ first[1] = input[pos + 1]
      /\ n \in 0 .. 3 /\ pos + 1 \in 0 .. Len(input)
      /\ Iterates(glyph, pos + 1 + Got(pos + 1, n), done) /\ Len(done) > 0
  BY Utf8Step
<1>4. /\ e = Utf8Glyph(cp) /\ e \in Seq(Octet) /\ Len(e) \in 1 .. 4
      /\ Remaining(e[1]) + 1 = Len(e) /\ Utf8CodePoint(e, Len(e)) = cp
  <2>1. "UTF8" \in Formats
    BY DEF Formats
  <2>2. e = Utf8Glyph(cp)
    BY <1>2, Utf8GlyphIsStandard DEF Encoding
  <2> QED
    BY <1>2, <2>1, <2>2, EncodingBytes, Utf8RoundTrip
<1>5. ASSUME NEW i \in 1 .. Len(e), pos + i <= Len(input) PROVE input[pos + i] = e[i]
  BY <1>1, <1>2, <1>5, GlyphInInput
<1>6. first[1] = e[1]
  <2>1. 1 \in 1 .. Len(e) /\ pos + 1 <= Len(input)
    BY <1>1, <1>4
  <2> QED
    BY <1>3, <1>5, <2>1
<1> HIDE DEF first, cp
<1>7. n + 1 = Len(e)
  BY <1>4, <1>6
<1> DEFINE at == pos + 1
<1>8. /\ at \in 0 .. Len(input) /\ Got(at, n) = IF n <= Left(at) THEN n ELSE Left(at)
      /\ \A j \in 1 .. 4 : Read(first, 2, at, n)[j] =
           IF j >= 2 /\ j < 2 + Got(at, n) THEN input[at + j - 2 + 1] ELSE first[j]
  <2>1. 2 \in 1 .. 4 /\ 2 + n <= 5 /\ at \in 0 .. Len(input)
    BY <1>3
  <2>2. n \in 0 .. 3 /\ first \in Buffers /\ input \in Seq(Octet)
    BY <1>1, <1>3
  <2> HIDE DEF at, n
  <2>3. PICK i : i = 2 /\ i \in 1 .. 4 /\ i + n <= 5
    BY <2>1
  <2>4. /\ Got(at, n) = IF n <= Left(at) THEN n ELSE Left(at)
        /\ \A j \in 1 .. 4 : Read(first, i, at, n)[j] =
             IF j >= i /\ j < i + Got(at, n) THEN input[at + j - i + 1] ELSE first[j]
    BY <2>1, <2>2, <2>3, ReadBytes
  <2> QED
    BY <2>1, <2>3, <2>4
<1>9. Left(at) = Len(input) - (pos + 1) /\ Left(at) \in Nat
  BY <1>1 DEF Left
<1> HIDE DEF n, e
<1>10. CASE pos + Len(e) <= Len(input)
  <2>1. Got(at, n) = n
    <3>1. n <= Left(at)
      BY <1>1, <1>3, <1>4, <1>7, <1>9, <1>10
    <3> QED
      BY <1>8, <3>1, Zenon
  <2>2. \A j \in 1 .. n + 1 : glyph[j] = e[j]
    <3> TAKE j \in 1 .. n + 1
    <3>1. j \in 1 .. 4 /\ j \in 1 .. Len(e) /\ pos + j <= Len(input)
      BY <1>1, <1>3, <1>4, <1>7, <1>10
    <3>2. CASE j = 1
      BY <1>6, <1>8, <3>1, <3>2
    <3>3. CASE j # 1
      <4>1. j >= 2 /\ j < 2 + Got(at, n) /\ at + j - 2 + 1 = pos + j
        BY <1>1, <1>3, <2>1, <3>1, <3>3
      <4>2. glyph[j] = input[pos + j]
        BY <1>8, <3>1, <4>1
      <4> QED
        BY <1>5, <3>1, <4>2
    <3> QED
      BY <3>2, <3>3
  <2> HIDE DEF glyph, at
  <2>3. Utf8CodePoint(glyph, n + 1) = cp
    <3>1. n + 1 \in 1 .. 4
      BY <1>3
    <3>2. Utf8CodePoint(glyph, n + 1) = Utf8CodePoint(e, n + 1)
      BY <2>2, <3>1, Utf8Bytewise
    <3> QED
      BY <1>4, <1>7, <3>2
  <2>4. done = Encoding(encoding_to, cp)
    BY <1>2, <2>3, Utf16GlyphIsStandard
  <2>5. pos' = pos + Len(e)
    <3>1. pos' = pos + 1 + Got(pos + 1, n)
      BY <1>3 DEF Iterates
    <3>2. pos' = pos + 1 + n
      BY <2>1, <3>1 DEF at
    <3> QED
      BY <1>1, <1>3, <1>7, <3>2
  <2> HIDE DEF done
  <2>6. Advances(k, done)
    BY <1>2, <1>3, <1>10, <2>4, <2>5 DEF Advances, Iterates, cp
  <2> QED
    BY <2>6
<1>11. CASE ~(pos + Len(e) <= Len(input))
  <2>1. Got(at, n) = Len(input) - (pos + 1)
    <3>1. ~(n <= Left(at))
      BY <1>1, <1>3, <1>4, <1>7, <1>9, <1>11
    <3> QED
      BY <1>8, <1>9, <3>1, Zenon
  <2>2. pos' = Len(input)
    <3>1. pos' = pos + 1 + Got(pos + 1, n)
      BY <1>3 DEF Iterates
    <3> QED
      BY <1>1, <2>1, <3>1
  <2> HIDE DEF done
  <2>3. Advances(k, done)
    BY <1>2, <1>3, <1>11, <2>2 DEF Advances, Iterates
  <2> QED
    BY <2>3
<1> QED
  BY <1>10, <1>11

\* The glyph's bytes with those of each unit in the machine's order.
InOrder(from, e, g) ==
    \A i \in {1, 3} : i <= Len(g) =>
        /\ g[i] = IF from = "UTF16BE" THEN e[i + 1] ELSE e[i]
        /\ g[i + 1] = IF from = "UTF16BE" THEN e[i] ELSE e[i + 1]

LEMMA GlyphOrder ==
    ASSUME NEW cp \in CodePoints, NEW from \in {"UTF16LE", "UTF16BE"}
    PROVE  /\ Len(Encoding(from, cp)) = Len(Utf16Glyph("UTF16LE", cp))
           /\ Len(Utf16Glyph("UTF16LE", cp)) = IF cp <= 65535 THEN 2 ELSE 4
           /\ InOrder(from, Encoding(from, cp), Utf16Glyph("UTF16LE", cp))
<1>1. Encoding(from, cp) = Utf16Glyph(from, cp)
  BY Utf16GlyphIsStandard
<1>2. cp \in Nat
  BY DEF CodePoints
<1>3. CASE cp <= 65535
  BY <1>1, <1>2, <1>3, GlyphUnits DEF InOrder
<1>4. CASE cp > 65535
  <2>1. PICK a, b, c, d :
          /\ Utf16Glyph("UTF16LE", cp) = <<a, b, c, d>>
          /\ Utf16Glyph("UTF16BE", cp) = <<b, a, d, c>>
    BY <1>2, <1>4, GlyphUnits
  <2> QED
    BY <1>1, <1>2, <1>4, <2>1 DEF InOrder
<1> QED
  BY <1>2, <1>3, <1>4

\* A buffer that holds the glyph of a code point is decoded to it, and the first
\* unit alone tells whether there is a second.
LEMMA HeldGlyph ==
    ASSUME NEW cp \in Scalars, ~Missed(cp), NEW b \in Buffers,
           b[1] = Utf16Glyph("UTF16LE", cp)[1], b[2] = Utf16Glyph("UTF16LE", cp)[2]
    PROVE  /\ IsUpperSurrogate(b) <=> cp > 65535
           /\ (cp > 65535 => /\ b[3] = Utf16Glyph("UTF16LE", cp)[3]
                             /\ b[4] = Utf16Glyph("UTF16LE", cp)[4]) => Utf16CodePoint(b) = cp
<1> DEFINE g == Utf16Glyph("UTF16LE", cp)
           h == Buffered(cp, b)
<1>1. cp \in CodePoints /\ cp \notin 55296 .. 57343 /\ b \in [1 .. 4 -> 0 .. 255] /\ cp \in Nat
  BY DEF Scalars, Buffers, Octet, CodePoints
<1>2. /\ IsUpperSurrogate(h) <=> cp > 65535
      /\ Utf16CodePoint(h) = cp
  BY <1>1, Utf16RoundTrip
<1>3. Len(g) = IF cp <= 65535 THEN 2 ELSE 4
  BY <1>1, GlyphOrder
<1>4. h = [i \in 1 .. 4 |-> IF i <= Len(g) THEN g[i] ELSE b[i]]
  BY DEF Buffered
<1> HIDE DEF g, h
<1>5. h[1] = g[1] /\ h[2] = g[2]
  BY <1>1, <1>3, <1>4
<1>6. Upper(b) = Upper(h)
  BY <1>5 DEF Upper, g
<1>7. IsUpperSurrogate(b) <=> cp > 65535
  <2>1. IsUpperSurrogate(b) <=> IsUpperSurrogate(h)
    BY <1>6 DEF IsUpperSurrogate
  <2> QED
    BY <1>2, <2>1
<1>8. ASSUME cp > 65535 => b[3] = g[3] /\ b[4] = g[4]
      PROVE  Utf16CodePoint(b) = cp
  <2>1. CASE cp <= 65535
    <3>1. ~IsUpperSurrogate(b) /\ ~IsUpperSurrogate(h)
      BY <1>1, <1>2, <1>7, <2>1
    <3> QED
      BY <1>2, <1>6, <3>1 DEF Utf16CodePoint
  <2>2. CASE cp > 65535
    <3>1. h[3] = b[3] /\ h[4] = b[4]
      BY <1>1, <1>3, <1>4, <1>8, <2>2
    <3>2. Lower(b) = Lower(h)
      BY <3>1 DEF Lower
    <3>3. IsUpperSurrogate(b) /\ IsUpperSurrogate(h)
      BY <1>2, <1>7, <2>2
    <3> QED
      BY <1>2, <1>6, <3>2, <3>3 DEF Utf16CodePoint
  <2> QED
    BY <1>1, <2>1, <2>2
<1> QED
  BY <1>7, <1>8 DEF g

\* A unit that the file has whole stands in the buffer in the machine's order.
LEMMA WholeUnit ==
    ASSUME input \in Seq(Octet), NEW b \in Buffers, NEW i \in {1, 3},
           NEW at \in 0 .. Len(input), at + 2 <= Len(input)
    PROVE  /\ ReadUnit(b, i, at) \in Buffers /\ Got(at, 2) = 2
           /\ ReadUnit(b, i, at)[i] = IF encoding_from = "UTF16BE" THEN input[at + 2] ELSE input[at + 1]
           /\ ReadUnit(b, i, at)[i + 1] = IF encoding_from = "UTF16BE" THEN input[at + 1] ELSE input[at + 2]
           /\ \A j \in 1 .. 4 : j # i /\ j # i + 1 => ReadUnit(b, i, at)[j] = b[j]
<1> DEFINE r == Read(b, i, at, 2)
<1>1. /\ i \in 1 .. 4 /\ i \in 1 .. 3 /\ 2 \in 0 .. 3 /\ i + 2 <= 5 /\ i + 1 \in 1 .. 4 /\ i # i + 1
      /\ Len(input) \in Nat /\ at \in Nat /\ i \in Nat
  OBVIOUS
<1>2. /\ r \in Buffers /\ Left(at) \in Nat /\ Got(at, 2) = IF 2 <= Left(at) THEN 2 ELSE Left(at)
      /\ \A j \in 1 .. 4 : r[j] = IF j >= i /\ j < i + Got(at, 2)
                                  THEN input[at + j - i + 1] ELSE b[j]
  <2>1. PICK n : n = 2 /\ n \in 0 .. 3 /\ i + n <= 5 /\ i \in 1 .. 4
    BY <1>1
  <2>2. /\ Read(b, i, at, n) \in Buffers /\ Left(at) \in Nat
        /\ Got(at, n) = IF n <= Left(at) THEN n ELSE Left(at)
        /\ \A j \in 1 .. 4 : Read(b, i, at, n)[j] = IF j >= i /\ j < i + Got(at, n)
                                                    THEN input[at + j - i + 1] ELSE b[j]
    BY <2>1, ReadBytes
  <2> QED
    BY <2>1, <2>2
<1>3. Got(at, 2) = 2
  <2>1. 2 <= Left(at)
    BY <1>1 DEF Left
  <2> QED
    BY <1>2, <2>1, Zenon
<1> HIDE DEF r
<1>4. /\ \A j \in 1 .. 4 : j # i /\ j # i + 1 => r[j] = b[j]
      /\ r[i] = input[at + i - i + 1] /\ r[i + 1] = input[at + (i + 1) - i + 1]
  <2>1. \A j \in 1 .. 4 : r[j] = IF j >= i /\ j < i + 2 THEN input[at + j - i + 1] ELSE b[j]
    BY <1>2, <1>3
  <2>2. r[i] = input[at + i - i + 1]
    BY <1>1, <2>1
  <2>3. r[i + 1] = input[at + (i + 1) - i + 1]
    <3>1. i + 1 >= i /\ i + 1 < i + 2
      BY <1>1
    <3> QED
      BY <1>1, <2>1, <3>1
  <2>4. ASSUME NEW j \in 1 .. 4, j # i, j # i + 1 PROVE r[j] = b[j]
    <3>1. ~(j >= i /\ j < i + 2)
      BY <1>1, <2>4
    <3> QED
      BY <2>1, <3>1
  <2> QED
    BY <2>2, <2>3, <2>4
<1>5. at + i - i + 1 = at + 1 /\ at + (i + 1) - i + 1 = at + 2
  BY <1>1
<1>6. r[i] = input[at + 1] /\ r[i + 1] = input[at + 2]
  BY <1>4, <1>5
<1>7. ReadUnit(b, i, at) = IF encoding_from = "UTF16BE" THEN Swap(r, i) ELSE r
  BY DEF ReadUnit, r
<1>8. /\ Swap(r, i) \in Buffers /\ Swap(r, i)[i] = r[i + 1] /\ Swap(r, i)[i + 1] = r[i]
      /\ \A j \in 1 .. 4 : j # i /\ j # i + 1 => Swap(r, i)[j] = r[j]
  BY <1>1, <1>2, SwapBytes
<1> QED
  BY <1>2, <1>3, <1>4, <1>6, <1>7, <1>8

LEMMA Utf16Advances ==
    ASSUME InputInv, PhaseInv, FromUtf16, encoding_from = format,
           NEW k, AtGlyph(k), ~Missed(text[k + 1])
    PROVE  \E written : Advances(k, written)
<1> DEFINE cp    == text[k + 1]
           e     == Encoding(format, cp)
           g     == Utf16Glyph("UTF16LE", cp)
           unit  == ReadUnit(buf, 1, pos)
           at    == pos + Got(pos, 2)
           whole == IF IsUpperSurrogate(unit) THEN ReadUnit(unit, 3, at) ELSE unit
           done  == Utf8Glyph(Utf16CodePoint(whole))
           to    == IF IsUpperSurrogate(unit) THEN at + Got(at, 2) ELSE at
<1>1. /\ input \in Seq(Octet) /\ buf \in Buffers /\ pos \in 0 .. Len(input) /\ Len(input) \in Nat
      /\ Left(pos) > 0 /\ pos < Len(input) /\ pos \in Nat
  <2>1. input \in Seq(Octet) /\ buf \in Buffers /\ pos \in 0 .. Len(input)
    BY DEF InputInv, PhaseInv
  <2>2. Left(pos) > 0
    BY DEF FromUtf16, Iteration
  <2> QED
    BY <2>1, <2>2 DEF Left
<1>2. format \in {"UTF16LE", "UTF16BE"} /\ encoding_from = format /\ encoding_to = "UTF8"
  BY DEF InputInv, Formats, FromUtf16
<1>3. /\ cp \in CodePoints /\ cp \in Scalars /\ cp \in Nat
      /\ k \in 0 .. Len(text) - 1 /\ pos = Whole(k) /\ Whole(k + 1) = pos + Len(e)
  BY DEF AtGlyph, CodePoints
<1>4. /\ unit \in Buffers /\ at \in 0 .. Len(input)
      /\ Iterates(whole, to, done) /\ Len(done) > 0
  BY Utf16Step
<1>5. ASSUME NEW i \in 1 .. Len(e), pos + i <= Len(input) PROVE input[pos + i] = e[i]
  BY <1>3, <1>5, GlyphInInput
<1>6. /\ Len(e) = Len(g) /\ Len(g) = IF cp <= 65535 THEN 2 ELSE 4
      /\ \A i \in {1, 3} : i <= Len(g) =>
           /\ g[i] = IF format = "UTF16BE" THEN e[i + 1] ELSE e[i]
           /\ g[i + 1] = IF format = "UTF16BE" THEN e[i] ELSE e[i + 1]
  <2>1. cp \in CodePoints /\ format \in {"UTF16LE", "UTF16BE"}
    BY <1>2, <1>3
  <2> HIDE DEF cp
  <2>2. /\ Len(e) = Len(g) /\ Len(g) = IF cp <= 65535 THEN 2 ELSE 4
        /\ InOrder(format, e, g)
    BY <2>1, GlyphOrder
  <2> QED
    BY <2>2 DEF InOrder
<1>7. Encoding("UTF8", cp) = Utf8Glyph(cp)
  BY <1>3, Utf8GlyphIsStandard DEF Encoding
<1> HIDE DEF cp, e, g, unit
<1>8. /\ Left(pos) \in Nat /\ Got(pos, 2) = IF 2 <= Left(pos) THEN 2 ELSE Left(pos)
  BY <1>1, UnitBytes
<1>9. ASSUME NEW n \in 0 .. Len(input) PROVE Got(n, 2) = IF n + 2 <= Len(input) THEN 2 ELSE Len(input) - n
  <2>1. Left(n) = Len(input) - n /\ Got(n, 2) = IF 2 < Left(n) THEN 2 ELSE Left(n)
    BY DEF Left, Got
  <2> QED
    BY <1>1, <2>1
<1>10. ASSUME pos + 2 <= Len(input)
       PROVE  at = pos + 2 /\ unit[1] = g[1] /\ unit[2] = g[2] /\ (IsUpperSurrogate(unit) <=> cp > 65535)
  <2>1. /\ Got(pos, 2) = 2
        /\ unit[1] = IF format = "UTF16BE" THEN input[pos + 2] ELSE input[pos + 1]
        /\ unit[2] = IF format = "UTF16BE" THEN input[pos + 1] ELSE input[pos + 2]
    <3>1. PICK i : i = 1 /\ i \in {1, 3} /\ i + 1 = 2
      OBVIOUS
    <3>2. /\ Got(pos, 2) = 2
          /\ ReadUnit(buf, i, pos)[i] = IF encoding_from = "UTF16BE" THEN input[pos + 2] ELSE input[pos + 1]
          /\ ReadUnit(buf, i, pos)[i + 1] = IF encoding_from = "UTF16BE" THEN input[pos + 1] ELSE input[pos + 2]
      BY <1>1, <1>10, <3>1, WholeUnit
    <3> QED
      BY <1>2, <3>1, <3>2 DEF unit
  <2>2. input[pos + 1] = e[1] /\ input[pos + 2] = e[2]
    <3>1. 1 \in 1 .. Len(e) /\ 2 \in 1 .. Len(e) /\ pos + 1 <= Len(input)
      BY <1>1, <1>6
    <3> QED
      BY <1>5, <1>10, <3>1
  <2>3. /\ g[1] = IF format = "UTF16BE" THEN e[2] ELSE e[1]
        /\ g[2] = IF format = "UTF16BE" THEN e[1] ELSE e[2]
    BY <1>6
  <2>4. unit[1] = g[1] /\ unit[2] = g[2]
    BY <2>1, <2>2, <2>3
  <2>5. IsUpperSurrogate(unit) <=> cp > 65535
    BY <1>3, <1>4, <2>4, HeldGlyph DEF g, cp
  <2> QED
    BY <2>1, <2>4, <2>5
<1>11. CASE pos + Len(e) <= Len(input)
  <2>1. pos + 2 <= Len(input)
    BY <1>1, <1>6, <1>11
  <2>2. at = pos + 2 /\ unit[1] = g[1] /\ unit[2] = g[2] /\ (IsUpperSurrogate(unit) <=> cp > 65535)
    BY <1>10, <2>1
  <2>3. CASE cp <= 65535
    <3>1. whole = unit /\ to = pos + 2 /\ Len(e) = 2
      BY <1>3, <1>6, <2>2, <2>3
    <3>2. Utf16CodePoint(unit) = cp
      BY <1>3, <1>4, <2>2, <2>3, HeldGlyph DEF g, cp
    <3>3. done = Encoding(encoding_to, cp) /\ to = pos + Len(e)
      BY <1>2, <1>7, <3>1, <3>2
    <3> HIDE DEF done, to, whole
    <3>4. Advances(k, done)
      BY <1>3, <1>4, <1>11, <3>3 DEF Advances, Iterates, cp
    <3> QED
      BY <3>4
  <2>4. CASE cp > 65535
    <3> DEFINE both == ReadUnit(unit, 3, at)
    <3>1. whole = both /\ to = at + Got(at, 2) /\ Len(e) = 4 /\ Len(g) = 4
      BY <1>3, <1>6, <2>2, <2>4
    <3>2. at + 2 <= Len(input)
      BY <1>1, <1>11, <2>2, <3>1
    <3>3. /\ both \in Buffers /\ Got(at, 2) = 2
          /\ both[1] = unit[1] /\ both[2] = unit[2]
          /\ both[3] = IF format = "UTF16BE" THEN input[at + 2] ELSE input[at + 1]
          /\ both[4] = IF format = "UTF16BE" THEN input[at + 1] ELSE input[at + 2]
      <4>1. PICK i : i = 3 /\ i \in {1, 3} /\ i + 1 = 4
        OBVIOUS
      <4> HIDE DEF at
      <4>2. /\ ReadUnit(unit, i, at) \in Buffers /\ Got(at, 2) = 2
            /\ ReadUnit(unit, i, at)[i] = IF encoding_from = "UTF16BE" THEN input[at + 2] ELSE input[at + 1]
            /\ ReadUnit(unit, i, at)[i + 1] = IF encoding_from = "UTF16BE" THEN input[at + 1] ELSE input[at + 2]
            /\ \A j \in 1 .. 4 : j # i /\ j # i + 1 => ReadUnit(unit, i, at)[j] = unit[j]
        BY <1>1, <1>4, <3>2, <4>1, WholeUnit
      <4>3. 1 \in 1 .. 4 /\ 2 \in 1 .. 4 /\ 1 # i /\ 2 # i /\ 1 # i + 1 /\ 2 # i + 1
        BY <4>1
      <4> QED
        BY <1>2, <4>1, <4>2, <4>3
    <3>4. at + 1 = pos + 3 /\ at + 2 = pos + 4
      BY <1>1, <2>2
    <3>5. input[at + 1] = e[3] /\ input[at + 2] = e[4]
      <4>1. 3 \in 1 .. Len(e) /\ 4 \in 1 .. Len(e) /\ pos + 3 <= Len(input) /\ pos + 4 <= Len(input)
        BY <1>1, <1>11, <3>1
      <4> QED
        BY <1>5, <3>4, <4>1
    <3>6. both[3] = g[3] /\ both[4] = g[4]
      BY <1>6, <3>1, <3>3, <3>5
    <3>7. Utf16CodePoint(both) = cp
      <4> HIDE DEF both
      <4> QED
        BY <1>3, <2>2, <3>3, <3>6, HeldGlyph DEF g, cp
    <3>8. done = Encoding(encoding_to, cp)
      BY <1>2, <1>7, <3>1, <3>7
    <3>9. to = pos + Len(e)
      BY <1>1, <2>2, <3>1, <3>3
    <3> HIDE DEF done, to, whole
    <3>10. Advances(k, done)
      BY <1>3, <1>4, <1>11, <3>8, <3>9 DEF Advances, Iterates, cp
    <3> QED
      BY <3>10
  <2> QED
    BY <1>3, <2>3, <2>4
<1>12. CASE ~(pos + Len(e) <= Len(input))
  <2>1. to = Len(input)
    <3>1. CASE pos + 2 <= Len(input)
      <4>1. cp > 65535 /\ Len(e) = 4
        BY <1>1, <1>3, <1>6, <1>12, <3>1
      <4>2. IsUpperSurrogate(unit) /\ at = pos + 2
        BY <1>10, <3>1, <4>1
      <4>3. ~(at + 2 <= Len(input))
        BY <1>1, <1>12, <4>1, <4>2
      <4>4. Got(at, 2) = Len(input) - at
        <5> HIDE DEF at
        <5> QED
          BY <1>4, <1>9, <4>3
      <4> QED
        BY <1>1, <4>2, <4>4
    <3>2. CASE ~(pos + 2 <= Len(input))
      <4>1. Got(pos, 2) = Len(input) - pos
        BY <1>1, <1>9, <3>2
      <4>2. at = Len(input)
        BY <1>1, <4>1
      <4>3. Got(Len(input), 2) = 0
        <5>1. Len(input) \in 0 .. Len(input) /\ ~(Len(input) + 2 <= Len(input))
          BY <1>1
        <5> QED
          BY <1>1, <1>9, <5>1
      <4> QED
        BY <1>1, <4>2, <4>3
    <3> QED
      BY <3>1, <3>2
  <2> HIDE DEF done, to, whole
  <2>2. Advances(k, done)
    BY <1>3, <1>4, <1>12, <2>1 DEF Advances, Iterates
  <2> QED
    BY <2>2
<1> QED
  BY <1>11, <1>12

LEMMA TranslatesKept == InputInv /\ OptionsInv /\ PhaseInv /\ Translates /\ [Next]_vars => Translates'
<1> SUFFICES ASSUME InputInv, OptionsInv, PhaseInv, Translates, [Next]_vars,
                    Converting', (encoding_to # encoding_from)',
                    (encoding_from = "UTF8" \/ encoding_to = "UTF8")',
                    (encoding_from = "UTF8" \/ \A i \in DOMAIN text : ~Missed(text[i]))'
             PROVE  (\E k \in 0 .. Len(text) : Follows(k))'
  BY DEF Translates
<1>0. text' = text /\ format' = format /\ input' = input
  BY FileKept DEF file
<1>1. CASE UNCHANGED vars \/ EndOfFile
  <2>1. /\ Converting /\ pos' = pos /\ output' = output /\ UNCHANGED state
    BY <1>1 DEF EndOfFile, Converting, vars, state
  <2>2. PICK k \in 0 .. Len(text) : Follows(k)
    BY <1>0, <2>1 DEF Translates, state
  <2>3. Follows(k)'
    BY <1>0, <2>1, <2>2 DEF Follows, Whole, state
  <2> QED
    BY <1>0, <2>3
<1>2. CASE ParseArgs \/ CheckBom
  <2>1. ~Converting'
    <3>1. Parsed.exit \in {"none", "success", "failure"}
      BY ArgsAssumption, ParsedAll DEF OptionsInv, ParsedTo
    <3> QED
      BY <1>2, <3>1 DEF ParseArgs, CheckBom, Converting, PhaseInv
  <2> QED
    BY <2>1
<1>3. CASE Dispatch
  <2>1. pos' = 0 /\ output' = <<>>
    BY <1>3 DEF Dispatch, PhaseInv, state
  <2>2. Encoded(format', text', 0) = <<>> /\ Encoded(encoding_to', text', 0) = <<>>
    BY EncodedNone
  <2>3. Len(Encoded(format', text', 0)) = 0
    BY <2>2
  <2>4. Follows(0)'
    BY <2>1, <2>2, <2>3 DEF Follows, Whole
  <2>5. 0 \in 0 .. Len(text')
    BY <1>0, TextTypes
  <2> QED
    BY <2>4, <2>5
<1>4. CASE FromUtf8 \/ FromUtf16
  <2>1. /\ pc = "convert" /\ Left(pos) > 0 /\ UNCHANGED <<file, state, pc>>
    BY <1>4 DEF FromUtf8, FromUtf16, Iteration, Continue
  <2>2. /\ encoding_to' = encoding_to /\ encoding_from' = encoding_from
        /\ encoding_from = format /\ encoding_to \in Formats /\ encoding_to # encoding_from
    BY <2>1 DEF PhaseInv, state
  <2>3. PICK k \in 0 .. Len(text) : Follows(k)
    BY <1>0, <2>1, <2>2 DEF Translates, Converting
  <2>4. AtGlyph(k)
    BY <2>1, <2>3, FollowsAtGlyph
  <2>5. CASE FromUtf8
    <3>1. encoding_to \in {"UTF16LE", "UTF16BE"}
      BY <2>2, <2>5 DEF FromUtf8, Formats
    <3>2. PICK written : Advances(k, written)
      BY <2>2, <2>4, <2>5, <3>1, Utf8Advances
    <3> QED
      BY <2>1, <2>2, <2>4, <3>2, AdvanceFollows
  <2>6. CASE FromUtf16
    <3>1. ~Missed(text[k + 1])
      <4>1. k + 1 \in DOMAIN text
        BY <2>4, TextTypes DEF AtGlyph
      <4>2. encoding_from # "UTF8"
        BY <2>6 DEF FromUtf16
      <4> QED
        BY <1>0, <2>2, <4>1, <4>2
    <3>2. PICK written : Advances(k, written)
      BY <2>2, <2>4, <2>6, <3>1, Utf16Advances
    <3> QED
      BY <2>1, <2>2, <2>4, <3>2, AdvanceFollows
  <2> QED
    BY <1>4, <2>5, <2>6
<1>5. CASE LittleToBig \/ BigToLittle \/ Transcribe
  <2>1. ~(encoding_to # encoding_from)' \/ ~(encoding_from = "UTF8" \/ encoding_to = "UTF8")'
    BY <1>5 DEF LittleToBig, BigToLittle, Transcribe, Continue, PhaseInv, state
  <2> QED
    BY <2>1
<1> QED
  BY <1>1, <1>2, <1>3, <1>4, <1>5 DEF Next

\* For every text, every damage at its end, every content of the uninitialised
\* buffer: what has been written between UTF-8 and UTF-16 is at any time the
\* standard's encoding of the code points read, and a file that ends within a
\* code point makes only what follows them wrong.
THEOREM TranslatesCorrect == Spec => []Translates
<1>1. Init => Translates
  BY DEF Init, Translates, Converting
<1>2. InputInv /\ OptionsInv /\ PhaseInv /\ Translates /\ [Next]_vars => Translates'
  BY TranslatesKept
<1> QED
  BY <1>1, <1>2, ConverterInvariant, PTL DEF Spec
=============================================================================
