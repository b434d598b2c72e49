-------------------------------- MODULE Unicode --------------------------------
(* The encodings as the Unicode standard defines them, which is what the       *)
(* files of the converter (Utf) hold: independent of the converter's code.     *)
EXTENDS Integers, Sequences

Formats == {"UTF8", "UTF16LE", "UTF16BE"}

\* The byte order mark, and the code points of the seventeen planes.
Mark       == 65279
CodePoints == {cp \in Nat : cp \div 65536 <= 16}

\* The code points that are no halves of a pair: those a text can hold.
Scalars    == CodePoints \ (55296 .. 57343)

\* cp without its last k groups of six bits.
Shifted(cp, k) == IF k = 0 THEN cp ELSE IF k = 1 THEN cp \div 64
                  ELSE IF k = 2 THEN cp \div 4096 ELSE (cp \div 4096) \div 64

\* n bytes: a leading byte that says n, then six bits in each of the others.
Utf8Bytes(cp, n) ==
    [i \in 1 .. n |-> IF i = 1 THEN <<0, 192, 224, 240>>[n] + Shifted(cp, n - 1)
                      ELSE 128 + (Shifted(cp, n - i) % 64)]
Utf8(cp) == Utf8Bytes(cp, IF cp < 128 THEN 1 ELSE IF cp < 2048 THEN 2
                          ELSE IF cp < 65536 THEN 3 ELSE 4)

\* One 16-bit unit, or a pair of units that share the 20 bits above 65536.
Utf16(cp) ==
    IF cp < 65536 THEN <<cp>>
    ELSE <<55296 + ((cp - 65536) \div 1024), 56320 + ((cp - 65536) % 1024)>>

Bytes(units, little) ==
    [i \in 1 .. 2 * Len(units) |->
        LET unit == units[(i + 1) \div 2]
        IN  IF (i % 2 = 1) = little THEN unit % 256 ELSE unit \div 256]

Encoding(format, cp) ==
    IF format = "UTF8" THEN Utf8(cp) ELSE Bytes(Utf16(cp), format = "UTF16LE")

\* The first n code points of a text.
Encoded(format, text, n) ==
    LET encoded[k \in 0 .. n] ==
            IF k = 0 THEN <<>> ELSE encoded[k - 1] \o Encoding(format, text[k])
    IN  encoded[n]
=============================================================================
