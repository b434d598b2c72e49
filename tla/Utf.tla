---------------------------------- MODULE Utf ----------------------------------
(***************************************************************************)
(* The UTF converter (src/hw2/src): it parses its arguments, recognises    *)
(* the byte order mark of the input, and converts the input glyph by glyph *)
(* through a buffer of four bytes on the stack, which is not initialised   *)
(* and keeps what earlier glyphs left in it.                               *)
(*                                                                         *)
(* A file is a sequence of bytes.  `text' and `format' are what the input  *)
(* file holds; its last `cut' bytes are missing.  An option stands with    *)
(* its argument as one argument; "-x" is any that getopt does not accept,  *)
(* an option without its argument too.  "--" is not among the arguments.   *)
(* The machine is little-endian: in the buffer the two bytes of a number   *)
(* stand low byte first.                                                   *)
(***************************************************************************)
EXTENDS Integers, Sequences, Unicode

CONSTANTS
    Texts,          \* the texts in the input file, sequences of code points
    Cuts,           \* how many bytes the input file can lack at its end
    ArgLists,       \* the argument lists
    Garbage,        \* what an uninitialised buffer can hold
    Leftover        \* what malloc's memory can hold as the output encoding

ASSUME TextsAssumption  == Texts \subseteq Seq(Scalars)
ASSUME ArgsAssumption   == ArgLists \subseteq Seq(STRING)
ASSUME CutsAssumption   == Cuts \subseteq Nat
ASSUME BufferAssumption == Garbage \subseteq [1 .. 4 -> 0 .. 255]

\* A text without a mark may still begin with bytes that are another encoding's
\* mark: U+BBEF and U+EFBB with the mark of UTF-8, U+FFFE with the other UTF-16's.
ASSUME MarksAssumption ==
    \A t \in Texts : t # <<>> => t[1] \notin {48111, 61371, 65534}

VARIABLES
    text, format, input,        \* the input file
    args,                       \* argv
    encoding_to, encoding_from, in_file, out_file,      \* program_state
    buf,                        \* utf8_buf, utf16_buf or buf
    pos,                        \* bytes read of the input file
    output,                     \* the bytes written
    pc

file  == <<text, format, input, args>>
state == <<encoding_to, encoding_from, in_file, out_file>>
vars  == <<file, state, buf, pos, output, pc>>

Init ==
    /\ text \in Texts
    /\ format \in Formats
    /\ \E cut \in Cuts :
          LET whole == Encoded(format, text, Len(text))
          IN  input = SubSeq(whole, 1, Len(whole) - cut)
    /\ args \in ArgLists
    /\ encoding_to \in Leftover
    /\ encoding_from = "none"
    /\ in_file = "none" /\ out_file = "none"
    /\ buf \in Garbage
    /\ pos = 0
    /\ output = <<>>
    /\ pc = "parse"

-----------------------------------------------------------------------------
(* Code points and glyphs *)

\* utf8_glyph_size_of_code_point
Utf8Size(cp) ==
    IF cp <= 127 THEN 1 ELSE IF cp <= 2047 THEN 2 ELSE IF cp <= 65535 THEN 3 ELSE 4

Continued(cp) == 128 + (cp % 64)

\* code_point_to_utf8_glyph
Utf8Glyph(cp) ==
    IF Utf8Size(cp) = 1 THEN <<cp % 256>>
    ELSE IF Utf8Size(cp) = 2 THEN <<192 + ((cp \div 64) % 32), Continued(cp)>>
    ELSE IF Utf8Size(cp) = 3
    THEN <<224 + ((cp \div 4096) % 16), Continued(cp \div 64), Continued(cp)>>
    ELSE <<240 + (((cp \div 4096) \div 64) % 8), Continued(cp \div 4096), Continued(cp \div 64), Continued(cp)>>

\* Faulty variant: 1110 is looked for in five bits.
RemainingInFive(byte) ==
    IF byte \in 240 .. 247 THEN 3
    ELSE IF byte \in 112 .. 119 THEN 2
    ELSE IF byte \in 192 .. 223 THEN 1 ELSE 0

\* remaining_utf8_bytes
Remaining(byte) ==
    IF byte \in 240 .. 247 THEN 3
    ELSE IF byte \in 224 .. 239 THEN 2
    ELSE IF byte \in 192 .. 223 THEN 1 ELSE 0

\* The decoding function for a glyph of size bytes.
Utf8CodePoint(b, size) ==
    IF size = 1 THEN b[1]
    ELSE IF size = 2 THEN (b[1] % 32) * 64 + (b[2] % 64)
    ELSE IF size = 3 THEN (b[1] % 16) * 4096 + (b[2] % 64) * 64 + (b[3] % 64)
    ELSE ((b[1] % 8) * 64) * 4096 + (b[2] % 64) * 4096 + (b[3] % 64) * 64 + (b[4] % 64)

Upper(b) == b[1] + 256 * b[2]
Lower(b) == b[3] + 256 * b[4]
Swap(b, i) == [b EXCEPT ![i] = b[i + 1], ![i + 1] = b[i]]

Single(unit)    == <<unit % 256, unit \div 256>>
Pair(high, low) == <<high % 256, high \div 256, low % 256, low \div 256>>

\* code_point_to_utf16le_glyph and code_point_to_utf16be_glyph
Utf16Glyph(to, cp) ==
    LET units == IF cp >= 65536
                 THEN Pair(55296 + ((cp - 65536) \div 1024), 56320 + ((cp - 65536) % 1024))
                 ELSE Single(cp)
    IN  IF to = "UTF16LE" THEN units
        ELSE [i \in DOMAIN units |-> IF i % 2 = 1 THEN units[i + 1] ELSE units[i - 1]]

IsUpperSurrogate(b) == Upper(b) > 55296 /\ Upper(b) < 56319
IsLowerSurrogate(b) == Lower(b) > 56320 /\ Lower(b) < 57343

\* utf16_glyph_to_code_point
Utf16CodePoint(b) ==
    IF IsUpperSurrogate(b)
    THEN 65536 + (Upper(b) - 55296) * 1024 + ((Lower(b) - 56320) % 1024)
    ELSE Upper(b)

-----------------------------------------------------------------------------
(* main: arguments, byte order mark, dispatch *)

EncodingOption == [UTF8 |-> "-eUTF8", UTF16LE |-> "-eUTF16LE", UTF16BE |-> "-eUTF16BE"]

\* determine_format
Named(arg) ==
    IF \E f \in Formats : arg = EncodingOption[f]
    THEN CHOOSE f \in Formats : arg = EncodingOption[f] ELSE "unknown"

\* "bin/utf" is the name the program itself is started by.
Names == {"in", "out", "other", "bin/utf"}

\* Faulty variant: every further name is the output.
ParseLastName(p, arg) ==
    CASE p.exit # "none" \/ arg = "-i" -> p
      [] p.exit = "none" /\ arg = "-h" -> [p EXCEPT !.exit = "success"]
      [] p.exit = "none" /\ arg = "-x" -> [p EXCEPT !.exit = "failure"]
      [] p.exit = "none" /\ arg \in Names ->
            IF p.in_file \in {"none", "bin/utf"} THEN [p EXCEPT !.in_file = arg]
            ELSE [p EXCEPT !.out_file = arg]
      [] OTHER -> [p EXCEPT !.encoding_to = Named(arg)]

\* parse_args: options anywhere; -i is accepted and does nothing.  A name takes the
\* place of an input file called bin/utf; after another one comes the output file.
ParseOne(p, arg) ==
    CASE p.exit # "none" \/ arg = "-i" -> p
      [] p.exit = "none" /\ arg = "-h" -> [p EXCEPT !.exit = "success"]
      [] p.exit = "none" /\ arg = "-x" -> [p EXCEPT !.exit = "failure"]
      [] p.exit = "none" /\ arg \in Names ->
            IF p.in_file \in {"none", "bin/utf"} THEN [p EXCEPT !.in_file = arg]
            ELSE IF p.out_file = "none" THEN [p EXCEPT !.out_file = arg] ELSE p
      [] OTHER -> [p EXCEPT !.encoding_to = Named(arg)]

NotParsed == [encoding_to |-> encoding_to, in_file |-> "none", out_file |-> "none", exit |-> "none"]

Parsed ==
    LET parsed[n \in 0 .. Len(args)] ==
            IF n = 0 THEN NotParsed ELSE ParseOne(parsed[n - 1], args[n])
    IN  parsed[Len(args)]

ParseArgs ==
    /\ pc = "parse"
    /\ encoding_to' = Parsed.encoding_to
    /\ in_file' = Parsed.in_file
    /\ out_file' = Parsed.out_file
    /\ pc' = IF Parsed.exit = "none" THEN "mark" ELSE Parsed.exit
    /\ UNCHANGED <<file, encoding_from, buf, pos, output>>

\* check_bom's reading of the first three bytes.
Marked ==
    CASE Len(input) >= 3 /\ SubSeq(input, 1, 3) = <<239, 187, 191>> -> "UTF8"
      [] Len(input) >= 3 /\ SubSeq(input, 1, 2) = <<255, 254>> -> "UTF16LE"
      [] Len(input) >= 3 /\ SubSeq(input, 1, 2) = <<254, 255>> -> "UTF16BE"
      [] OTHER -> "none"

\* Faulty variant: the inodes are not compared.
CheckBomOnly ==
    /\ pc = "mark"
    /\ encoding_from' = IF in_file = "in" THEN Marked ELSE "none"
    /\ pc' = IF in_file = "in" /\ Marked # "none" /\ out_file # "none"
             THEN "open" ELSE "failure"
    /\ UNCHANGED <<file, encoding_to, in_file, out_file, buf, pos, output>>

\* check_bom, and the opening of both files by main.  Only "in" is there to be
\* read; main ends if both names are the same file or there is no second one.
CheckBom ==
    /\ pc = "mark"
    /\ encoding_from' = IF in_file = "in" THEN Marked ELSE "none"
    /\ pc' = IF in_file = "in" /\ Marked # "none" /\ out_file \notin {"in", "none"}
             THEN "open" ELSE "failure"
    /\ UNCHANGED <<file, encoding_to, in_file, out_file, buf, pos, output>>

\* get_encoding_function gives NULL for an encoding that is none of the three.
\* The lseek before it names no open file of the program: the mark is read again.
\* Between the two UTF-16 encodings a mark is written first; the call that should
\* turn the two bytes of UTF16LE around turns three.
Dispatch ==
    /\ pc = "open"
    /\ pc' = CASE encoding_to \notin Formats -> "crash"
               [] encoding_to = encoding_from -> "transcribe"
               [] OTHER -> "convert"
    /\ output' = CASE encoding_from = "UTF16LE" /\ encoding_to = "UTF16BE" -> <<254, 255>>
                   [] encoding_from = "UTF16BE" /\ encoding_to = "UTF16LE" -> <<0, 255>>
                   [] OTHER -> <<>>
    /\ UNCHANGED <<file, state, buf, pos>>

-----------------------------------------------------------------------------
(* The loops: one action is one iteration *)

Left(at)  == Len(input) - at
Got(at, n) == IF n < Left(at) THEN n ELSE Left(at)

\* read(infile, &b[i], n) at offset `at': what is not read stays.
Read(b, i, at, n) ==
    [j \in 1 .. 4 |-> IF j \in i .. i + Got(at, n) - 1 THEN input[at + j - i + 1] ELSE b[j]]

Iteration == pc = "convert" /\ Left(pos) > 0

Continue(b, at, written) ==
    /\ buf' = b
    /\ pos' = at
    /\ output' = output \o written
    /\ UNCHANGED <<file, state, pc>>

\* from_utf8_to_utf16le, from_utf8_to_utf16be
FromUtf8 ==
    LET first == Read(buf, 1, pos, 1)
        n == Remaining(first[1])
        glyph == Read(first, 2, pos + 1, n)
    IN  /\ Iteration
        /\ encoding_from = "UTF8"
        /\ Continue(glyph, pos + 1 + Got(pos + 1, n),
                    Utf16Glyph(encoding_to, Utf8CodePoint(glyph, n + 1)))

\* A 16-bit number of the input in the machine's order.
ReadUnit(b, i, at) ==
    IF encoding_from = "UTF16BE" THEN Swap(Read(b, i, at, 2), i) ELSE Read(b, i, at, 2)

\* from_utf16le_to_utf8, from_utf16be_to_utf8
FromUtf16 ==
    LET unit == ReadUnit(buf, 1, pos)
        at == pos + Got(pos, 2)
        whole == IF IsUpperSurrogate(unit) THEN ReadUnit(unit, 3, at) ELSE unit
    IN  /\ Iteration
        /\ encoding_from # "UTF8" /\ encoding_to = "UTF8"
        /\ Continue(whole, IF IsUpperSurrogate(unit) THEN at + Got(at, 2) ELSE at,
                    Utf8Glyph(Utf16CodePoint(whole)))

\* Faulty variant: the second unit is not turned around.
LittleToBigHalf ==
    LET unit == Swap(Read(buf, 1, pos, 2), 1)
        at == pos + Got(pos, 2)
        both == Read(unit, 3, at, 2)
    IN  /\ Iteration
        /\ encoding_from = "UTF16LE" /\ encoding_to = "UTF16BE"
        /\ IF IsLowerSurrogate(unit)
           THEN Continue(both, at + Got(at, 2), both)
           ELSE Continue(unit, at, SubSeq(unit, 1, 2))

\* from_utf16le_to_utf16be: whether a second unit is read depends on what the
\* lower half of the buffer held before.
LittleToBig ==
    LET unit == Swap(Read(buf, 1, pos, 2), 1)
        at == pos + Got(pos, 2)
        both == Swap(Read(unit, 3, at, 2), 3)
    IN  /\ Iteration
        /\ encoding_from = "UTF16LE" /\ encoding_to = "UTF16BE"
        /\ IF IsLowerSurrogate(unit)
           THEN Continue(both, at + Got(at, 2), both)
           ELSE Continue(unit, at, SubSeq(unit, 1, 2))

\* from_utf16be_to_utf16le: the four bytes written are those of the mark, and a
\* second unit that can be read ends the loop; if there is none, two bytes of
\* the stack past the mark are written too.
BigToLittle ==
    LET unit == Swap(Read(buf, 1, pos, 2), 1)
        at == pos + Got(pos, 2)
        mark == <<0, 255, 254, 0>>
    IN  /\ Iteration
        /\ encoding_from = "UTF16BE" /\ encoding_to = "UTF16LE"
        /\ IF IsLowerSurrogate(unit) /\ Left(at) > 0
           THEN /\ pc' = "success"
                /\ buf' = Read(unit, 3, at, 2)
                /\ pos' = at + Got(at, 2)
                /\ UNCHANGED <<file, state, output>>
           ELSE IF IsLowerSurrogate(unit)
           THEN \E past \in Garbage : Continue(Swap(unit, 3), at, mark \o SubSeq(past, 1, 2))
           ELSE Continue(unit, at, mark)

\* The read at the end of the file.
EndOfFile ==
    /\ pc = "convert" /\ Left(pos) = 0
    /\ pc' = "success"
    /\ UNCHANGED <<file, state, buf, pos, output>>

\* transcribe: sendfile copies the whole file.
Transcribe ==
    /\ pc = "transcribe"
    /\ output' = input
    /\ pos' = Len(input)
    /\ pc' = "success"
    /\ UNCHANGED <<file, state, buf>>

Next ==
    \/ ParseArgs \/ CheckBom \/ Dispatch \/ Transcribe \/ EndOfFile
    \/ FromUtf8 \/ FromUtf16 \/ LittleToBig \/ BigToLittle

Spec == Init /\ [][Next]_vars
=============================================================================
