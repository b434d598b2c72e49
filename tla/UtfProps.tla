-------------------------------- MODULE UtfProps --------------------------------
(* What the UTF converter owes its user.                                       *)
EXTENDS Utf

-----------------------------------------------------------------------------

Whole(k)   == Len(Encoded(format, text, k))
Converting == pc = "convert" \/ (pc = "success" /\ encoding_from # "none")

\* The code points read so far, of which the last may be damaged by the end of
\* the file: then what follows the others in the output is anything.
Follows(k) ==
    LET done == Encoded(encoding_to, text, k)
    IN  \/ pos = Whole(k) /\ output = done
        \/ /\ k < Len(text) /\ Whole(k) < pos /\ pos = Len(input) /\ pos < Whole(k + 1)
           /\ Len(output) > Len(done) /\ SubSeq(output, 1, Len(done)) = done

\* The supplementary code points whose leading half is 0xD800 or 0xDBFF.
Missed(cp) == cp \div 1024 \in {64, 1087}

\* Between UTF-8 and either UTF-16 what has been written is at any time the
\* conversion of what has been read, mark included, whatever the buffer held and
\* wherever a damaged file ends.  Code points the surrogate tests miss are left
\* out when the input is UTF-16.
Translates ==
    (/\ Converting
     /\ encoding_to # encoding_from
     /\ encoding_from = "UTF8" \/ encoding_to = "UTF8"
     /\ encoding_from = "UTF8" \/ \A i \in DOMAIN text : ~Missed(text[i]))
        => \E k \in 0 .. Len(text) : Follows(k)

Swapped(from, n) ==
    [i \in 1 .. n - from |-> IF i % 2 = 1 THEN input[from + i + 1] ELSE input[from + i - 1]]

\* The number in the last two bytes written, the first of them the greater.
LastWritten == Lower(<<0, 0, output[Len(output)], output[Len(output) - 1]>>)

\* From UTF-16LE to UTF-16BE the output is a mark and the units of the input, each
\* turned around once, in order, with or without the input's own mark among them,
\* although the test for a second unit reads what an earlier iteration left.  Only
\* at the end of the file one unit more can be written, out of the buffer, and only
\* if it reads as the lower half of a pair.
SwapsUnits ==
    (Converting /\ encoding_from = "UTF16LE" /\ encoding_to = "UTF16BE"
     /\ Len(input) % 2 = 0)
        => \E from \in {0, 2} :
             LET done == <<254, 255>> \o Swapped(from, pos)
             IN  \/ output = done
                 \/ /\ pos = Len(input) /\ Len(output) = Len(done) + 2
                    /\ SubSeq(output, 1, Len(done)) = done
                    /\ LastWritten > 56320 /\ LastWritten < 57343

First(places) == CHOOSE i \in places : \A j \in places : i <= j
Last(places)  == CHOOSE i \in places : \A j \in places : j <= i

Positional == {i \in DOMAIN args : args[i] \in Names}
Real       == {i \in Positional : args[i] # "bin/utf"}
Stopping   == {i \in DOMAIN args : args[i] \in {"-h", "-x"}}
Encodings  == {i \in DOMAIN args : args[i] \notin Names \cup {"-h", "-x", "-i"}}
NameAt(places) == IF places = {} THEN "none" ELSE args[First(places)]

\* Options may stand anywhere among the files: the first name is the input and the
\* next one the output, where bin/utf, the program's own name, is passed over until
\* there is an input.  The last -e is the one that counts, and -i has no effect.
OptionsAnywhere ==
    pc \notin {"parse", "success", "failure"} =>
        /\ Stopping = {}
        /\ in_file = NameAt(IF Real # {} THEN Real ELSE Positional)
        /\ out_file = NameAt({i \in Positional : \E j \in Real : j < i})
        /\ Encodings # {} => encoding_to = Named(args[Last(Encodings)])

\* Nothing is written unless the input carries the mark of what it holds, and
\* nothing is ever written to the input file.
OnlyMarkedIsRead ==
    output # <<>> => /\ encoding_from = format /\ text[1] = Mark
                     /\ in_file = "in" /\ out_file \notin {"in", "none"}
=============================================================================
