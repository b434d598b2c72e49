--------------------------------- MODULE MCUtf ---------------------------------
EXTENDS UtfProps

\* Code points of every length in UTF-8, the least and the greatest of the pairs
\* that are recognised; all texts of at most two of them after a mark.
Sample == {127, 128, 2048, 65535, 66560, 1113087}
MCTexts ==
    {<<Mark>>, <<65, 66, 67>>} \cup {<<Mark, a>> : a \in Sample}
    \cup {<<Mark, a, b>> : a \in Sample, b \in Sample}

MCArgLists == {
    <<"-eUTF8", "in", "out">>, <<"in", "-eUTF16LE", "out">>, <<"in", "out", "-eUTF16BE">>,
    <<"-eUTF16LE", "-eUTF8", "in", "out">>, <<"-eUTF32", "in", "out">>, <<"in", "out">>,
    <<"-eUTF8", "in", "in">>, <<"-eUTF8", "out", "in">>, <<"-eUTF8", "in">>, <<"-eUTF8">>,
    <<"-eUTF8", "in", "-h", "out">>, <<"-x", "in", "out">>, <<"-eUTF8", "in", "out", "other">>,
    <<"bin/utf", "-eUTF8", "bin/utf", "in", "-i", "out">>, <<"-eUTF16BE", "in", "bin/utf", "out">>,
    <<"-eUTF8", "bin/utf">>}

\* The lower half of the buffer is 0, or reads as a lower surrogate.
MCGarbage == {<<0, 0, 0, 0>>, <<10, 220, 1, 221>>}
=============================================================================
