---------------------------- MODULE MCJsonDocument ----------------------------
EXTENDS JsonDocument

\* quote and backslash; a control character and a line end; e acute; U+1F600;
\* a NUL that ends the text for whoever reads it
MCTexts == {<<34, 92>>, <<1, 10>>, <<195, 169>>, <<240, 159, 152, 128>>, <<97, 0, 98>>}
\* the least int64 and the greatest uint64; 1/2, and 2^63 and 2^64
MCScalars == {StringValue(t) : t \in MCTexts}
             \cup {IntValue(n) : n \in {-512, 5}} \cup {UIntValue(1023)}
             \cup {RealValue(n) : n \in {Scale \div 2, Scale * 512, Scale * 1024}} \cup {BoolValue(TRUE)}
MCNames == {<<>>, <<97>>}
MCIndices == {0, 2}
\* space and tab; a comment of each kind, the second to the end of the line
MCGaps == {<<32, 9>>, <<47, 42, 42, 47>>, <<47, 47, 47, 10>>}
=============================================================================
