------------------------------- MODULE MCCodec -------------------------------
EXTENDS Codec

\* x^4 + x^3 + 2x^2 + 3x + 5, highest power left out.
SomeGenerator == <<1, 2, 3, 5>>

\* The first and the last value of each integer type, and one in between.
SomeSequences == {1, 2000, Radix^4 - 1}
SomeAcks == {0, 400, Radix^4 - 1}
SomeIds == {1, Radix^2 - 1}
=============================================================================
