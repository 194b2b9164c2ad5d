---------------------------- MODULE MCValueCodec ----------------------------
(***************************************************************************)
(* Bounds for checking ValueCodec with TLC, at the code's block limit.     *)
(***************************************************************************)
EXTENDS ValueCodec

MCMax == 65534

\* Empty, short, and every case around one and two full blocks: a length
\* that fills a block exactly, one that leaves room for the end marker, and
\* one that spills into the next block.
MCLengths == {0, 1, MCMax - 3, MCMax - 2, MCMax - 1, MCMax, MCMax + 1,
              2 * MCMax - 4, 2 * MCMax + 2}

\* No code; one digit; the longest "%li" of a 32-bit quality code.
MCCodeLengths == {0, 1, 11}

\* the edges of jbyte and jshort, jint next to its edges, and values in between.
MCNumbers == {-2147483647, -32768, -129, -128, -1, 0, 1, 127, 128, 255,
              32767, 2147483647}
=============================================================================
