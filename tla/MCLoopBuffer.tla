--------------------------- MODULE MCLoopBuffer ---------------------------
\* Blocks for the run of LoopBuffer: every sequence of two byte values up to
\* the length the larger buffer refuses.
EXTENDS LoopBuffer

AllBlocks == UNION {[1 .. n -> Bytes] : n \in 0 .. 3}
=============================================================================
