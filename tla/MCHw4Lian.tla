------------------------------ MODULE MCHw4Lian ------------------------------
(* Small instances of Hw4Lian: files of up to two blocks, chunks of two       *)
(* bytes, so that blocks are full, partial or empty and files end apart.      *)
EXTENDS Hw4Lian

MaxBlocks == 2

\* An empty file has no last block; fix its size.
File == {f \in [blocks : 0 .. MaxBlocks, last : 1 .. ChunkSize] :
           f.blocks = 0 => f.last = 1}

AllInputs == [Threads -> File]

AllFaults == {"start", "read", "write", "spurious"}
=============================================================================
