------------------------------- MODULE MCHw4Guy -------------------------------
(* Small instances of Hw4Guy: files of up to two blocks, chunks of two bytes  *)
(* and bytes of two values, so that blocks are full or partial, files end     *)
(* apart and a size fills two bytes.                                          *)
EXTENDS Hw4Guy

MaxBlocks == 2

\* An empty file has no last block; fix its size.
File == {f \in [blocks : 0 .. MaxBlocks, last : 1 .. ChunkSize] :
           f.blocks = 0 => f.last = 1}

AllInputs == [Threads -> File]

AllFaults == {"start", "read", "write"}
=============================================================================
