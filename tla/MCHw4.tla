-------------------------------- MODULE MCHw4 --------------------------------
(* Small instances of Hw4: up to three files of up to two blocks, chunks of  *)
(* two bytes, so that blocks are full or partial and files differ in length. *)
EXTENDS Hw4

MaxBlocks == 2

\* An empty file has no last block; fix its size.
File == {f \in [blocks : 0 .. MaxBlocks, last : 1 .. ChunkSize] :
           f.blocks = 0 => f.last = 1}

AllInputs == [Threads -> File]

\* Names none of which occurs in another.
OwnNames == {<<t, t>> : t \in Threads}

\* Or the last name occurs in the one before.
AllNamings == {OwnNames, OwnNames \cup {<<N - 1, N>>}}

\* All that may go wrong, with spurious wakeups and without.
AllFaultSets == {AllFaults, AllFaults \ {"spurious"}}

OwnNamesOnly == {OwnNames}
NoFaults == {{}}
=============================================================================
