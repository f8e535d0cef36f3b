------------------------------ MODULE XorRounds ------------------------------
(***************************************************************************)
(* The data of ex4: N input files cut into rounds of ChunkSize bytes.      *)
(*                                                                         *)
(* Bytes are abstracted to the blocks they come from: <<t, k>> stands for  *)
(* block k of input file t.  XOR is commutative, associative and its own   *)
(* inverse, so the XOR of a collection of blocks is the set of the blocks  *)
(* that occur an odd number of times, and XORing one more block in is a    *)
(* symmetric difference.  Two sets of blocks are equal exactly when the    *)
(* XORs are equal whatever bytes the files hold.                           *)
(*                                                                         *)
(* An input gives, for every file, its number of blocks and the size of    *)
(* its last one; a file of 0 blocks is empty.                              *)
(***************************************************************************)
EXTENDS Integers, Sequences, FiniteSetsExt

CONSTANTS N,          \* number of input files, argc - 2
          ChunkSize   \* bytes a round holds, 1024*1024 in the code

ASSUME NAssumption == N \in Nat \ {0}
ASSUME ChunkSizeAssumption == ChunkSize \in Nat \ {0}

Threads == 1 .. N

Inputs == [Threads -> [blocks : Nat, last : 1 .. ChunkSize]]

\* Bytes of block k of file t, for k in 1 .. input[t].blocks.
BlockSize(input, t, k) ==
  IF k < input[t].blocks THEN ChunkSize ELSE input[t].last

\* Bytes of file t.
FileSize(input, t) ==
  IF input[t].blocks = 0
  THEN 0
  ELSE (input[t].blocks - 1) * ChunkSize + input[t].last

\* The files that still have a block in round k.
Holders(input, k) == {t \in Threads : k <= input[t].blocks}

\* The XOR of the k-th blocks of all files that have one.
RoundData(input, k) == {<<t, k>> : t \in Holders(input, k)}

\* size is the size of the largest k-th block.
IsRoundSize(input, k, size) ==
  /\ \E t \in Holders(input, k) : size = BlockSize(input, t, k)
  /\ \A t \in Holders(input, k) : BlockSize(input, t, k) <= size

\* What a correct program writes in round k.
ExactRound(input, k, round) ==
  /\ round.data = RoundData(input, k)
  /\ IsRoundSize(input, k, round.size)

\* The k-th round is the last one.
IsLastRound(input, k) ==
  \A t \in Threads : input[t].blocks <= k

\* size is the size of the largest file, the size the output must have.
IsOutputSize(input, size) ==
  /\ \E t \in Threads : size = FileSize(input, t)
  /\ \A t \in Threads : FileSize(input, t) <= size

\* All the rounds of an output are exact.
ExactRounds(input, out) == \A k \in 1 .. Len(out) : ExactRound(input, k, out[k])

\* Bytes of an output whose rounds are full but for the last.
RoundsSize(out) ==
  IF out = << >> THEN 0 ELSE (Len(out) - 1) * ChunkSize + out[Len(out)].size
=============================================================================
