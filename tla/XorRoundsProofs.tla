---------------------------- MODULE XorRoundsProofs ----------------------------
(***************************************************************************)
(* Facts about rounds and file sizes that the proofs about the programs of *)
(* ex4 share, for every number of files, chunk size and input.             *)
(***************************************************************************)
EXTENDS XorRounds, WellFoundedInduction, TLAPS

\* A set of naturals has a least element; where a proof needs induction it takes
\* the least counterexample.
LEMMA Least ==
  ASSUME NEW S, S \subseteq Nat, S # {}
  PROVE  \E m \in S : \A k \in S : m <= k
<1> DEFINE R == OpToRel(<, Nat)
<1>1. PICK x \in S : \A y \in S : ~ (<<y, x>> \in R)
  BY NatLessThanWellFounded, WFMin
<1>2. \A a, b \in Nat : a < b => <<a, b>> \in R
  BY DEF OpToRel
<1> HIDE DEF R
<1>3. ASSUME NEW y \in S PROVE x <= y
  <2>1. x \in Nat /\ y \in Nat
    OBVIOUS
  <2>2. ~ (<<y, x>> \in R)
    BY <1>1
  <2>3. ~ (y < x)
    BY <2>1, <2>2, <1>2
  <2> QED BY <2>1, <2>3
<1> QED BY <1>3

\* A block has at least one byte and at most ChunkSize.
LEMMA BlockSizeBounds ==
  ASSUME NEW in \in Inputs, NEW t \in Threads, NEW k \in Nat
  PROVE  BlockSize(in, t, k) \in 1 .. ChunkSize
  BY ChunkSizeAssumption DEF BlockSize, Inputs

\* Products with the chunk size grow with the number of blocks.
LEMMA ProductMonotonic ==
  ASSUME NEW a \in Nat, NEW b \in Nat, a <= b, NEW c \in Nat
  PROVE  0 <= a * c /\ a * c <= b * c
  OBVIOUS

\* A round that was written (an element of the output) has the type of a round.
LEMMA SeqElement ==
  ASSUME NEW S, NEW s \in Seq(S), NEW i \in 1 .. Len(s)
  PROVE  s[i] \in S
  OBVIOUS

\* The bytes of k + 1 full rounds are those of k rounds and one chunk.
LEMMA OneMoreRound ==
  ASSUME NEW a \in Nat, NEW c \in Nat
  PROVE  (a - 1) * c + c = a * c
  OBVIOUS

\* Appending an exact round to exact rounds leaves them exact and adds its size
\* (write appends to the output; every round before it is full).
LEMMA RoundAppended ==
  ASSUME NEW in \in Inputs,
         NEW out \in Seq([data : SUBSET (Threads \X (Nat \ {0})), size : 0 .. ChunkSize]),
         NEW new \in [data : SUBSET (Threads \X (Nat \ {0})), size : 0 .. ChunkSize],
         ExactRounds(in, out), ExactRound(in, Len(out) + 1, new)
  PROVE  /\ ExactRounds(in, Append(out, new))
         /\ RoundsSize(Append(out, new)) = RoundsSize(out) + new.size
<1> DEFINE k == Len(out)
           longer == Append(out, new)
<1>1. /\ k \in Nat /\ Len(longer) = k + 1 /\ longer # << >>
      /\ longer[k + 1] = new
      /\ \A j \in 1 .. k : longer[j] = out[j]
  OBVIOUS
<1>2. ExactRounds(in, longer)
  <2> SUFFICES ASSUME NEW j \in 1 .. k + 1 PROVE ExactRound(in, j, longer[j])
    BY <1>1 DEF ExactRounds
  <2>1. CASE j = k + 1 BY <2>1, <1>1
  <2>2. CASE j # k + 1
    <3>1. j \in 1 .. k
      BY <2>2, <1>1
    <3> QED BY <3>1, <1>1 DEF ExactRounds
  <2> QED BY <2>1, <2>2
<1>3. RoundsSize(out) = k * ChunkSize
  <2>1. CASE k = 0
    BY <2>1, ChunkSizeAssumption DEF RoundsSize
  <2>2. CASE k > 0
    <3>1. k \in 1 .. Len(out)
      BY <2>2, <1>1
    <3>2. out[k] \in [data : SUBSET (Threads \X (Nat \ {0})), size : 0 .. ChunkSize]
      BY <3>1, SeqElement
    <3>3. PICK t \in Holders(in, k + 1) : TRUE
      BY DEF ExactRound, IsRoundSize
    <3>4. t \in Holders(in, k) /\ BlockSize(in, t, k) = ChunkSize
      BY <1>1, <3>3 DEF Holders, BlockSize, Inputs
    <3>5. out[k].size = ChunkSize
      BY <3>1, <3>2, <3>4, ChunkSizeAssumption DEF ExactRounds, ExactRound, IsRoundSize
    <3>6. RoundsSize(out) = (k - 1) * ChunkSize + ChunkSize
      BY <2>2, <3>5 DEF RoundsSize
    <3>7. k \in Nat /\ ChunkSize \in Nat
      BY <1>1, ChunkSizeAssumption
    <3> HIDE DEF k
    <3> QED BY <3>6, <3>7, OneMoreRound
  <2> QED BY <2>1, <2>2, <1>1
<1>4. RoundsSize(longer) = ((k + 1) - 1) * ChunkSize + new.size
  BY <1>1 DEF RoundsSize
<1>5. (k + 1) - 1 = k
  BY <1>1
<1> HIDE DEF k, longer
<1> QED BY <1>2, <1>3, <1>4, <1>5 DEF longer

\* Exact rounds of all blocks of all files have the size of the largest file
\* (what main announces).
LEMMA CompleteSize ==
  ASSUME NEW in \in Inputs,
         NEW out \in Seq([data : SUBSET (Threads \X (Nat \ {0})), size : 0 .. ChunkSize]),
         ExactRounds(in, out), IsLastRound(in, Len(out))
  PROVE  IsOutputSize(in, RoundsSize(out))
<1> DEFINE k == Len(out)
<1>1. /\ k \in Nat
      /\ ChunkSize \in Nat /\ ChunkSize >= 1
      /\ 1 \in Threads
  BY ChunkSizeAssumption, NAssumption DEF Threads
<1>2. \A t \in Threads : in[t].blocks \in Nat /\ in[t].last \in 1 .. ChunkSize
  BY DEF Inputs
<1>3. \A t \in Threads : in[t].blocks <= k
  BY DEF IsLastRound
<1>4. CASE k = 0
  <2>1. \A t \in Threads : FileSize(in, t) = 0
    BY <1>2, <1>3, <1>4 DEF FileSize
  <2>2. RoundsSize(out) = 0
    BY <1>4 DEF RoundsSize
  <2> QED BY <1>1, <2>1, <2>2 DEF IsOutputSize
<1>5. CASE k > 0
  <2> DEFINE size == out[k].size
             bytes == RoundsSize(out)
  <2>1. IsRoundSize(in, k, size)
    BY <1>1, <1>5 DEF ExactRounds, ExactRound
  <2>2. bytes = (k - 1) * ChunkSize + size
    BY <1>5 DEF RoundsSize
  <2>3. PICK t \in Holders(in, k) : size = BlockSize(in, t, k)
    BY <2>1 DEF IsRoundSize
  <2>4. t \in Threads /\ in[t].blocks = k /\ size = in[t].last
    BY <1>1, <1>2, <1>3, <2>3 DEF Holders, BlockSize
  <2>5. bytes = FileSize(in, t)
    BY <1>5, <2>2, <2>4 DEF FileSize
  <2>6. ASSUME NEW u \in Threads PROVE FileSize(in, u) <= bytes
    <3> DEFINE b == in[u].blocks
    <3> HIDE DEF k, size, bytes
    <3>1. b \in Nat /\ b <= k /\ in[u].last \in 1 .. ChunkSize
            /\ size \in 1 .. ChunkSize
      BY <1>2, <1>3, <2>4
    <3>2. CASE b = 0
      <4>1. FileSize(in, u) = 0
        BY <3>2 DEF FileSize
      <4>2. (k - 1) * ChunkSize >= 0
        BY <1>1, <1>5, ProductMonotonic
      <4> QED BY <2>2, <3>1, <4>1, <4>2, <1>1
    <3>3. CASE b = k
      <4>1. FileSize(in, u) = (k - 1) * ChunkSize + in[u].last
        BY <3>3, <1>5 DEF FileSize
      <4>2. in[u].last <= size
        <5>1. u \in Holders(in, k) /\ BlockSize(in, u, k) = in[u].last
          BY <1>1, <3>3 DEF Holders, BlockSize
        <5> QED BY <2>1, <5>1 DEF IsRoundSize
      <4> DEFINE full == (k - 1) * ChunkSize
      <4>3. full \in Int
        BY <1>1
      <4> HIDE DEF full
      <4> QED BY <2>2, <3>1, <4>1, <4>2, <4>3 DEF full
    <3>4. CASE 0 < b /\ b < k
      <4> DEFINE full == (k - 1) * ChunkSize
                 mine == (b - 1) * ChunkSize
      <4>1. FileSize(in, u) = mine + in[u].last
        BY <3>1, <3>4 DEF FileSize
      <4>2. mine + ChunkSize = b * ChunkSize
        BY <1>1, <3>1, OneMoreRound
      <4>3. b * ChunkSize <= full
        <5>1. k - 1 \in Nat /\ b <= k - 1
          BY <1>1, <3>1, <3>4
        <5> HIDE DEF b
        <5> QED BY <1>1, <3>1, <5>1, ProductMonotonic
      <4>4. full \in Int /\ mine \in Int /\ b * ChunkSize \in Int
        BY <1>1, <3>1
      <4>5. bytes = full + size
        BY <2>2
      <4> HIDE DEF full, mine, b
      <4> QED BY <1>1, <3>1, <4>1, <4>2, <4>3, <4>4, <4>5
    <3>5. b = 0 \/ b = k \/ (0 < b /\ b < k)
      <4> HIDE DEF b
      <4> QED BY <1>1, <3>1
    <3> QED BY <3>2, <3>3, <3>4, <3>5
  <2> QED BY <2>4, <2>5, <2>6 DEF IsOutputSize
<1> QED BY <1>1, <1>4, <1>5
=============================================================================
