----------------------------- MODULE Hw4GuyProofs ------------------------------
(***************************************************************************)
(* Proofs about Hw4Guy, for every number of files, inputs and faults: no   *)
(* block is lost or XORed twice, whole files come out exactly, and threads *)
(* never all wait for each other.                                          *)
(***************************************************************************)
EXTENDS Hw4Guy, XorRoundsProofs, FiniteSetTheorems, SequenceTheorems

\* The rounds written that have block k of file t.
RoundsWith(t, k) == {r \in 1 .. Len(output) : <<t, k>> \in output[r].data}

\* EachBlockOnce, without cardinalities.
Placed(t, k) ==
  IF k <= BlocksXored(t)
  THEN IF <<t, k>> \in chunk /\ Unlocked
       THEN RoundsWith(t, k) = {}
       ELSE \E r : RoundsWith(t, k) = {r}
  ELSE <<t, k>> \notin chunk /\ RoundsWith(t, k) = {}

BlocksPlaced ==
  \A t \in Threads : \A k \in 1 .. input[t].blocks : Placed(t, k)

\* The part of the invariant that this takes.
InOrder ==
  /\ input \in InputFiles
  /\ mainI \in 0 .. N
  /\ pc \in [Threads -> {"unborn", "first", "size", "lock", "clear", "waiting",
                         "woken", "read", "exited"}]
  /\ reads \in [Threads -> Nat]
  /\ ReadsInOrder

\* output is a sequence, whatever the sizes.
OutputIsSeq == \E R : output \in Seq(R)

PlacedInv == InOrder /\ OutputIsSeq /\ BlocksPlaced

LEMMA ThreadsAre ==
  /\ Threads = 1 .. N /\ N \in Nat /\ N >= 1
  /\ \A in \in Inputs : \A t \in Threads : in[t].blocks \in Nat
  BY NAssumption DEF Threads, Inputs

LEMMA MaxOfZero == \A n \in Int : Max({0, n}) = IF n < 0 THEN 0 ELSE n
<1> SUFFICES ASSUME NEW n \in Int PROVE Max({0, n}) = IF n < 0 THEN 0 ELSE n
  OBVIOUS
<1> DEFINE m == IF n < 0 THEN 0 ELSE n
<1>1. m \in {0, n} /\ \A y \in {0, n} : m >= y
  OBVIOUS
<1>2. \A x \in {0, n} : (\A y \in {0, n} : x >= y) => x = m
  OBVIOUS
<1> HIDE DEF m
<1>3. Max({0, n}) = m
  BY <1>1, <1>2 DEF Max
<1> QED BY <1>3 DEF m

\* While a thread runs, the blocks it has XORed are those it read, but for the
\* one it is at.
LEMMA XoredSoFar ==
  ASSUME InOrder, NEW t \in Threads
  PROVE  /\ pc[t] \in {"unborn", "first"} => BlocksXored(t) = 0
         /\ pc[t] \in {"size", "lock"} => BlocksXored(t) = reads[t] - 1
         /\ pc[t] \in {"clear", "waiting", "woken", "read"} =>
              BlocksXored(t) = reads[t]
         /\ pc[t] = "exited" /\ reads[t] = input[t].blocks + 1 =>
              BlocksXored(t) = input[t].blocks
<1>1. input[t].blocks \in Nat /\ reads[t] \in Nat
  BY InputFilesAssumption, ThreadsAre DEF InOrder, ReadsInOrder
<1>2. Max({0, reads[t] - 1}) = IF reads[t] - 1 < 0 THEN 0 ELSE reads[t] - 1
  BY <1>1, MaxOfZero
<1> QED BY <1>1, <1>2 DEF InOrder, ReadsInOrder, BlocksXored

\* A step that neither XORs nor writes nor gives the mutex back moves no block.
LEMMA StillPlaced ==
  ASSUME BlocksPlaced, UNCHANGED <<input, chunk, output>>, Unlocked' = Unlocked,
         \A t \in Threads : BlocksXored(t)' = BlocksXored(t)
  PROVE  BlocksPlaced'
  BY DEF BlocksPlaced, Placed, RoundsWith

-----------------------------------------------------------------------------

LEMMA PlacedInvInit == Init => PlacedInv
<1> SUFFICES ASSUME Init PROVE PlacedInv
  OBVIOUS
<1>1. InOrder
  BY ThreadsAre DEF Init, InOrder, ReadsInOrder
<1>2. OutputIsSeq
  BY DEF Init, OutputIsSeq
<1>3. \A t \in Threads : BlocksXored(t) = 0
  BY <1>1, XoredSoFar DEF Init
<1>4. BlocksPlaced
  BY <1>3 DEF Init, BlocksPlaced, Placed, RoundsWith
<1> QED BY <1>1, <1>2, <1>4 DEF PlacedInv

\* main's steps.
LEMMA MainInOrder ==
  ASSUME InOrder, Main
  PROVE  InOrder'
<1> USE DEF InOrder, ReadsInOrder, roundVars
<1>1. CASE CreateThread
  <2>1. Threads = 1 .. N /\ N \in Nat /\ mainI + 1 \in Threads
    BY <1>1, ThreadsAre DEF CreateThread
  <2>2. pc[mainI + 1] = "unborn" /\ pc' = [pc EXCEPT ![mainI + 1] = "first"]
    BY <1>1, <2>1 DEF CreateThread
  <2>3. UNCHANGED <<input, reads>>
    BY <1>1 DEF CreateThread
  <2>4. \/ mainI + 1 = N /\ mainPc' = "join" /\ mainI' = 0
        \/ mainI + 1 < N /\ mainPc' = "create" /\ mainI' = mainI + 1
    BY <1>1, <2>1 DEF CreateThread
  <2>5. mainI' \in 0 .. N /\ (mainPc' = "create" => mainI' < N)
    BY <2>1, <2>4
  <2>6. mainPc' = "create" => \A u \in mainI' + 1 .. N : pc'[u] = "unborn"
    BY <1>1, <2>1, <2>2, <2>4 DEF CreateThread
  <2>7. \A t \in Threads :
          /\ pc'[t] \in {"unborn", "first"} => reads[t] = 0
          /\ pc'[t] # "first" => pc'[t] = pc[t]
    BY <2>1, <2>2
  <2> QED BY <2>2, <2>3, <2>5, <2>6, <2>7
<1>2. CASE StartFails
  BY <1>2 DEF StartFails, ProcessFails
<1>3. CASE JoinThread
  BY <1>3, ThreadsAre DEF JoinThread, Joins
<1> QED BY <1>1, <1>2, <1>3 DEF Main

LEMMA MainKeeps ==
  ASSUME PlacedInv, Main
  PROVE  PlacedInv'
<1>1. InOrder'
  BY MainInOrder DEF PlacedInv
<1>2. UNCHANGED <<input, reads, chunk, output>>
  BY DEF Main, CreateThread, StartFails, ProcessFails, JoinThread, roundVars
<1>3. \A t \in Threads : pc'[t] = pc[t] \/ (pc[t] = "unborn" /\ pc'[t] = "first")
  BY ThreadsAre DEF PlacedInv, InOrder, ReadsInOrder, Main, CreateThread, StartFails, ProcessFails, JoinThread
<1>4. \A t \in Threads : BlocksXored(t)' = BlocksXored(t)
  BY <1>2, <1>3 DEF BlocksXored
<1>5. Unlocked' = Unlocked
  BY <1>3 DEF Unlocked
<1> QED BY <1>1, <1>2, <1>4, <1>5, StillPlaced DEF PlacedInv, OutputIsSeq

\* A read returns nothing exactly behind the last block.
LEMMA EndOfFile ==
  ASSUME InOrder, NEW t \in Threads, NEW k \in Nat
  PROVE  BytesRead(t, k) = 0 <=> k > input[t].blocks
<1>1. input[t].blocks \in Nat /\ input[t].last \in 1 .. ChunkSize
  BY InputFilesAssumption DEF InOrder, ReadsInOrder, Inputs
<1> QED BY <1>1, ChunkSizeAssumption DEF BytesRead, BlockSize

\* Every thread step keeps the order of reads and touches no other's.
LEMMA ThreadInOrder ==
  ASSUME InOrder, NEW t \in Threads, Thread(t)
  PROVE  InOrder'
<1>1. /\ input[t].blocks \in Nat /\ reads[t] \in Nat /\ reads[t] + 1 \in Nat
      /\ N \in Nat /\ Threads = 1 .. N
  BY InputFilesAssumption, ThreadsAre DEF InOrder, ReadsInOrder
<1>2. BytesRead(t, reads[t] + 1) = 0 <=> reads[t] + 1 > input[t].blocks
  BY <1>1, EndOfFile
<1> USE DEF InOrder, ReadsInOrder, mainVars, roundVars
<1>3. /\ UNCHANGED <<input, mainI>> /\ (mainPc' = "create" => mainPc = "create")
      /\ pc[t] # "unborn"
  BY DEF Thread, FirstRead, NextRead, ReadFails, WriteFails, ProcessFails, SetSize,
         XorAndWait, XorAndWrite, Clear, Reacquire
<1>4. \A u \in Threads \ {t} :
        /\ reads'[u] = reads[u]
        /\ pc'[u] = pc[u] \/ (pc[u] = "waiting" /\ pc'[u] = "woken")
  BY DEF Thread, FirstRead, NextRead, ReadFails, WriteFails, ProcessFails, SetSize,
         XorAndWait, XorAndWrite, Clear, Reacquire, AfterRead, Woken
<1>5. /\ pc' \in [Threads -> {"unborn", "first", "size", "lock", "clear", "waiting",
                             "woken", "read", "exited"}]
      /\ reads' \in [Threads -> Nat]
      /\ pc'[t] \in {"unborn", "first"} => reads'[t] = 0
      /\ pc'[t] \in {"size", "lock", "clear", "waiting", "woken", "read"} =>
           reads'[t] \in 1 .. input[t].blocks
  <2>1. CASE FirstRead(t) \/ NextRead(t)
    <3>1. /\ reads' = [reads EXCEPT ![t] = reads[t] + 1]
          /\ pc' = AfterRead(t)
      BY <2>1 DEF FirstRead, NextRead
    <3>2. pc' = [pc EXCEPT ![t] = IF reads[t] + 1 > input[t].blocks
                                  THEN "exited" ELSE "size"]
      BY <1>2, <3>1 DEF AfterRead
    <3> QED BY <1>1, <3>1, <3>2
  <2>2. CASE ReadFails(t) \/ WriteFails(t)
    BY <2>2 DEF ReadFails, WriteFails, ProcessFails
  <2>3. CASE SetSize(t) \/ Reacquire(t)
    BY <2>3 DEF SetSize, Reacquire
  <2>4. CASE XorAndWait(t) \/ XorAndWrite(t)
    BY <2>4 DEF XorAndWait, XorAndWrite
  <2>5. CASE Clear(t)
    BY <2>5 DEF Clear, Woken
  <2> QED BY <2>1, <2>2, <2>3, <2>4, <2>5 DEF Thread
<1>6. \A u \in Threads :
        /\ pc'[u] \in {"unborn", "first"} => reads'[u] = 0
        /\ pc'[u] \in {"size", "lock", "clear", "waiting", "woken", "read"} =>
             reads'[u] \in 1 .. input'[u].blocks
  BY <1>3, <1>4, <1>5
<1>7. mainPc' = "create" =>
        mainI' < N /\ \A u \in mainI' + 1 .. N : pc'[u] = "unborn"
  BY <1>1, <1>3, <1>4
<1> QED BY <1>3, <1>5, <1>6, <1>7

\* Nor does main's, or a stutter.
LEMMA InOrderNext ==
  ASSUME InOrder, [Next]_vars
  PROVE  InOrder'
<1>1. CASE Main
  BY <1>1, MainInOrder
<1>2. ASSUME NEW t \in Threads, Thread(t) PROVE InOrder'
  BY <1>2, ThreadInOrder
<1>3. CASE UNCHANGED vars
  BY <1>3 DEF InOrder, ReadsInOrder, vars, mainVars
<1> QED BY <1>1, <1>2, <1>3 DEF Next

\* The steps that XOR nothing and keep the mutex where it is.
LEMMA QuietThread ==
  ASSUME PlacedInv, NEW t \in Threads, Thread(t),
         ~ (XorAndWait(t) \/ XorAndWrite(t) \/ Clear(t))
  PROVE  BlocksPlaced' /\ OutputIsSeq'
<1> USE DEF PlacedInv, mainVars, roundVars
<1>0. InOrder'
  BY ThreadInOrder
<1>1. UNCHANGED <<input, chunk, output>>
  BY DEF Thread, FirstRead, NextRead, ReadFails, WriteFails, ProcessFails, SetSize,
         Reacquire
<1>2. \A u \in Threads \ {t} : pc'[u] = pc[u] /\ reads'[u] = reads[u]
  BY DEF Thread, FirstRead, NextRead, ReadFails, WriteFails, ProcessFails, SetSize,
         Reacquire, AfterRead, InOrder, ReadsInOrder
<1>3. \/ pc[t] # "clear" /\ pc'[t] # "clear"
      \/ pc' = pc
  BY DEF Thread, FirstRead, NextRead, ReadFails, WriteFails, ProcessFails, SetSize,
         Reacquire, AfterRead, InOrder, ReadsInOrder
<1>4. Unlocked' = Unlocked
  BY <1>2, <1>3 DEF Unlocked
<1>5. BlocksXored(t)' = BlocksXored(t)
  <2> USE DEF InOrder, ReadsInOrder
  <2>1. input[t].blocks \in Nat /\ reads[t] \in Nat
    BY InputFilesAssumption, ThreadsAre
  <2>2. CASE FirstRead(t) \/ NextRead(t)
    <3>1. /\ pc[t] \in {"first", "read"} /\ reads'[t] = reads[t] + 1
          /\ pc'[t] \in {"size", "exited"}
          /\ pc[t] = "first" => reads[t] = 0
      BY <2>2 DEF FirstRead, NextRead, AfterRead
    <3>2. BlocksXored(t) = reads[t]
      BY <3>1, XoredSoFar
    <3>3. pc'[t] # "size" => reads'[t] > input[t].blocks
      <4>1. pc' = AfterRead(t)
        BY <2>2 DEF FirstRead, NextRead
      <4>2. pc'[t] # "size" => BytesRead(t, reads[t] + 1) = 0
        BY <4>1 DEF AfterRead
      <4> QED BY <2>1, <3>1, <4>2, EndOfFile
    <3>4. BlocksXored(t)' = Max({0, reads'[t] - 1})
      BY <1>1, <3>3 DEF BlocksXored
    <3>5. reads'[t] - 1 = reads[t] /\ Max({0, reads[t]}) = reads[t]
      BY <2>1, <3>1, MaxOfZero
    <3> QED BY <3>2, <3>4, <3>5
  <2>3. CASE ~ (FirstRead(t) \/ NextRead(t))
    BY <2>3 DEF Thread, ReadFails, WriteFails, ProcessFails, SetSize, Reacquire,
                BlocksXored
  <2> QED BY <2>2, <2>3
<1>6. \A u \in Threads : BlocksXored(u)' = BlocksXored(u)
  BY <1>1, <1>2, <1>5 DEF BlocksXored
<1> QED BY <1>1, <1>4, <1>6, StillPlaced DEF OutputIsSeq
\* XORing brings in the one block that no round has, and the buffer is written
\* as it is then.
LEMMA XorPlaces ==
  ASSUME PlacedInv, NEW t \in Threads, XorAndWait(t) \/ XorAndWrite(t)
  PROVE  BlocksPlaced' /\ OutputIsSeq'
<1> DEFINE b == reads[t]
           new == <<t, b>>
<1>1. /\ input[t].blocks \in Nat /\ b \in 1 .. input[t].blocks
      /\ pc[t] = "lock" /\ Unlocked
      /\ UNCHANGED <<input, reads>>
      /\ chunk' = Xored(t)
  BY InputFilesAssumption, ThreadsAre
  DEF PlacedInv, InOrder, ReadsInOrder, XorAndWait, XorAndWrite, mainVars
<1>2. BlocksXored(t) = b - 1
  BY <1>1, XoredSoFar DEF PlacedInv
<1>3. pc'[t] \in {"waiting", "clear"} /\ \A u \in Threads \ {t} : pc'[u] = pc[u]
  BY DEF PlacedInv, InOrder, ReadsInOrder, XorAndWait, XorAndWrite
<1>4. BlocksXored(t)' = b
  BY <1>1, <1>3 DEF BlocksXored
<1>5. \A u \in Threads \ {t} : BlocksXored(u)' = BlocksXored(u)
  BY <1>1, <1>3 DEF BlocksXored
<1>6. ~ (b <= BlocksXored(t))
  BY <1>1, <1>2
<1>7. new \notin chunk /\ RoundsWith(t, b) = {}
  BY <1>1, <1>6 DEF PlacedInv, BlocksPlaced, Placed
<1>8. chunk' = chunk \cup {new}
  BY <1>1, <1>7 DEF Xored
<1>9. \A u \in Threads : \A k \in 1 .. input[u].blocks :
        <<u, k>> # new => (k <= BlocksXored(u)' <=> k <= BlocksXored(u))
  <2> SUFFICES ASSUME NEW k \in 1 .. input[t].blocks, k # b
               PROVE  k <= b <=> k <= b - 1
    BY <1>2, <1>4, <1>5
  <2> QED BY <1>1
<1>10. CASE XorAndWait(t)
  <2>1. UNCHANGED output /\ Unlocked'
    BY <1>1, <1>3, <1>10 DEF XorAndWait, Unlocked, PlacedInv, InOrder, ReadsInOrder
  <2>2. \A u, k : RoundsWith(u, k)' = RoundsWith(u, k)
    BY <2>1 DEF RoundsWith
  <2>3. ASSUME NEW u \in Threads, NEW k \in 1 .. input[u].blocks
        PROVE  Placed(u, k)'
    <3>1. CASE <<u, k>> = new
      BY <1>1, <1>4, <1>7, <1>8, <2>1, <2>2, <3>1 DEF Placed
    <3>2. CASE <<u, k>> # new
      <4>1. Placed(u, k)
        BY DEF PlacedInv, BlocksPlaced
      <4> QED BY <1>1, <1>8, <1>9, <2>1, <2>2, <3>2, <4>1 DEF Placed
    <3> QED BY <3>1, <3>2
  <2> QED BY <1>1, <2>1, <2>3 DEF BlocksPlaced, OutputIsSeq, PlacedInv
<1>11. CASE XorAndWrite(t)
  <2> DEFINE n == Len(output)
             round == [data |-> chunk', size |-> MaxSize]
  <2>1. PICK R : output \in Seq(R)
    BY DEF PlacedInv, OutputIsSeq
  <2>2. output' = Append(output, round) /\ output \in Seq(R \cup {round})
    BY <1>1, <1>11, <2>1, SeqMonotonic DEF XorAndWrite
  <2>3. OutputIsSeq'
    <3>1. output' \in Seq(R \cup {round})
      BY <2>2
    <3> QED BY <3>1 DEF OutputIsSeq
  <2>4. /\ n \in Nat /\ Len(output') = n + 1
        /\ output'[n + 1] = round
        /\ \A r \in 1 .. n : output'[r] = output[r]
    BY <2>2
  <2>5. round.data = chunk'
    OBVIOUS
  <2>6. \A u, k : RoundsWith(u, k)' =
          IF <<u, k>> \in chunk' THEN RoundsWith(u, k) \cup {n + 1}
                                ELSE RoundsWith(u, k)
    <3> HIDE DEF round, n
    <3> SUFFICES ASSUME NEW u, NEW k, NEW r
                 PROVE  r \in RoundsWith(u, k)' <=>
                          r \in RoundsWith(u, k) \/ (r = n + 1 /\ <<u, k>> \in chunk')
      OBVIOUS
    <3>1. r \in 1 .. n + 1 <=> r \in 1 .. n \/ r = n + 1
      BY <2>4
    <3>2. n + 1 \notin 1 .. n
      BY <2>4
    <3> QED BY <2>4, <2>5, <3>1, <3>2 DEF RoundsWith, n
  <2>7. ~ Unlocked'
    BY <1>1, <1>11 DEF XorAndWrite, Unlocked, PlacedInv, InOrder, ReadsInOrder
  <2> HIDE DEF n, round
  <2>8. ASSUME NEW u \in Threads, NEW k \in 1 .. input[u].blocks
        PROVE  Placed(u, k)'
    <3>1. CASE <<u, k>> = new
      <4>1. u = t /\ k = b
        BY <3>1
      <4>2. RoundsWith(u, k)' = {n + 1}
        BY <1>7, <1>8, <2>6, <4>1
      <4>3. k <= BlocksXored(u)'
        BY <1>1, <1>4, <4>1
      <4> QED BY <2>7, <4>2, <4>3 DEF Placed
    <3>2. CASE <<u, k>> # new
      <4>1. Placed(u, k)
        BY DEF PlacedInv, BlocksPlaced
      <4>2. k <= BlocksXored(u)' <=> k <= BlocksXored(u)
        BY <1>9, <3>2
      <4>3. <<u, k>> \in chunk' <=> <<u, k>> \in chunk
        BY <1>8, <3>2
      <4>4. CASE <<u, k>> \in chunk
        <5>1. k <= BlocksXored(u) /\ RoundsWith(u, k) = {}
          BY <1>1, <4>1, <4>4 DEF Placed
        <5>2. RoundsWith(u, k)' = {n + 1}
          BY <2>6, <4>3, <4>4, <5>1
        <5> QED BY <2>7, <4>2, <5>1, <5>2 DEF Placed
      <4>5. CASE <<u, k>> \notin chunk
        <5>1. RoundsWith(u, k)' = RoundsWith(u, k)
          BY <2>6, <4>3, <4>5
        <5> QED BY <2>7, <4>1, <4>2, <4>3, <4>5, <5>1 DEF Placed
      <4> QED BY <4>4, <4>5
    <3> QED BY <3>1, <3>2
  <2> QED BY <1>1, <2>3, <2>8 DEF BlocksPlaced
<1> QED BY <1>10, <1>11

\* The buffer that is cleared has been written.
LEMMA ClearPlaces ==
  ASSUME PlacedInv, NEW t \in Threads, Clear(t)
  PROVE  BlocksPlaced' /\ OutputIsSeq'
<1>1. ~ Unlocked /\ chunk' = {} /\ UNCHANGED <<input, reads, output>>
  BY DEF Clear, Unlocked, BufferCleared, mainVars
<1>2. \A u \in Threads : BlocksXored(u)' = BlocksXored(u)
  BY <1>1 DEF PlacedInv, InOrder, ReadsInOrder, Clear, Woken, BlocksXored
<1>3. \A u, k : RoundsWith(u, k)' = RoundsWith(u, k)
  BY <1>1 DEF RoundsWith
<1>4. \A u \in Threads : \A k \in 1 .. input[u].blocks : Placed(u, k)'
  BY <1>1, <1>2, <1>3 DEF PlacedInv, BlocksPlaced, Placed
<1> QED BY <1>1, <1>4 DEF BlocksPlaced, PlacedInv, OutputIsSeq

\* Every step leaves each block in its one round.
LEMMA PlacedInvNext ==
  ASSUME PlacedInv, [Next]_vars
  PROVE  PlacedInv'
<1>1. CASE Main
  BY <1>1, MainKeeps
<1>2. ASSUME NEW t \in Threads, Thread(t) PROVE PlacedInv'
  <2>1. InOrder'
    BY <1>2, ThreadInOrder DEF PlacedInv
  <2>2. BlocksPlaced' /\ OutputIsSeq'
    BY <1>2, XorPlaces, ClearPlaces, QuietThread
  <2> QED BY <2>1, <2>2 DEF PlacedInv
<1>3. CASE UNCHANGED vars
  <2>1. Unlocked' = Unlocked /\ \A t \in Threads : BlocksXored(t)' = BlocksXored(t)
    BY <1>3 DEF vars, mainVars, roundVars, Unlocked, BlocksXored
  <2>2. BlocksPlaced'
    BY <1>3, <2>1, StillPlaced DEF PlacedInv, vars, mainVars, roundVars
  <2> QED BY <1>3, <2>2
          DEF PlacedInv, InOrder, ReadsInOrder, OutputIsSeq, vars, mainVars, roundVars
<1> QED BY <1>1, <1>2, <1>3 DEF Next

\* In hw4Guy.c too every block that was XORed is in exactly one round, for every
\* number of files, whatever fails and in whatever order the threads come to
\* the mutex.
THEOREM BlocksConserved == Spec => []EachBlockOnce
<1>1. PlacedInv => EachBlockOnce
  <2> SUFFICES ASSUME PlacedInv, NEW t \in Threads, NEW k \in 1 .. input[t].blocks
               PROVE  IF k <= BlocksXored(t)
                      THEN Cardinality(RoundsWith(t, k)) =
                             IF <<t, k>> \in chunk /\ Unlocked THEN 0 ELSE 1
                      ELSE <<t, k>> \notin chunk /\ RoundsWith(t, k) = {}
    BY DEF EachBlockOnce, RoundsWith
  <2>1. Placed(t, k)
    BY DEF PlacedInv, BlocksPlaced
  <2> QED BY <2>1, FS_EmptySet, FS_Singleton DEF Placed
<1> QED BY <1>1, PlacedInvInit, PlacedInvNext, PTL DEF Spec

-----------------------------------------------------------------------------
(* Types, main and the mutex.                                              *)

\* Reads have at most a chunk, and what is left of a size that was cleared in
\* part is not more than the size.
LEMMA BytesReadBounds ==
  ASSUME input \in Inputs, NEW t \in Threads, NEW k \in Nat
  PROVE  BytesRead(t, k) \in 0 .. ChunkSize
<1>1. BlockSize(input, t, k) \in 1 .. ChunkSize
  BY BlockSizeBounds
<1> QED BY <1>1, ChunkSizeAssumption DEF BytesRead

LEMMA ClearedBounds ==
  ASSUME allSizes \in [Threads -> 0 .. ChunkSize]
  PROVE  SizesCleared \in [Threads -> 0 .. ChunkSize]
<1> SUFFICES ASSUME NEW t \in Threads
             PROVE  allSizes[t] - (allSizes[t] % Values(BytesCleared(t))) \in 0 .. ChunkSize
  BY DEF SizesCleared
<1>1. BytesCleared(t) \in {0, 1, 2, 3, 4}
  BY ThreadsAre DEF BytesCleared
<1>2. Values(BytesCleared(t)) \in Nat \ {0}
  <2> DEFINE b == Byte
  <2>1. b \in Nat /\ b >= 1 /\ b * b \in Nat \ {0}
    BY ByteAssumption
  <2>2. b * b * b \in Nat \ {0}
    BY <2>1
  <2>3. b * b * b * b \in Nat \ {0}
    BY <2>2, <2>1
  <2> HIDE DEF b
  <2>4. \A n \in {0, 1, 2, 3, 4} :
          <<1, b, b * b, b * b * b, b * b * b * b>>[n + 1] \in Nat \ {0}
    BY <2>1, <2>2, <2>3
  <2> QED BY <1>1, <2>4 DEF Values, b
<1> DEFINE x == allSizes[t]
           p == Values(BytesCleared(t))
<1>3. x \in 0 .. ChunkSize /\ ChunkSize \in Nat /\ p \in Nat \ {0}
  BY <1>2, ChunkSizeAssumption
<1> HIDE DEF x, p
<1>4. x - (x % p) \in 0 .. ChunkSize
  BY <1>3, SMT
<1> QED BY <1>4 DEF x, p

\* maxSize returns the largest size.
LEMMA MaxSizeIs ==
  ASSUME allSizes \in [Threads -> 0 .. ChunkSize]
  PROVE  /\ MaxSize \in 0 .. ChunkSize
         /\ \A t \in Threads : allSizes[t] <= MaxSize
<1> DEFINE S == {allSizes[t] : t \in Threads}
           R == {ChunkSize - a : a \in S}
<1>1. ChunkSize \in Nat /\ S \subseteq 0 .. ChunkSize
  BY ChunkSizeAssumption
<1>2. 1 \in Threads
  BY ThreadsAre
<1>3. S # {} /\ R # {} /\ R \subseteq Nat
  BY <1>1, <1>2
<1>4. PICK m \in R : \A k \in R : m <= k
  BY <1>3, Least
<1>5. PICK a \in S : m = ChunkSize - a
  OBVIOUS
<1> HIDE DEF S
<1>6. \A y \in S : a >= y
  <2> SUFFICES ASSUME NEW y \in S PROVE a >= y
    OBVIOUS
  <2>1. m <= ChunkSize - y /\ y \in Int /\ a \in Int
    BY <1>1, <1>4
  <2> QED BY <1>1, <1>5, <2>1
<1>7. Max(S) \in S /\ \A y \in S : Max(S) >= y
  BY <1>6 DEF Max
<1>8. MaxSize = Max(S) /\ \A t \in Threads : allSizes[t] \in S
  BY DEF MaxSize, S
<1> QED BY <1>1, <1>7, <1>8

\* The invariant of the places' proofs is part of this one.
LEMMA IsInOrder == IInv => InOrder
  BY DEF IInv, TypeOK, InOrder

LEMMA TypesNext ==
  ASSUME TypeOK, InOrder, [Next]_vars
  PROVE  TypeOK'
<1> USE DEF TypeOK, mainVars, roundVars
<1>0. /\ input \in Inputs /\ N \in Nat /\ Threads = 1 .. N
      /\ \A t \in Threads : input[t].blocks \in Nat
  BY InputFilesAssumption, ThreadsAre
<1>1. CASE Main
  <2>1. CASE CreateThread
    <3>1. mainI + 1 \in Threads /\ mainI < N
      BY <1>0, <1>1, <2>1 DEF CreateThread, InOrder, ReadsInOrder
    <3> QED BY <1>0, <2>1, <3>1 DEF CreateThread
  <2>2. CASE StartFails
    BY <2>2 DEF StartFails, ProcessFails
  <2>3. CASE JoinThread
    BY <1>0, <2>3 DEF JoinThread, Joins
  <2> QED BY <1>1, <2>1, <2>2, <2>3 DEF Main
<1>2. ASSUME NEW t \in Threads, Thread(t) PROVE TypeOK'
  <2>1. /\ reads[t] \in Nat /\ reads[t] + 1 \in Nat
        /\ BytesRead(t, reads[t]) \in 0 .. ChunkSize
        /\ BytesRead(t, reads[t] + 1) \in 0 .. ChunkSize
    <3>1. reads[t] \in Nat /\ reads[t] + 1 \in Nat
      OBVIOUS
    <3> HIDE DEF TypeOK
    <3> QED BY <1>0, <3>1, BytesReadBounds
  <2>2. CASE FirstRead(t) \/ NextRead(t)
    <3>1. reads[t] <= input[t].blocks
      BY <1>0, <2>2 DEF FirstRead, NextRead, InOrder, ReadsInOrder
    <3>2. /\ pc' = AfterRead(t) /\ reads' = [reads EXCEPT ![t] = reads[t] + 1]
          /\ UNCHANGED <<mainVars, allSizes, hasXored, chunk, output>>
      <4>1. pc[t] = "first" => reads[t] = 0
        BY DEF InOrder, ReadsInOrder
      <4> QED BY <2>2, <4>1 DEF FirstRead, NextRead
    <3>3. hasFinished' \in [Threads -> BOOLEAN]
      BY <2>2 DEF FirstRead, NextRead
    <3>4. \A u \in Threads : reads'[u] <= input[u].blocks + 1
      BY <1>0, <2>1, <3>1, <3>2
    <3>5. /\ pc' \in [Threads -> {"unborn", "first", "size", "lock", "clear", "waiting",
                                 "woken", "read", "exited"}]
          /\ reads' \in [Threads -> Nat]
      BY <2>1, <3>2 DEF AfterRead
    <3> QED BY <3>2, <3>3, <3>4, <3>5
  <2>3. CASE ReadFails(t) \/ WriteFails(t)
    BY <2>3 DEF ReadFails, WriteFails, ProcessFails
  <2>4. CASE SetSize(t)
    BY <2>1, <2>4 DEF SetSize, SizeSet
  <2>5. CASE XorAndWait(t) \/ XorAndWrite(t)
    <3>1. reads[t] \in Nat \ {0}
      BY <1>0, <2>5 DEF XorAndWait, XorAndWrite, InOrder, ReadsInOrder
    <3>2. Xored(t) \in SUBSET (Threads \X (Nat \ {0}))
      BY <3>1 DEF Xored
    <3> DEFINE round == [data |-> Xored(t), size |-> MaxSize]
               R == [data : SUBSET (Threads \X (Nat \ {0})), size : 0 .. ChunkSize]
    <3>3. round \in R /\ output \in Seq(R)
      BY <3>2, MaxSizeIs
    <3>4. output' \in Seq(R)
      <4>1. output' = output \/ output' = Append(output, round)
        BY <2>5 DEF XorAndWait, XorAndWrite
      <4>2. ASSUME NEW S, NEW s \in Seq(S), NEW x \in S PROVE Append(s, x) \in Seq(S)
        OBVIOUS
      <4> HIDE DEF round, R
      <4>3. Append(output, round) \in Seq(R)
        BY <3>3, <4>2
      <4> QED BY <3>3, <4>1, <4>3
    <3> QED BY <2>5, <3>2, <3>4 DEF XorAndWait, XorAndWrite
  <2>6. CASE Clear(t)
    <3>1. allSizes' \in [Threads -> 0 .. ChunkSize]
      BY <2>6, ClearedBounds DEF Clear
    <3> QED BY <2>6, <3>1 DEF Clear, BufferCleared, HandelXorArr, Woken
  <2>7. CASE Reacquire(t)
    BY <2>7 DEF Reacquire
  <2> QED BY <1>2, <2>2, <2>3, <2>4, <2>5, <2>6, <2>7 DEF Thread
<1>3. CASE UNCHANGED vars
  BY <1>3 DEF vars
<1> QED BY <1>1, <1>2, <1>3 DEF Next

\* A thread's step leaves main where it is, or ends the process, and moves
\* another thread only from its wait.
LEMMA ThreadMoves ==
  ASSUME TypeOK, NEW t \in Threads, Thread(t)
  PROVE  /\ UNCHANGED <<input, mainI>> /\ mainPc' \in {mainPc, "failed"}
         /\ pc[t] \notin {"unborn", "waiting", "exited"}
                \/ UNCHANGED <<pc, reads, roundVars>>
         /\ Clear(t) \/ \A u \in Threads \ {t} : pc'[u] = pc[u]
         /\ \A u \in Threads \ {t} :
              /\ reads'[u] = reads[u]
              /\ pc'[u] = pc[u] \/ (pc[u] = "waiting" /\ pc'[u] = "woken")
<1> USE DEF TypeOK, mainVars, roundVars
<1>1. CASE FirstRead(t) \/ NextRead(t)
  BY <1>1 DEF FirstRead, NextRead, AfterRead
<1>2. CASE ReadFails(t) \/ WriteFails(t)
  BY <1>2 DEF ReadFails, WriteFails, ProcessFails
<1>3. CASE SetSize(t) \/ Reacquire(t) \/ XorAndWait(t) \/ XorAndWrite(t)
  BY <1>3 DEF SetSize, Reacquire, XorAndWait, XorAndWrite
<1>4. CASE Clear(t)
  BY <1>4 DEF Clear, Woken
<1> QED BY <1>1, <1>2, <1>3, <1>4 DEF Thread

LEMMA JoinedNext ==
  ASSUME TypeOK, ReadsInOrder, JoinedExited, [Next]_vars
  PROVE  JoinedExited'
<1>0. Threads = 1 .. N /\ N \in Nat /\ mainI \in 0 .. N
  BY ThreadsAre DEF TypeOK
<1> USE DEF JoinedExited
<1>1. CASE Main
  <2>1. CASE CreateThread
    BY <1>0, <2>1 DEF CreateThread
  <2>2. CASE StartFails
    BY <2>2 DEF StartFails, ProcessFails
  <2>3. CASE JoinThread
    BY <1>0, <2>3 DEF JoinThread, Joins
  <2> QED BY <1>1, <2>1, <2>2, <2>3 DEF Main
<1>2. ASSUME NEW t \in Threads, Thread(t) PROVE JoinedExited'
  <2>1. /\ mainI' = mainI /\ mainPc' \in {mainPc, "failed"}
        /\ \A u \in Threads : pc[u] = "exited" => pc'[u] = "exited"
    BY <1>2, ThreadMoves
  <2> QED BY <1>0, <2>1
<1>3. CASE UNCHANGED vars
  BY <1>3 DEF vars, mainVars
<1> QED BY <1>1, <1>2, <1>3 DEF Next

\* Whoever writes has found the mutex free.
LEMMA OneWriterNext ==
  ASSUME TypeOK, OneWriter, [Next]_vars
  PROVE  OneWriter'
<1> USE DEF OneWriter, TypeOK
<1>1. CASE Main
  BY <1>1, ThreadsAre DEF Main, CreateThread, StartFails, ProcessFails, JoinThread
<1>2. ASSUME NEW t \in Threads, Thread(t) PROVE OneWriter'
  <2>1. \A u \in Threads \ {t} : pc'[u] = "clear" => pc[u] = "clear"
    BY <1>2, ThreadMoves
  <2>2. pc'[t] = "clear" => pc[t] = "clear" \/ Unlocked
    BY <1>2 DEF Thread, FirstRead, NextRead, ReadFails, WriteFails, ProcessFails, SetSize,
       XorAndWait, XorAndWrite, Clear, Reacquire, AfterRead, Woken
  <2> QED BY <2>1, <2>2 DEF Unlocked
<1>3. CASE UNCHANGED vars
  BY <1>3 DEF vars
<1> QED BY <1>1, <1>2, <1>3 DEF Next

-----------------------------------------------------------------------------
(* Whole files.                                                            *)

\* What a step of thread t finds.
WholeState == TypeOK /\ InOrder /\ OneWriter /\ WholeInOrder /\ Whole

LEMMA WholeFacts ==
  ASSUME WholeState, NEW t \in Threads
  PROVE  /\ InItsRound(t) /\ Len(output) \in Nat
         /\ input[t].blocks \in Nat /\ reads[t] \in Nat
         /\ pc[t] \in {"size", "lock", "clear", "waiting", "woken", "read"} =>
              reads[t] \in 1 .. input[t].blocks
         /\ reads[t] \in 1 .. input[t].blocks => BytesRead(t, reads[t]) = ChunkSize
         /\ BytesRead(t, reads[t] + 1) = IF reads[t] + 1 <= input[t].blocks THEN ChunkSize ELSE 0
<1>1. InItsRound(t) /\ Len(output) \in Nat
  <2>1. InItsRound(t)
    BY DEF WholeState, WholeInOrder
  <2>2. \E R : output \in Seq(R)
    BY DEF WholeState, TypeOK
  <2> QED BY <2>1, <2>2
<1>2. input[t].blocks \in Nat /\ reads[t] \in Nat
  BY InputFilesAssumption, ThreadsAre DEF WholeState, TypeOK
<1>3. pc[t] \in {"size", "lock", "clear", "waiting", "woken", "read"} =>
        reads[t] \in 1 .. input[t].blocks
  BY DEF WholeState, InOrder, ReadsInOrder
<1>4. input[t].blocks > 0 => input[t].last = ChunkSize
  BY DEF WholeState, Whole
<1>5. reads[t] \in 1 .. input[t].blocks => BytesRead(t, reads[t]) = ChunkSize
  BY <1>2, <1>4 DEF BytesRead, BlockSize
<1>6. BytesRead(t, reads[t] + 1) = IF reads[t] + 1 <= input[t].blocks THEN ChunkSize ELSE 0
  BY <1>2, <1>4 DEF BytesRead, BlockSize
<1> QED BY <1>1, <1>2, <1>3, <1>5, <1>6

\* What the steps of one thread that neither XOR nor clear leave as it is.
LEMMA OthersInRound ==
  ASSUME WholeState, NEW t \in Threads,
         UNCHANGED <<input, chunk, output>>, Unlocked' <=> Unlocked,
         (pc'[t] = "waiting") <=> (pc[t] = "waiting"),
         \A u \in Threads \ {t} :
           /\ pc'[u] = pc[u] /\ reads'[u] = reads[u] /\ allSizes'[u] = allSizes[u]
           /\ hasXored'[u] = hasXored[u] /\ hasFinished'[u] = hasFinished[u],
         InItsRound(t)'
  PROVE  WholeInOrder'
<1>1. \A u \in Threads : InItsRound(u)'
  <2> SUFFICES ASSUME NEW u \in Threads, u # t PROVE InItsRound(u)'
    OBVIOUS
  <2>1. InItsRound(u)
    BY DEF WholeState, WholeInOrder
  <2> QED BY <2>1 DEF InItsRound
<1>2. Waiting' = Waiting
  BY DEF Waiting
<1>3. Unlocked' => chunk' = {<<u, Len(output') + 1>> : u \in Waiting'}
  BY <1>2 DEF WholeState, WholeInOrder
<1> QED BY <1>1, <1>3 DEF WholeInOrder

\* main starts threads before the first round.
LEMMA WholeMain ==
  ASSUME WholeState, Main
  PROVE  WholeInOrder'
<1>1. UNCHANGED <<input, reads, roundVars>>
  BY DEF Main, CreateThread, StartFails, ProcessFails, JoinThread
<1>2. \A u \in Threads : pc'[u] = pc[u] \/ (pc[u] = "unborn" /\ pc'[u] = "first")
  BY ThreadsAre DEF WholeState, InOrder, ReadsInOrder, Main, CreateThread, StartFails,
     ProcessFails, JoinThread
<1>3. Unlocked' <=> Unlocked
  BY <1>2 DEF Unlocked
<1>4. Waiting' = Waiting
  BY <1>2 DEF Waiting
<1>5. \A u \in Threads : InItsRound(u)'
  <2> SUFFICES ASSUME NEW u \in Threads PROVE InItsRound(u)'
    OBVIOUS
  <2>1. InItsRound(u)
    BY DEF WholeState, WholeInOrder
  <2> QED BY <1>1, <1>2, <1>3, <2>1 DEF InItsRound, roundVars
<1>6. Unlocked' => chunk' = {<<u, Len(output') + 1>> : u \in Waiting'}
  BY <1>1, <1>3, <1>4 DEF WholeState, WholeInOrder, roundVars
<1> QED BY <1>5, <1>6 DEF WholeInOrder

\* A thread reads its block of the round, sets its size and comes back from its
\* wait.
LEMMA WholeQuiet ==
  ASSUME WholeState, NEW t \in Threads, Thread(t),
         ~ XorAndWait(t), ~ XorAndWrite(t), ~ Clear(t)
  PROVE  WholeInOrder'
<1>1. /\ InItsRound(t) /\ Len(output) \in Nat
      /\ input[t].blocks \in Nat /\ reads[t] \in Nat
      /\ pc[t] \in {"size", "lock", "clear", "waiting", "woken", "read"} =>
           reads[t] \in 1 .. input[t].blocks
      /\ reads[t] \in 1 .. input[t].blocks => BytesRead(t, reads[t]) = ChunkSize
      /\ BytesRead(t, reads[t] + 1) = IF reads[t] + 1 <= input[t].blocks THEN ChunkSize ELSE 0
      /\ ChunkSize \in Nat \ {0}
  BY WholeFacts, ChunkSizeAssumption
<1>2. /\ pc \in [Threads -> {"unborn", "first", "size", "lock", "clear", "waiting",
                            "woken", "read", "exited"}]
      /\ reads \in [Threads -> Nat]
      /\ allSizes \in [Threads -> 0 .. ChunkSize]
      /\ hasFinished \in [Threads -> BOOLEAN]
      /\ hasXored \in [Threads -> BOOLEAN]
  BY DEF WholeState, TypeOK
<1>3. /\ UNCHANGED <<input, chunk, output, hasXored>>
      /\ \A u \in Threads \ {t} :
           /\ pc'[u] = pc[u] /\ reads'[u] = reads[u] /\ allSizes'[u] = allSizes[u]
           /\ hasFinished'[u] = hasFinished[u]
  BY <1>2 DEF Thread, FirstRead, NextRead, ReadFails, WriteFails, ProcessFails, SetSize,
     Reacquire, AfterRead, mainVars, roundVars
<1>4. CASE FirstRead(t)
  <2>1. /\ pc[t] = "first" /\ reads[t] = 0 /\ reads'[t] = 1
        /\ pc'[t] = IF input[t].blocks = 0 THEN "exited" ELSE "size"
        /\ UNCHANGED <<hasFinished, allSizes>>
    <3>1. pc[t] = "first" /\ reads[t] = 0
      BY <1>4 DEF FirstRead, WholeState, InOrder, ReadsInOrder
    <3>2. (BytesRead(t, reads[t] + 1) = 0) <=> (input[t].blocks = 0)
      BY <1>1, <3>1
    <3> QED BY <1>2, <1>4, <3>1, <3>2 DEF FirstRead, AfterRead, roundVars
  <2>2. Unlocked' <=> Unlocked
    BY <1>3, <2>1 DEF Unlocked
  <2>3. InItsRound(t)'
    BY <1>1, <1>3, <2>1, <2>2 DEF InItsRound
  <2> QED BY <1>3, <2>1, <2>2, <2>3, OthersInRound
<1>5. CASE NextRead(t)
  <2>1. /\ pc[t] = "read" /\ reads'[t] = reads[t] + 1
        /\ pc'[t] = IF reads[t] + 1 <= input[t].blocks THEN "size" ELSE "exited"
        /\ allSizes' = allSizes
    BY <1>1, <1>2, <1>5 DEF NextRead, AfterRead
  <2>2. ~ hasFinished[t] /\ reads[t] = Len(output)
    BY <1>1, <2>1 DEF InItsRound
  <2>3. hasFinished'[t] <=> ~ (reads[t] + 1 <= input[t].blocks)
    <3> DEFINE n == BytesRead(t, reads[t] + 1)
    <3>1. hasFinished' = [hasFinished EXCEPT ![t] = @ \/ n < ChunkSize]
      BY <1>5 DEF NextRead
    <3>2. n < ChunkSize <=> ~ (reads[t] + 1 <= input[t].blocks)
      BY <1>1
    <3> HIDE DEF n
    <3>3. hasFinished'[t] = (hasFinished[t] \/ n < ChunkSize)
      BY <1>2, <3>1, Zenon
    <3> QED BY <2>2, <3>2, <3>3
  <2>4. Unlocked' <=> Unlocked
    BY <1>3, <2>1 DEF Unlocked
  <2>5. InItsRound(t)'
    BY <1>1, <1>3, <2>1, <2>2, <2>3, <2>4 DEF InItsRound
  <2> QED BY <1>3, <2>1, <2>4, <2>5, OthersInRound
<1>6. CASE ReadFails(t) \/ WriteFails(t)
  <2>1. UNCHANGED <<pc, reads, allSizes, hasFinished>>
    BY <1>6 DEF ReadFails, WriteFails, ProcessFails, roundVars
  <2>2. Unlocked' <=> Unlocked
    BY <2>1 DEF Unlocked
  <2>3. InItsRound(t)'
    BY <1>1, <1>3, <2>1, <2>2 DEF InItsRound
  <2> QED BY <1>3, <2>1, <2>2, <2>3, OthersInRound
<1>7. CASE SetSize(t)
  <2>1. /\ pc[t] = "size" /\ pc'[t] = "lock"
        /\ allSizes'[t] = ChunkSize
        /\ UNCHANGED <<reads, hasFinished>>
    BY <1>1, <1>2, <1>7 DEF SetSize, SizeSet
  <2>2. Unlocked' <=> Unlocked
    BY <1>3, <2>1 DEF Unlocked
  <2>3. InItsRound(t)'
    BY <1>1, <1>3, <2>1, <2>2 DEF InItsRound
  <2> QED BY <1>3, <2>1, <2>2, <2>3, OthersInRound
<1>8. CASE Reacquire(t)
  <2>1. /\ pc[t] = "woken" /\ pc'[t] = "read" /\ Unlocked
        /\ UNCHANGED <<reads, allSizes, hasFinished>>
    BY <1>2, <1>8 DEF Reacquire, roundVars
  <2>2. Unlocked' <=> Unlocked
    BY <1>3, <2>1 DEF Unlocked
  <2>3. InItsRound(t)'
    BY <1>1, <1>3, <2>1, <2>2 DEF InItsRound
  <2> QED BY <1>3, <2>1, <2>2, <2>3, OthersInRound
<1> QED BY <1>4, <1>5, <1>6, <1>7, <1>8 DEF Thread

\* A thread that is not the last one waits with its block in the buffer.
LEMMA WholeXorAndWait ==
  ASSUME WholeState, NEW t \in Threads, XorAndWait(t)
  PROVE  WholeInOrder'
<1> DEFINE r == Len(output)
<1>1. /\ pc[t] = "lock" /\ Unlocked /\ chunk' = Xored(t)
      /\ UNCHANGED <<input, reads, allSizes, hasFinished, output>>
      /\ pc'[t] = "waiting" /\ hasXored'[t]
      /\ \A u \in Threads \ {t} : pc'[u] = pc[u] /\ hasXored'[u] = hasXored[u]
  BY DEF XorAndWait, mainVars, WholeState, TypeOK
<1>2. /\ \A u \in Threads : InItsRound(u)
      /\ chunk = {<<u, r + 1>> : u \in Waiting}
  BY <1>1 DEF WholeState, WholeInOrder
<1>3. reads[t] = r + 1 /\ ~ hasFinished[t]
  BY <1>1, <1>2 DEF InItsRound
<1>4. Waiting' = Waiting \cup {t} /\ t \notin Waiting
  BY <1>1 DEF Waiting
<1>5. chunk' = {<<u, Len(output') + 1>> : u \in Waiting'}
  BY <1>1, <1>2, <1>3, <1>4 DEF Xored
<1>6. Unlocked'
  BY <1>1 DEF Unlocked
<1>7. \A u \in Threads : InItsRound(u)'
  <2> SUFFICES ASSUME NEW u \in Threads PROVE InItsRound(u)'
    OBVIOUS
  <2>1. CASE u = t
    BY <1>1, <1>3, <1>6, <2>1 DEF InItsRound
  <2>2. CASE u # t
    BY <1>1, <1>2, <1>6, <2>2 DEF InItsRound
  <2> QED BY <2>1, <2>2
<1> QED BY <1>5, <1>7 DEF WholeInOrder

\* The last one finds the buffer with all blocks of the round but its own, and
\* everybody else waiting or finished.
LEMMA WholeXorAndWrite ==
  ASSUME WholeState, NEW t \in Threads, XorAndWrite(t)
  PROVE  /\ WholeInOrder'
         /\ ExactRound(input, Len(output) + 1, [data |-> Xored(t), size |-> MaxSize])
<1> DEFINE r == Len(output)
           round == [data |-> Xored(t), size |-> MaxSize]
<1>1. /\ pc[t] = "lock" /\ Unlocked /\ AllDone(t)
      /\ UNCHANGED <<input, reads, allSizes, hasFinished>>
      /\ output' = Append(output, round)
      /\ pc'[t] = "clear" /\ hasXored'[t]
      /\ \A u \in Threads \ {t} : pc'[u] = pc[u] /\ hasXored'[u] = hasXored[u]
  BY DEF XorAndWrite, mainVars, WholeState, TypeOK
<1>2. /\ \A u \in Threads : InItsRound(u)
      /\ chunk = {<<u, r + 1>> : u \in Waiting}
  BY <1>1 DEF WholeState, WholeInOrder
<1>3. /\ \A u \in Threads : input[u].blocks \in Nat /\ reads[u] \in Nat
      /\ r \in Nat /\ reads[t] \in 1 .. input[t].blocks
  BY <1>1, WholeFacts
<1>4. reads[t] = r + 1 /\ ~ hasFinished[t] /\ allSizes[t] = ChunkSize
  BY <1>1, <1>2 DEF InItsRound
<1>5. \A u \in Threads \ {t} :
        \/ pc[u] = "waiting" /\ reads[u] = r + 1 /\ r + 1 <= input[u].blocks /\ ~ hasFinished[u]
        \/ pc[u] = "exited" /\ hasFinished[u] /\ input[u].blocks <= r
  <2> SUFFICES ASSUME NEW u \in Threads \ {t}
               PROVE  \/ /\ pc[u] = "waiting" /\ reads[u] = r + 1
                         /\ r + 1 <= input[u].blocks /\ ~ hasFinished[u]
                      \/ pc[u] = "exited" /\ hasFinished[u] /\ input[u].blocks <= r
    OBVIOUS
  <2>1. hasXored[u] \/ hasFinished[u]
    BY <1>1 DEF AllDone
  <2>2. InItsRound(u) /\ pc[u] # "clear"
    BY <1>1, <1>2 DEF Unlocked
  <2>3. pc[u] = "waiting" => reads[u] \in 1 .. input[u].blocks
    BY WholeFacts
  <2> QED BY <1>1, <1>3, <2>1, <2>2, <2>3 DEF InItsRound
<1>6. Len(output') = r + 1
  <2>1. \E R : output \in Seq(R)
    BY DEF WholeState, TypeOK
  <2> HIDE DEF round
  <2> QED BY <1>1, <2>1
<1>7. ~ Unlocked'
  BY <1>1 DEF Unlocked
<1>8. \A u \in Threads : InItsRound(u)'
  <2> SUFFICES ASSUME NEW u \in Threads PROVE InItsRound(u)'
    OBVIOUS
  <2> HIDE DEF round
  <2>1. CASE u = t
    BY <1>1, <1>3, <1>4, <1>6, <1>7, <2>1 DEF InItsRound
  <2>2. CASE u # t
    BY <1>1, <1>2, <1>3, <1>5, <1>6, <1>7, <2>2 DEF InItsRound
  <2> QED BY <2>1, <2>2
<1>9. Xored(t) = RoundData(input, r + 1)
  <2>1. Waiting \cup {t} = Holders(input, r + 1) /\ t \notin Waiting
    BY <1>1, <1>3, <1>4, <1>5 DEF Waiting, Holders
  <2>2. <<t, r + 1>> \notin chunk
    BY <1>2, <2>1
  <2>3. Xored(t) = chunk \cup {<<t, r + 1>>}
    BY <1>4, <2>2 DEF Xored
  <2>4. RoundData(input, r + 1) = {<<u, r + 1>> : u \in Waiting \cup {t}}
    BY <2>1 DEF RoundData
  <2> QED BY <1>2, <2>3, <2>4
<1>10. MaxSize = ChunkSize
  BY <1>4, MaxSizeIs, ChunkSizeAssumption DEF WholeState, TypeOK
<1>11. IsRoundSize(input, r + 1, ChunkSize)
  <2>1. \A u \in Holders(input, r + 1) : BlockSize(input, u, r + 1) = ChunkSize
    BY <1>3 DEF Holders, BlockSize, WholeState, Whole
  <2>2. t \in Holders(input, r + 1)
    BY <1>3, <1>4 DEF Holders
  <2> QED BY <2>1, <2>2, ChunkSizeAssumption DEF IsRoundSize
<1>12. ExactRound(input, r + 1, round)
  BY <1>9, <1>10, <1>11 DEF ExactRound
<1> QED BY <1>7, <1>8, <1>12 DEF WholeInOrder

\* The next round starts with an empty buffer and nobody waiting.
LEMMA WholeClear ==
  ASSUME WholeState, NEW t \in Threads, Clear(t)
  PROVE  WholeInOrder'
<1>1. /\ pc[t] = "clear" /\ chunk' = {} /\ hasXored' = hasFinished
      /\ UNCHANGED <<input, reads, hasFinished, output>>
      /\ pc'[t] = "read"
      /\ \A u \in Threads \ {t} : pc'[u] = IF pc[u] = "waiting" THEN "woken" ELSE pc[u]
  BY DEF Clear, BufferCleared, HandelXorArr, Woken, mainVars, WholeState, TypeOK
<1>2. ~ Unlocked /\ \A u \in Threads \ {t} : pc[u] # "clear"
  BY <1>1 DEF Unlocked, WholeState, OneWriter
<1>3. \A u \in Threads : InItsRound(u)
  BY DEF WholeState, WholeInOrder
<1>4. Unlocked' /\ Waiting' = {}
  BY <1>1, <1>2 DEF Unlocked, Waiting
<1>5. \A u \in Threads : InItsRound(u)'
  <2> SUFFICES ASSUME NEW u \in Threads PROVE InItsRound(u)'
    OBVIOUS
  <2>1. InItsRound(u)
    BY <1>3
  <2>2. CASE u = t
    BY <1>1, <1>4, <2>1, <2>2 DEF InItsRound
  <2>3. CASE u # t
    BY <1>1, <1>2, <1>4, <2>1, <2>3 DEF InItsRound
  <2> QED BY <2>2, <2>3
<1> QED BY <1>1, <1>4, <1>5 DEF WholeInOrder

\* Rounds of whole files stay exact, those written and the one under way.
LEMMA WholeNext ==
  ASSUME TypeOK, InOrder, OneWriter, WholeInOrder, [Next]_vars
  PROVE  WholeInOrder' /\ (WholeExact => WholeExact')
<1> DEFINE R == [data : SUBSET (Threads \X (Nat \ {0})), size : 0 .. ChunkSize]
<1>0. TypeOK'
  BY TypesNext
<1>1. input' = input
  BY DEF Next, Main, CreateThread, StartFails, ProcessFails, JoinThread, Thread, FirstRead,
     NextRead, ReadFails, WriteFails, SetSize, XorAndWait, XorAndWrite, Clear, Reacquire,
     vars, mainVars
<1>2. Whole' <=> Whole
  BY <1>1 DEF Whole
<1>3. ASSUME Whole, NEW t \in Threads, Thread(t)
      PROVE  WholeInOrder' /\ (WholeExact => WholeExact')
  <2>1. WholeState
    BY <1>3 DEF WholeState
  <2>2. CASE XorAndWrite(t)
    <3> DEFINE round == [data |-> Xored(t), size |-> MaxSize]
    <3>1. WholeInOrder' /\ ExactRound(input, Len(output) + 1, round)
      BY <2>1, <2>2, WholeXorAndWrite
    <3>2. output' = Append(output, round)
      BY <2>2 DEF XorAndWrite
    <3>3. output \in Seq(R) /\ round \in R
      <4>1. reads[t] \in Nat \ {0} /\ chunk \in SUBSET (Threads \X (Nat \ {0}))
        BY <2>1, <2>2, WholeFacts DEF XorAndWrite, TypeOK
      <4>2. Xored(t) \in SUBSET (Threads \X (Nat \ {0}))
        BY <4>1 DEF Xored
      <4> QED BY <4>2, MaxSizeIs DEF TypeOK
    <3>4. input \in Inputs
      BY InputFilesAssumption DEF TypeOK
    <3> HIDE DEF round
    <3>5. ExactRounds(input, output) => ExactRounds(input, Append(output, round))
      BY <3>1, <3>3, <3>4, RoundAppended
    <3>6. WholeExact => WholeExact'
      BY <1>1, <1>2, <1>3, <3>2, <3>5 DEF WholeExact, ExactRounds
    <3> QED BY <3>1, <3>6
  <2>3. CASE ~ XorAndWrite(t)
    <3>1. WholeInOrder'
      BY <1>3, <2>1, <2>3, WholeXorAndWait, WholeClear, WholeQuiet
    <3>2. output' = output
      BY <1>3, <2>3 DEF Thread, FirstRead, NextRead, ReadFails, WriteFails, ProcessFails,
         SetSize, XorAndWait, Clear, Reacquire, roundVars
    <3>3. WholeExact => WholeExact'
      BY <1>1, <1>2, <3>2 DEF WholeExact
    <3> QED BY <3>1, <3>3
  <2> QED BY <2>2, <2>3
<1>4. ASSUME Whole, Main PROVE WholeInOrder' /\ (WholeExact => WholeExact')
  <2>1. WholeInOrder'
    BY <1>4, WholeMain DEF WholeState
  <2>2. output' = output
    BY <1>4 DEF Main, CreateThread, StartFails, ProcessFails, JoinThread, roundVars
  <2> QED BY <1>1, <1>2, <2>1, <2>2 DEF WholeExact
<1>5. ASSUME UNCHANGED vars PROVE WholeInOrder' /\ (WholeExact => WholeExact')
  <2> USE <1>5 DEF vars, mainVars, roundVars
  <2>1. Unlocked' <=> Unlocked
    BY DEF Unlocked
  <2>2. Waiting' = Waiting
    BY DEF Waiting
  <2>3. \A u \in Threads : InItsRound(u)' <=> InItsRound(u)
    BY <2>1 DEF InItsRound
  <2> QED BY <1>2, <2>1, <2>2, <2>3 DEF WholeInOrder, WholeExact
<1>6. CASE ~ Whole
  BY <1>2, <1>6 DEF WholeInOrder, WholeExact
<1> QED BY <1>3, <1>4, <1>5, <1>6 DEF Next

LEMMA IInvInit == Init => IInv /\ WholeExact
<1> SUFFICES ASSUME Init PROVE IInv /\ WholeExact
  OBVIOUS
<1>1. TypeOK
  BY InputFilesAssumption, ThreadsAre, ChunkSizeAssumption DEF Init, TypeOK
<1>2. ReadsInOrder /\ JoinedExited /\ OneWriter
  BY ThreadsAre DEF Init, ReadsInOrder, JoinedExited, OneWriter
<1>3. Len(output) = 0 /\ WholeExact
  BY DEF Init, WholeExact
<1>4. Waiting = {} /\ chunk = {}
  BY DEF Init, Waiting
<1>5. \A t \in Threads : InItsRound(t)
  BY <1>3 DEF Init, InItsRound, Unlocked
<1>6. WholeInOrder
  BY <1>4, <1>5 DEF WholeInOrder
<1>7. NotAllWaiting
  BY ThreadsAre DEF Init, NotAllWaiting
<1> QED BY <1>1, <1>2, <1>3, <1>6, <1>7 DEF IInv

\* Who goes to sleep has found another thread that has not XORed; the broadcast
\* wakes everybody.
LEMMA NotAllWaitingNext ==
  TypeOK /\ ReadsInOrder /\ NotAllWaiting /\ [Next]_vars => NotAllWaiting'
<1> SUFFICES ASSUME TypeOK, ReadsInOrder, NotAllWaiting, [Next]_vars
             PROVE  NotAllWaiting'
  OBVIOUS
<1> USE DEF mainVars, roundVars
<1>0. /\ DOMAIN pc = Threads /\ DOMAIN hasXored = Threads
      /\ pc = [t \in Threads |-> pc[t]] /\ hasXored = [t \in Threads |-> hasXored[t]]
  BY DEF TypeOK
<1>1. ASSUME NEW t \in Threads, Thread(t) PROVE NotAllWaiting'
  <2>1. CASE XorAndWait(t)
    <3>1. PICK u \in Threads \ {t} : ~ hasXored[u]
      BY <2>1 DEF XorAndWait, AllDone
    <3>2. pc'[u] = pc[u] /\ pc[u] # "waiting"
      BY <1>0, <2>1, <3>1 DEF XorAndWait, NotAllWaiting
    <3>3. \A v \in Threads : pc'[v] = "waiting" => hasXored'[v]
      BY <1>0, <2>1 DEF XorAndWait, NotAllWaiting
    <3> QED BY <3>2, <3>3 DEF NotAllWaiting
  <2>2. CASE Clear(t)
    <3>1. \A v \in Threads : pc'[v] # "waiting"
      BY <2>2 DEF Clear, Woken
    <3> QED BY <3>1 DEF NotAllWaiting
  <2>3. CASE ReadFails(t) \/ WriteFails(t)
    BY <2>3 DEF ReadFails, WriteFails, ProcessFails, NotAllWaiting
  <2>4. CASE FirstRead(t) \/ NextRead(t) \/ SetSize(t) \/ XorAndWrite(t) \/ Reacquire(t)
    <3>1. /\ pc'[t] # "waiting"
          /\ \A v \in Threads \ {t} : pc'[v] = pc[v] /\ (hasXored[v] => hasXored'[v])
      BY <1>0, <2>4
      DEF FirstRead, NextRead, AfterRead, SetSize, XorAndWrite, Reacquire
    <3> QED BY <3>1 DEF NotAllWaiting
  <2> QED BY <1>1, <2>1, <2>2, <2>3, <2>4 DEF Thread
<1>2. CASE CreateThread
  <2>1. mainI + 1 \in Threads
    BY <1>2, ThreadsAre DEF CreateThread, ReadsInOrder, TypeOK
  <2>2. /\ pc'[mainI + 1] # "waiting" /\ hasXored' = hasXored
        /\ \A v \in Threads \ {mainI + 1} : pc'[v] = pc[v]
    BY <1>0, <1>2, <2>1 DEF CreateThread
  <2> QED BY <2>1, <2>2 DEF NotAllWaiting
<1>3. CASE StartFails \/ JoinThread
  BY <1>3 DEF StartFails, ProcessFails, JoinThread, NotAllWaiting
<1>4. CASE UNCHANGED vars
  BY <1>4 DEF vars, NotAllWaiting
<1> QED BY <1>1, <1>2, <1>3, <1>4 DEF Next, Main

LEMMA IInvNext == IInv /\ WholeExact /\ [Next]_vars => IInv' /\ WholeExact'
<1> SUFFICES ASSUME IInv, WholeExact, [Next]_vars PROVE IInv' /\ WholeExact'
  OBVIOUS
<1>1. /\ TypeOK /\ InOrder /\ ReadsInOrder /\ JoinedExited /\ OneWriter /\ WholeInOrder
  BY IsInOrder DEF IInv
<1>2. TypeOK' /\ JoinedExited' /\ OneWriter' /\ WholeInOrder' /\ WholeExact'
  BY <1>1, TypesNext, JoinedNext, OneWriterNext, WholeNext
<1>3. InOrder'
  BY <1>1, InOrderNext
<1>4. NotAllWaiting'
  BY <1>1, NotAllWaitingNext DEF IInv
<1> QED BY <1>2, <1>3, <1>4 DEF IInv, InOrder

-----------------------------------------------------------------------------
(* Theorems about what hw4Guy.c writes.                                    *)

\* Types, main, the mutex and, for whole files, the rounds stay in order, for
\* every number of files, chunk size, input and fault.
THEOREM Invariance == Spec => []IInv
BY IInvInit, IInvNext, PTL DEF Spec

\* Whole files are XORed round by round, however the threads run: neither the
\* sizes written without the mutex nor those that memset leaves make a round
\* wrong.
THEOREM WholeAlwaysExact == Spec => []WholeExact
BY IInvInit, IInvNext, PTL DEF Spec

LEMMA CompleteAtEnd == IInv => WholeComplete
<1> SUFFICES ASSUME IInv, Whole, mainPc = "done", NEW t \in Threads
             PROVE  input[t].blocks <= Len(output)
  BY DEF WholeComplete, IsLastRound
<1>1. pc[t] = "exited"
  BY DEF IInv, JoinedExited, Threads
<1>2. InItsRound(t)
  BY DEF IInv, WholeInOrder
<1> QED BY <1>1, <1>2 DEF InItsRound

\* What main announces of whole files has every round.
THEOREM WholeAlwaysComplete == Spec => []WholeComplete
BY Invariance, CompleteAtEnd, PTL

\* A sleeper has a block to come that the file of a finished thread does not have.
LEMMA SleepersAreLonger == IInv => LeftBehindByShorter
<1> SUFFICES ASSUME IInv, \A u \in Threads : pc[u] \in {"waiting", "exited"},
                    NEW t \in Threads, pc[t] = "waiting"
             PROVE  \E u \in Threads :
                      pc[u] = "exited" /\ (Whole => input[u].blocks < input[t].blocks)
  BY DEF LeftBehindByShorter, Waiting
<1>1. PICK u \in Threads : pc[u] = "exited"
  BY DEF IInv, NotAllWaiting
<1>2. ASSUME Whole PROVE input[u].blocks < input[t].blocks
  <2>1. InItsRound(t) /\ InItsRound(u)
    BY <1>2 DEF IInv, WholeInOrder
  <2>2. Unlocked
    BY DEF Unlocked
  <2>3. reads[t] = Len(output) + 1 /\ reads[t] \in 1 .. input[t].blocks
    BY <2>1, <2>2 DEF InItsRound, IInv, ReadsInOrder
  <2>4. input[u].blocks <= Len(output) \/ input[u].blocks = 0
    BY <1>1, <2>1 DEF InItsRound
  <2>5. /\ Len(output) \in Nat
        /\ \A v \in Threads : input[v].blocks \in Nat
    BY InputFilesAssumption DEF IInv, TypeOK, Inputs
  <2> QED BY <2>3, <2>4, <2>5
<1> QED BY <1>1, <1>2

\* hw4Guy.c's threads never all wait for each other: who is left waiting waits
\* for a thread that has exited without waking anybody, and if all files are
\* whole that thread's file was the shorter one.
THEOREM NoCircularWait == Spec => []LeftBehindByShorter
BY Invariance, SleepersAreLonger, PTL
===============================================================================
