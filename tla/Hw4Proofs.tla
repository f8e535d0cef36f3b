------------------------------ MODULE Hw4Proofs ------------------------------
(***************************************************************************)
(* Proofs about Hw4, for every number of files, chunk size, set of inputs, *)
(* names and faults, and then about Hw4Drafts: what the earlier versions   *)
(* of hw4.c and the tester's copy have in common.                          *)
(***************************************************************************)
EXTENDS Hw4Drafts, XorRoundsProofs

\* The index that a thread looks up is not behind its own (findMyIndex).
LEMMA IndexNotBehind ==
  ASSUME nameMatches \in Namings, NEW t \in Threads
  PROVE  FindMyIndex(t) \in Threads /\ FindMyIndex(t) <= t
<1> DEFINE S == {i \in Threads : <<i, t>> \in nameMatches}
           First(i) == /\ <<i, t>> \in nameMatches
                       /\ \A j \in 1 .. i - 1 : <<j, t>> \notin nameMatches
<1>0. Threads = 1 .. N /\ N \in Nat
  BY NAssumption DEF Threads
<1>1. t \in S /\ S \subseteq Nat
  BY <1>0, NamingsAssumption
<1>2. PICK m \in S : \A k \in S : m <= k
  BY <1>1, Least
<1>3. m \in Threads /\ First(m)
  BY <1>0, <1>2
<1>4. FindMyIndex(t) \in Threads /\ First(FindMyIndex(t))
  BY <1>3 DEF FindMyIndex
<1>5. ~ (t < FindMyIndex(t))
  BY <1>0, <1>1, <1>4
<1> QED BY <1>0, <1>4, <1>5

\* While no name occurs in an earlier one, it is its own.
LEMMA OwnIndex ==
  ASSUME nameMatches \in Namings, UnambiguousNames, NEW t \in Threads
  PROVE  FindMyIndex(t) = t
<1>1. <<FindMyIndex(t), t>> \in nameMatches
  <2> DEFINE First(i) == /\ <<i, t>> \in nameMatches
                         /\ \A j \in 1 .. i - 1 : <<j, t>> \notin nameMatches
  <2>1. First(t)
    BY NamingsAssumption DEF UnambiguousNames
  <2> QED BY <2>1 DEF FindMyIndex
<1>2. FindMyIndex(t) \in Threads /\ FindMyIndex(t) <= t
  BY IndexNotBehind
<1> QED BY <1>1, <1>2, NAssumption DEF UnambiguousNames, Threads

\* Otherwise some index is nobody's: the last one whose thread looks up another.
LEMMA UnclaimedIndex ==
  ASSUME nameMatches \in Namings, ~ UnambiguousNames
  PROVE  \E i \in Threads : \A t \in Threads : FindMyIndex(t) # i
<1> DEFINE Astray == {t \in Threads : FindMyIndex(t) # t}
           S == {N - t : t \in Astray}
<1>0. Threads = 1 .. N /\ N \in Nat
  BY NAssumption DEF Threads
<1>1. Astray # {}
  <2>1. PICK t \in Threads : \E i \in 1 .. t - 1 : <<i, t>> \in nameMatches
    BY DEF UnambiguousNames
  <2>2. PICK i \in 1 .. t - 1 : <<i, t>> \in nameMatches
    BY <2>1
  <2>3. ~ (/\ <<t, t>> \in nameMatches
           /\ \A j \in 1 .. t - 1 : <<j, t>> \notin nameMatches)
    BY <2>2
  <2> DEFINE First(k) == /\ <<k, t>> \in nameMatches
                         /\ \A j \in 1 .. k - 1 : <<j, t>> \notin nameMatches
             M == {k \in Threads : <<k, t>> \in nameMatches}
  <2>4. M \subseteq Nat /\ t \in M
    BY <1>0, NamingsAssumption
  <2>5. PICK m \in M : \A k \in M : m <= k
    BY <2>4, Least
  <2>6. m \in Threads /\ First(m)
    BY <1>0, <2>5
  <2>7. First(FindMyIndex(t))
    BY <2>6 DEF FindMyIndex
  <2>8. FindMyIndex(t) # t
    BY <2>3, <2>7
  <2> QED BY <2>8
<1>2. S # {} /\ S \subseteq Nat
  BY <1>0, <1>1
<1>3. PICK d \in S : \A e \in S : d <= e
  BY <1>2, Least
<1>4. PICK i \in Astray : d = N - i
  BY <1>3
<1>5. ASSUME NEW t \in Threads PROVE FindMyIndex(t) # i
  <2>1. FindMyIndex(t) \in Threads /\ FindMyIndex(t) <= t
    BY IndexNotBehind
  <2>2. CASE t \in Astray
    <3>1. N - t \in S
      BY <2>2
    <3>2. d <= N - t
      BY <1>3, <3>1
    <3>3. t <= i
      BY <1>0, <1>4, <3>2
    <3> QED BY <1>0, <1>4, <2>1, <2>2, <3>3
  <2>3. CASE t \notin Astray
    BY <1>4, <2>3
  <2> QED BY <2>2, <2>3
<1> QED BY <1>4, <1>5

TypeInv == TypeOK /\ LockAfterRead

\* The initial state (the globals of hw4.c and what main sets) has its types.
LEMMA TypeInit == Init => TypeInv
  BY NAssumption, ChunkSizeAssumption, InputFilesAssumption
  DEF Init, TypeInv, TypeOK, LockAfterRead, PcStates, NoThread, Inputs

\* Every step keeps the types.
LEMMA TypeNext == TypeInv /\ [Next]_vars => TypeInv'
<1> SUFFICES ASSUME TypeInv, [Next]_vars PROVE TypeInv'
  OBVIOUS
<1> USE DEF TypeInv, TypeOK, LockAfterRead, given, mainVars, sharedVars, PcStates
<1>0. /\ N \in Nat /\ N >= 1 /\ Threads = 1 .. N /\ input \in Inputs
      /\ \A t \in Threads : input[t].blocks \in Nat
  BY NAssumption, InputFilesAssumption DEF Threads, Inputs
<1>1. CASE Main
  <2>1. CASE CheckInputs BY <2>1 DEF CheckInputs
  <2>2. CASE CheckInputsFails BY <2>2 DEF CheckInputsFails
  <2>3. CASE CreateThread BY <2>3, <1>0 DEF CreateThread
  <2>4. CASE CreateThreadFails BY <2>4 DEF CreateThreadFails
  <2>5. CASE JoinThread BY <2>5, <1>0 DEF JoinThread
  <2>6. CASE ReportSize BY <2>6 DEF ReportSize
  <2> QED BY <1>1, <2>1, <2>2, <2>3, <2>4, <2>5, <2>6 DEF Main
<1>2. ASSUME NEW t \in Threads, Thread(t) PROVE TypeInv'
  <2>1. CASE OpenFile(t) BY <2>1 DEF OpenFile
  <2>2. CASE OpenFileFails(t) BY <2>2 DEF OpenFileFails
  <2>3. CASE ReadBlock(t) BY <1>0, <2>3 DEF ReadBlock
  <2>4. CASE ReadEof(t) BY <2>4 DEF ReadEof
  <2>5. CASE ReadFails(t) BY <2>5 DEF ReadFails
  <2>6. CASE XorBlock(t)
    <3> DEFINE n == BlockSize(input, t, blocksRead[t])
    <3>1. n \in 1 .. ChunkSize
      BY <1>0, BlockSizeBounds
    <3>2. ChunkGrownTo(n) \in 0 .. ChunkSize
      BY <3>1, ChunkSizeAssumption DEF ChunkGrownTo
    <3>3. chunk' \in SUBSET (Threads \X (Nat \ {0}))
      BY <2>6 DEF XorBlock, SymDiff
    <3> QED BY <2>6, <3>2, <3>3 DEF XorBlock
  <2>7. CASE WaitForOthers(t) BY <2>7 DEF WaitForOthers
  <2>8. CASE WriteRound(t)
    <3>1. output' \in Seq([data : SUBSET (Threads \X (Nat \ {0})),
                           size : 0 .. ChunkSize])
      BY <2>8 DEF WriteRound, WriteToOutputFile
    <3>2. pc' \in [Threads -> PcStates] /\ \A u \in Threads : pc'[u] = "lock" => pc[u] = "lock"
      BY <2>8 DEF WriteRound, AfterBroadcast
    <3>3. sizeOfChunk' \in 0 .. ChunkSize /\ sizeOfFile' \in Nat
      BY <2>8, ChunkSizeAssumption DEF WriteRound, WriteToOutputFile
    <3> QED BY <2>8, <3>1, <3>2, <3>3 DEF WriteRound, WriteToOutputFile
  <2>9. CASE WriteFails(t) BY <2>9 DEF WriteFails
  <2>10. CASE SpuriousWakeup(t) BY <2>10 DEF SpuriousWakeup
  <2>11. CASE Reacquire(t) BY <2>11 DEF Reacquire
  <2>12. CASE Unlock(t) BY <2>12 DEF Unlock
  <2> QED BY <1>2, <2>1, <2>2, <2>3, <2>4, <2>5, <2>6, <2>7, <2>8, <2>9,
             <2>10, <2>11, <2>12 DEF Thread
<1>3. CASE UNCHANGED vars
  BY <1>3 DEF vars
<1> QED BY <1>1, <1>2, <1>3 DEF Next

\* Every variable keeps its type, whatever fails and whatever the names.
THEOREM TypeCorrect == Spec => []TypeOK
<1>1. TypeInv => TypeOK
  BY DEF TypeInv
<1> QED BY <1>1, TypeInit, TypeNext, PTL DEF Spec

-----------------------------------------------------------------------------
(* The inductive invariant.                                                *)

\* Nothing is read, XORed or written at first, so the invariant holds.
LEMMA IInvInit == Init => IInv
<1> SUFFICES ASSUME Init PROVE IInv
  OBVIOUS
<1> USE DEF Init
<1>1. TypeOK /\ LockAfterRead
  BY TypeInit DEF TypeInv
<1>2. Threads = 1 .. N /\ N \in Nat /\ N >= 1
  BY NAssumption DEF Threads
<1>3. input \in Inputs
  BY InputFilesAssumption
<1>4. \A t \in Threads : BlocksXored(t) = 0 /\ ~ InRound(t)
  BY DEF BlocksXored, InRound, RoundsWritten
<1>5. Lockstep
  BY <1>3, <1>4 DEF Lockstep, RoundsWritten, InRound, Inputs
<1>6. BufferExact
  BY <1>4 DEF BufferExact
<1>7. OutputExact /\ FileSizeExact
  BY DEF OutputExact, FileSizeExact, RoundsWritten
<1>8. MainInOrder
  BY <1>2 DEF MainInOrder
<1>9. UnclaimedFlags
  BY DEF UnclaimedFlags
<1>10. SomebodyWrites
  BY <1>2 DEF SomebodyWrites
<1> QED BY <1>1, <1>5, <1>6, <1>7, <1>8, <1>9, <1>10 DEF IInv

\* What the invariant promises most of: names are unambiguous and nothing
\* wakes spuriously.
Regular == NoSpuriousWakeups /\ UnambiguousNames

\* The part of the invariant that takes Regular.
InStep == Lockstep /\ BufferExact /\ FileSizeExact

\* A step that neither XORs a block nor writes a round keeps what the
\* invariant says of the buffer and of the output.
LEMMA QuietStep ==
  ASSUME BufferExact, OutputExact, FileSizeExact,
         UNCHANGED <<given, output, chunk, sizeOfChunk, sizeOfFile>>,
         \A t \in Threads : BlocksXored(t)' = BlocksXored(t)
  PROVE  BufferExact' /\ OutputExact' /\ FileSizeExact'
<1> USE DEF given
<1>1. RoundsWritten' = RoundsWritten
  BY DEF RoundsWritten
<1>2. \A t \in Threads : InRound(t)' <=> InRound(t)
  BY <1>1 DEF InRound
<1>3. BufferExact'
  BY <1>1, <1>2 DEF BufferExact, BlockSize
<1>4. OutputExact'
  BY DEF OutputExact, NoSpuriousWakeups, ExactRound, RoundData, IsRoundSize,
         Holders, BlockSize
<1>5. FileSizeExact'
  BY <1>1 DEF FileSizeExact
<1> QED BY <1>3, <1>4, <1>5

\* main's steps keep the invariant.
LEMMA MainKeepsIInv ==
  ASSUME IInv, Main
  PROVE  MainInOrder' /\ (Regular => InStep' /\ OutputExact')
<1> USE DEF IInv, TypeOK, given, mainVars, sharedVars
<1>0. N \in Nat /\ N >= 1 /\ Threads = 1 .. N
  BY NAssumption DEF Threads
<1>1. UNCHANGED <<given, blocksRead, mutex, stillRunning, sharedVars>>
  BY DEF Main, CheckInputs, CheckInputsFails, CreateThread, CreateThreadFails,
         JoinThread, ReportSize
<1>2. \A t \in Threads :
        pc'[t] = pc[t] \/ (pc[t] = "unborn" /\ pc'[t] = "open")
  BY <1>0 DEF Main, CheckInputs, CheckInputsFails, CreateThread,
         CreateThreadFails, JoinThread, ReportSize, MainInOrder
<1>3. \A t \in Threads : BlocksXored(t)' = BlocksXored(t)
  BY <1>1, <1>2 DEF BlocksXored
<1>4. ASSUME Regular PROVE InStep' /\ OutputExact'
  <2> USE <1>4 DEF Regular
  <2>1. BufferExact' /\ OutputExact' /\ FileSizeExact'
    BY <1>1, <1>3, QuietStep
  <2>2. Lockstep'
    BY <1>1, <1>2, <1>3 DEF Lockstep, InRound, RoundsWritten
  <2> QED BY <2>1, <2>2 DEF InStep
<1>5. MainInOrder'
  <2>1. CASE CheckInputs BY <2>1, <1>0 DEF CheckInputs, MainInOrder
  <2>2. CASE CheckInputsFails BY <2>2 DEF CheckInputsFails, MainInOrder
  <2>3. CASE CreateThread BY <2>3, <1>0 DEF CreateThread, MainInOrder
  <2>4. CASE CreateThreadFails BY <2>4 DEF CreateThreadFails, MainInOrder
  <2>5. CASE JoinThread BY <2>5, <1>0 DEF JoinThread, MainInOrder
  <2>6. CASE ReportSize BY <2>6, <1>0 DEF ReportSize, MainInOrder
  <2> QED BY <2>1, <2>2, <2>3, <2>4, <2>5, <2>6 DEF Main
<1> QED BY <1>4, <1>5

\* The steps of a thread that neither XOR a block nor write a round.
QuietThread(t) ==
  \/ OpenFile(t)  \/ OpenFileFails(t) \/ ReadBlock(t)
  \/ ReadEof(t)   \/ ReadFails(t)     \/ WaitForOthers(t)
  \/ WriteFails(t) \/ Reacquire(t)    \/ Unlock(t)

\* A thread's steps leave main's bookkeeping true: nothing starts an unborn
\* thread or revives one that exited.
LEMMA ThreadKeepsMainInOrder ==
  ASSUME IInv, NEW t \in Threads, Thread(t)
  PROVE  MainInOrder'
<1> USE DEF IInv, TypeOK, mainVars
<1>1. UNCHANGED mainVars
  BY DEF Thread, OpenFile, OpenFileFails, ReadBlock, ReadEof, ReadFails,
         WaitForOthers, WriteFails, Reacquire, Unlock, XorBlock, WriteRound,
         SpuriousWakeup
<1>2. pc[t] \notin {"unborn", "exited"}
  BY DEF Thread, OpenFile, OpenFileFails, ReadBlock, ReadEof, ReadFails,
         WaitForOthers, WriteFails, Reacquire, Unlock, XorBlock, WriteRound,
         SpuriousWakeup
<1>3. \A u \in Threads :
        u # t => pc'[u] = pc[u] \/ (pc[u] = "waiting" /\ pc'[u] = "woken")
  BY DEF Thread, OpenFile, OpenFileFails, ReadBlock, ReadEof, ReadFails,
         WaitForOthers, WriteFails, Reacquire, Unlock, XorBlock, WriteRound,
         SpuriousWakeup, AfterBroadcast
<1>4. N \in Nat /\ Threads = 1 .. N
  BY NAssumption DEF Threads
<1> QED BY <1>1, <1>2, <1>3, <1>4 DEF MainInOrder

\* The flags of an index that nobody claims stay as they are, and with it the
\* output of a run with ambiguous names stays empty.
LEMMA StepKeepsUnclaimed ==
  ASSUME IInv, [Next]_vars
  PROVE  UnclaimedFlags'
<1> USE DEF IInv, TypeOK, given, mainVars, sharedVars
<1> DEFINE Unclaimed(i) == \A t \in Threads : FindMyIndex(t) # i
<1>0. nameMatches' = nameMatches
  BY DEF Next, Main, CheckInputs, CheckInputsFails, CreateThread,
         CreateThreadFails, JoinThread, ReportSize, Thread, OpenFile,
         OpenFileFails, ReadBlock, ReadEof, ReadFails, WaitForOthers, WriteFails,
         Reacquire, Unlock, XorBlock, WriteRound, SpuriousWakeup, vars
<1>1. \A t : FindMyIndex(t)' = FindMyIndex(t)
  BY <1>0 DEF FindMyIndex
<1>2. UnambiguousNames' <=> UnambiguousNames
  BY <1>0 DEF UnambiguousNames
<1>3. ASSUME NEW t \in Threads, XorBlock(t) PROVE UnclaimedFlags'
  BY <1>1, <1>2, <1>3 DEF UnclaimedFlags, XorBlock
<1>4. ASSUME NEW t \in Threads, ReadEof(t) PROVE UnclaimedFlags'
  BY <1>1, <1>2, <1>4 DEF UnclaimedFlags, ReadEof
<1>5. ASSUME NEW t \in Threads, WriteRound(t) PROVE UnclaimedFlags'
  <2>1. UnambiguousNames
    <3> SUFFICES ASSUME ~ UnambiguousNames PROVE FALSE
      OBVIOUS
    <3>1. PICK i \in Threads : Unclaimed(i)
      BY UnclaimedIndex
    <3> QED BY <1>5, <3>1 DEF UnclaimedFlags, WriteRound, RoundComplete
  <2>2. \A i \in Threads : Unclaimed(i) =>
          stillRunning'[i] /\ ~ finishedXoring'[i]
    BY <1>5 DEF UnclaimedFlags, WriteRound, WriteToOutputFile
  <2> QED BY <1>1, <1>2, <2>1, <2>2 DEF UnclaimedFlags
<1>6. CASE UNCHANGED <<stillRunning, finishedXoring, output>>
  BY <1>1, <1>2, <1>6 DEF UnclaimedFlags
<1>7. ASSUME NEW t \in Threads, Thread(t) PROVE UnclaimedFlags'
  <2>1. CASE ~ (XorBlock(t) \/ ReadEof(t) \/ WriteRound(t))
    BY <1>6, <1>7, <2>1
    DEF Thread, OpenFile, OpenFileFails, ReadBlock, ReadFails, WaitForOthers,
        WriteFails, Reacquire, Unlock, SpuriousWakeup
  <2> QED BY <1>3, <1>4, <1>5, <2>1
<1>8. CASE Main
  BY <1>6, <1>8
  DEF Main, CheckInputs, CheckInputsFails, CreateThread, CreateThreadFails,
      JoinThread, ReportSize
<1>9. CASE UNCHANGED vars
  BY <1>6, <1>9 DEF vars
<1> QED BY <1>7, <1>8, <1>9 DEF Next

\* The quiet steps keep the rest of the invariant.
LEMMA QuietThreadKeepsIInv ==
  ASSUME IInv, NEW t \in Threads, Regular, QuietThread(t)
  PROVE  InStep' /\ OutputExact'
<1> USE DEF IInv, Regular, TypeOK, given, mainVars, sharedVars
<1>1. UNCHANGED <<given, sharedVars>>
  BY DEF QuietThread, OpenFile, OpenFileFails, ReadBlock, ReadEof, ReadFails,
         WaitForOthers, WriteFails, Reacquire, Unlock
<1>2. \A u \in Threads : BlocksXored(u)' = BlocksXored(u)
  BY DEF QuietThread, OpenFile, OpenFileFails, ReadBlock, ReadEof, ReadFails,
         WaitForOthers, WriteFails, Reacquire, Unlock, BlocksXored
<1>3. BufferExact' /\ OutputExact' /\ FileSizeExact'
  BY <1>1, <1>2, QuietStep
<1>4. RoundsWritten' = RoundsWritten
        /\ \A u \in Threads : InRound(u)' <=> InRound(u)
  BY <1>1, <1>2 DEF RoundsWritten, InRound
<1>5. \A u \in Threads : input[u].blocks \in Nat
  BY InputFilesAssumption DEF Inputs
<1>6. \A u \in Threads : u # 0
  BY NAssumption DEF Threads
<1>7. Lockstep'
  <2> USE <1>1, <1>2, <1>4, <1>5, <1>6 DEF Lockstep, NoThread
  <2>1. CASE OpenFile(t) BY <2>1 DEF OpenFile
  <2>2. CASE OpenFileFails(t) BY <2>2 DEF OpenFileFails
  <2>3. CASE ReadBlock(t) BY <2>3 DEF ReadBlock
  <2>4. CASE ReadEof(t)
    BY <2>4, OwnIndex DEF ReadEof, BlocksXored, InRound
  <2>5. CASE ReadFails(t) BY <2>5 DEF ReadFails
  <2>6. CASE WaitForOthers(t) BY <2>6 DEF WaitForOthers
  <2>7. CASE WriteFails(t) BY <2>7 DEF WriteFails
  <2>8. CASE Reacquire(t) BY <2>8 DEF Reacquire
  <2>9. CASE Unlock(t) BY <2>9 DEF Unlock
  <2> QED BY <2>1, <2>2, <2>3, <2>4, <2>5, <2>6, <2>7, <2>8, <2>9
          DEF QuietThread
<1> QED BY <1>3, <1>7 DEF InStep

\* XORing a block puts its thread one ahead and its block into the buffer.
LEMMA XorBlockKeepsIInv ==
  ASSUME IInv, NEW t \in Threads, Regular, XorBlock(t)
  PROVE  InStep' /\ OutputExact'
<1> USE DEF IInv, Regular, TypeOK, given, mainVars
<1> DEFINE round == RoundsWritten + 1
           n == BlockSize(input, t, round)
<1>0. /\ FindMyIndex(t) = t
      /\ input \in Inputs
      /\ RoundsWritten \in Nat
      /\ \A u \in Threads : u # 0
  BY OwnIndex, InputFilesAssumption, NAssumption DEF RoundsWritten, Threads
<1>1. UNCHANGED <<input, output, sizeOfFile, blocksRead, stillRunning>>
        /\ RoundsWritten' = RoundsWritten
  BY DEF XorBlock, RoundsWritten
<1>2. blocksRead[t] = round /\ BlocksXored(t) = RoundsWritten
  BY <1>0 DEF XorBlock, Lockstep, BlocksXored
<1>3. BlocksXored(t)' = round
  BY <1>2 DEF XorBlock, BlocksXored
<1>4. \A u \in Threads : u # t => BlocksXored(u)' = BlocksXored(u)
  BY DEF XorBlock, BlocksXored
<1>5. ~ InRound(t) /\ InRound(t)'
  BY <1>0, <1>1, <1>2, <1>3 DEF InRound
<1>6. \A u \in Threads : u # t => (InRound(u)' <=> InRound(u))
  BY <1>1, <1>4 DEF InRound
<1>7. Lockstep'
  BY <1>0, <1>1, <1>2, <1>3, <1>4, <1>5, <1>6
  DEF Lockstep, XorBlock, InRound, NoThread
<1>8. BufferExact'
  <2>1. chunk' = {<<u, round>> : u \in {v \in Threads : InRound(v)'}}
    <3>1. chunk' = chunk \cup {<<t, round>>}
      <4>1. <<t, round>> \notin chunk
        BY <1>5 DEF BufferExact
      <4> QED BY <4>1, <1>2 DEF XorBlock, SymDiff
    <3>2. {v \in Threads : InRound(v)'} = {v \in Threads : InRound(v)} \cup {t}
      BY <1>5, <1>6
    <3>3. chunk = {<<u, round>> : u \in {v \in Threads : InRound(v)}}
      BY DEF BufferExact
    <3> HIDE DEF round
    <3> QED BY <3>1, <3>2, <3>3
  <2>2. n \in 1 .. ChunkSize /\ sizeOfChunk' = ChunkGrownTo(n)
    BY <1>0, <1>2, BlockSizeBounds DEF XorBlock
  <2>3. \A u \in Threads :
          BlockSize(input, u, round)' = BlockSize(input, u, round)
            /\ BlockSize(input, u, round) \in 1 .. ChunkSize
    <3>1. \A u \in Threads : BlockSize(input, u, round) \in 1 .. ChunkSize
      <4>1. round \in Nat
        BY <1>0
      <4> HIDE DEF round, IInv, TypeOK
      <4> QED BY <1>0, <4>1, BlockSizeBounds
    <3>2. \A u \in Threads :
            BlockSize(input, u, round)' = BlockSize(input, u, round)
      BY <1>1 DEF BlockSize
    <3> QED BY <3>1, <3>2
  <2>4. \A u \in Threads :
          InRound(u)' => BlockSize(input, u, round) <= sizeOfChunk'
    <3>1. n <= sizeOfChunk' /\ sizeOfChunk <= sizeOfChunk'
      BY <2>2, ChunkSizeAssumption DEF ChunkGrownTo
    <3>2. ASSUME NEW u \in Threads, u # t, InRound(u)'
          PROVE  BlockSize(input, u, round) <= sizeOfChunk
      BY <1>6, <3>2 DEF BufferExact
    <3> HIDE DEF IInv, round, n
    <3>3. n = BlockSize(input, t, round) /\ sizeOfChunk \in Nat /\ sizeOfChunk' \in Nat
      BY <2>2, ChunkSizeAssumption DEF IInv, n, ChunkGrownTo, TypeOK
    <3> QED BY <2>3, <3>1, <3>2, <3>3, ChunkSizeAssumption
  <2>5. \/ sizeOfChunk' = 0
        \/ \E u \in Threads :
             InRound(u)' /\ sizeOfChunk' = BlockSize(input, u, round)
    <3>1. CASE sizeOfChunk < n
      BY <3>1, <1>5, <2>2 DEF ChunkGrownTo
    <3>2. CASE ~ (sizeOfChunk < n)
      BY <3>2, <1>5, <1>6, <2>2 DEF ChunkGrownTo, BufferExact
    <3> QED BY <3>1, <3>2
  <2> QED BY <1>1, <2>1, <2>3, <2>4, <2>5 DEF BufferExact
<1>9. OutputExact'
  BY <1>1 DEF OutputExact, ExactRound, RoundData, IsRoundSize, Holders,
              BlockSize, NoSpuriousWakeups, XorBlock
<1>10. FileSizeExact'
  BY <1>1 DEF FileSizeExact
<1> QED BY <1>7, <1>8, <1>9, <1>10 DEF InStep

\* When a thread finds the round complete, the threads that are one ahead are
\* exactly those whose files have a block in this round.
LEMMA CompleteRound ==
  ASSUME IInv, Regular, RoundComplete, NEW u \in Threads
  PROVE  /\ InRound(u) <=> u \in Holders(input, RoundsWritten + 1)
         /\ InRound(u) <=> RoundsWritten + 1 <= input[u].blocks
         /\ stillRunning[u] => InRound(u)
<1> USE DEF IInv, Regular, TypeOK
<1>1. input[u].blocks \in Nat /\ RoundsWritten \in Nat
        /\ blocksRead[u] \in Nat
  BY InputFilesAssumption DEF Inputs, RoundsWritten
<1>2. CASE stillRunning[u]
  <2>1. InRound(u)
    BY <1>2 DEF RoundComplete, Lockstep
  <2>2. BlocksXored(u) <= input[u].blocks
    BY <1>1, <1>2 DEF Lockstep, BlocksXored, LockAfterRead
  <2> QED BY <1>1, <2>1, <2>2 DEF InRound, Holders
<1>3. CASE ~ stillRunning[u]
  BY <1>1, <1>3 DEF Lockstep, InRound, Holders
<1> QED BY <1>2, <1>3

\* The round that is written is exact, and it is the next one.
LEMMA RoundWrittenExact ==
  ASSUME IInv, Regular, NEW t \in Threads, WriteRound(t)
  PROVE  /\ output' = Append(output, [data |-> chunk, size |-> sizeOfChunk])
         /\ ExactRound(input, RoundsWritten + 1,
                       [data |-> chunk, size |-> sizeOfChunk])
         /\ sizeOfChunk \in 1 .. ChunkSize
         /\ t \in Holders(input, RoundsWritten + 1)
<1> USE DEF IInv, Regular, TypeOK
<1> DEFINE round == RoundsWritten + 1
<1>1. RoundComplete /\ InRound(t) /\ t \in Holders(input, round)
  BY CompleteRound DEF WriteRound, Lockstep
<1>2. {u \in Threads : InRound(u)} = Holders(input, round)
  BY <1>1, CompleteRound DEF Holders
<1>3. chunk = RoundData(input, round)
  BY <1>2 DEF BufferExact, RoundData
<1>4. BlockSize(input, t, round) \in 1 .. ChunkSize
  <2>1. round \in Nat /\ input \in Inputs
    BY InputFilesAssumption DEF RoundsWritten
  <2> HIDE DEF round, IInv, TypeOK
  <2> QED BY <2>1, BlockSizeBounds
<1>5. sizeOfChunk \in 1 .. ChunkSize
  BY <1>1, <1>4, ChunkSizeAssumption DEF BufferExact
<1>6. IsRoundSize(input, round, sizeOfChunk)
  <2>1. \E u \in Holders(input, round) : sizeOfChunk = BlockSize(input, u, round)
    BY <1>2, <1>5, ChunkSizeAssumption DEF BufferExact
  <2>2. \A u \in Holders(input, round) : BlockSize(input, u, round) <= sizeOfChunk
    BY <1>2 DEF BufferExact
  <2> QED BY <2>1, <2>2 DEF IsRoundSize
<1> QED BY <1>1, <1>3, <1>5, <1>6 DEF ExactRound, WriteRound, WriteToOutputFile

\* When a round is written nobody stays ahead: every thread that runs is level
\* with the output again and the buffer is empty.
LEMMA WriteRoundKeepsLockstep ==
  ASSUME IInv, Regular, NEW t \in Threads, WriteRound(t)
  PROVE  Lockstep' /\ BufferExact'
<1> USE DEF IInv, Regular, TypeOK, given, mainVars
<1>1. /\ FindMyIndex(t) = t
      /\ input \in Inputs
      /\ RoundsWritten \in Nat
      /\ RoundsWritten' = RoundsWritten + 1
  BY OwnIndex, InputFilesAssumption
  DEF RoundsWritten, WriteRound, WriteToOutputFile
<1>2. UNCHANGED <<input, blocksRead, mutex, stillRunning>>
  <2>1. stillRunning[t]
    BY DEF WriteRound, Lockstep
  <2> QED BY <1>1, <2>1 DEF WriteRound
<1>3. ASSUME NEW u \in Threads
      PROVE  /\ BlocksXored(u)' = BlocksXored(u)
             /\ pc[u] = "exited" <=> pc'[u] = "exited"
             /\ pc'[u] \in {"decide", "unlock"} => mutex = u
             /\ pc'[u] \notin {"decide", "waiting"}
             /\ stillRunning[u] => ~ finishedXoring'[u]
  <2>1. u # t => pc[u] # "decide"
    BY DEF WriteRound, Lockstep
  <2>2. mutex = t
    BY DEF WriteRound, Lockstep
  <2>3. pc'[u] = CASE u = t             -> "unlock"
                   [] pc[u] = "waiting" -> "woken"
                   [] OTHER             -> pc[u]
    BY DEF WriteRound, AfterBroadcast
  <2>4. blocksRead' = blocksRead /\ pc[t] = "decide"
    BY DEF WriteRound
  <2>5. stillRunning[u] => ~ finishedXoring'[u]
    BY DEF WriteRound, WriteToOutputFile
  <2>6. pc[u] \in {"decide", "unlock"} => mutex = u
    BY DEF Lockstep
  <2>7. BlocksXored(u)' = BlocksXored(u)
    BY <2>3, <2>4 DEF BlocksXored
  <2> QED BY <2>1, <2>2, <2>3, <2>4, <2>5, <2>6, <2>7
<1>4. ASSUME NEW u \in Threads
      PROVE  /\ BlocksXored(u) \in Int
             /\ BlocksXored(u) <= RoundsWritten + 1
             /\ stillRunning[u] => BlocksXored(u) = RoundsWritten + 1
             /\ pc[u] # "exited" => stillRunning[u]
  <2>1. stillRunning[u] => InRound(u)
    BY CompleteRound DEF WriteRound
  <2>2. input[u].blocks \in Nat /\ blocksRead[u] \in Nat
    BY <1>1 DEF Inputs
  <2> QED BY <1>1, <2>1, <2>2 DEF InRound, Lockstep, BlocksXored
<1>5. \A u \in Threads : ~ InRound(u)'
  BY <1>1, <1>3, <1>4 DEF InRound
<1>6. Lockstep'
  <2> SUFFICES ASSUME NEW u \in Threads
               PROVE  (/\ pc[u] \in {"decide", "unlock"} => mutex = u
                       /\ stillRunning[u] =>
                            /\ BlocksXored(u) \in {RoundsWritten, RoundsWritten + 1}
                            /\ finishedXoring[u] <=> InRound(u)
                       /\ pc[u] \in {"decide", "waiting"} => InRound(u)
                       /\ pc[u] \in {"unborn", "open", "read", "lock", "woken",
                                     "unlock"} =>
                            BlocksXored(u) = RoundsWritten
                       /\ pc[u] # "exited" => stillRunning[u]
                       /\ ~ stillRunning[u] =>
                            /\ BlocksXored(u) = input[u].blocks
                            /\ input[u].blocks <= RoundsWritten)'
    BY DEF Lockstep
  <2>1. /\ ~ stillRunning[u] =>
             /\ BlocksXored(u) = input[u].blocks
             /\ input[u].blocks <= RoundsWritten
        /\ input[u].blocks \in Nat
    BY <1>1 DEF Lockstep, Inputs
  <2>2. stillRunning'[u] =>
          BlocksXored(u)' = RoundsWritten' /\ ~ finishedXoring'[u]
    BY <1>1, <1>2, <1>3, <1>4
  <2>3. pc'[u] # "exited" => stillRunning'[u]
    BY <1>2, <1>3, <1>4
  <2> QED BY <1>1, <1>2, <1>3, <1>5, <2>1, <2>2, <2>3
<1>7. BufferExact'
  BY <1>5 DEF BufferExact, WriteRound, WriteToOutputFile
<1> QED BY <1>6, <1>7

\* The round that is written extends an exact output by an exact round, and
\* the sizes add up because every earlier round is full.
LEMMA WriteRoundKeepsOutput ==
  ASSUME IInv, Regular, NEW t \in Threads, WriteRound(t)
  PROVE  OutputExact' /\ FileSizeExact'
<1> USE DEF IInv, Regular, TypeOK
<1> DEFINE k == RoundsWritten
           new == [data |-> chunk, size |-> sizeOfChunk]
<1>1. /\ input \in Inputs /\ input' = input
      /\ new \in [data : SUBSET (Threads \X (Nat \ {0})), size : 0 .. ChunkSize]
      /\ output' = Append(output, new) /\ Len(output') # 0
      /\ sizeOfFile' = sizeOfFile + sizeOfChunk
  BY InputFilesAssumption
  DEF WriteRound, WriteToOutputFile, given, mainVars
<1>2. ExactRound(input, k + 1, new)
  BY RoundWrittenExact
<1>3. ExactRounds(input, output) /\ sizeOfFile = RoundsSize(output)
  BY DEF OutputExact, ExactRounds, FileSizeExact, RoundsSize, RoundsWritten
<1>4. /\ ExactRounds(input, output')
      /\ RoundsSize(output') = RoundsSize(output) + new.size
  BY <1>1, <1>2, <1>3, RoundAppended DEF RoundsWritten
<1>5. sizeOfFile' = RoundsSize(output')
  BY <1>1, <1>3, <1>4
<1>6. OutputExact'
  BY <1>1, <1>4
  DEF OutputExact, ExactRounds, ExactRound, RoundData, IsRoundSize, Holders, BlockSize
<1>7. FileSizeExact'
  BY <1>1, <1>5 DEF FileSizeExact, RoundsSize, RoundsWritten
<1> QED BY <1>6, <1>7

\* Who leaves the decision found a flag down, wrote the round or failed.
LEMMA SomebodyWritesNext ==
  ASSUME IInv, Regular, [Next]_vars
  PROVE  SomebodyWrites'
<1> USE DEF IInv, TypeOK, Regular, SomebodyWrites, mainVars, sharedVars, given
<1>0. Lockstep /\ SomebodyWrites
  OBVIOUS
\* Steps that leave the flags, and whoever is to write.
<1>1. ASSUME UNCHANGED <<stillRunning, finishedXoring>>,
             \A t \in Threads : pc[t] = "decide" \/ pc[t] = "exited" => pc'[t] = pc[t]
      PROVE  SomebodyWrites'
  BY <1>0, <1>1
<1>2. CASE Main
  <2>1. UNCHANGED <<stillRunning, finishedXoring>>
    BY <1>2 DEF Main, CheckInputs, CheckInputsFails, CreateThread,
                CreateThreadFails, JoinThread, ReportSize
  <2>2. \A t \in Threads : pc'[t] = pc[t] \/ (pc[t] = "unborn" /\ pc'[t] = "open")
    BY <1>2, NAssumption DEF Main, CheckInputs, CheckInputsFails, CreateThread,
                CreateThreadFails, JoinThread, ReportSize, MainInOrder, Threads
  <2> QED BY <1>1, <2>1, <2>2
<1>3. CASE UNCHANGED vars
  BY <1>1, <1>3 DEF vars
<1>4. ASSUME NEW t \in Threads, Thread(t) PROVE SomebodyWrites'
  <2>1. CASE OpenFile(t) \/ OpenFileFails(t) \/ ReadBlock(t) \/ ReadFails(t)
             \/ SpuriousWakeup(t) \/ Reacquire(t) \/ Unlock(t)
    BY <1>1, <2>1 DEF OpenFile, OpenFileFails, ReadBlock, ReadFails, SpuriousWakeup,
                      Reacquire, Unlock
  <2>2. CASE ReadEof(t)
    BY <2>2, OwnIndex DEF ReadEof
  <2>3. CASE XorBlock(t)
    BY <2>3 DEF XorBlock
  <2>4. CASE WaitForOthers(t)
    BY <2>4 DEF WaitForOthers, RoundComplete
  <2>5. CASE WriteRound(t)
    <3>1. stillRunning[t]
      BY <1>0, <2>5 DEF WriteRound, Lockstep
    <3> QED BY <2>5, <3>1 DEF WriteRound, WriteToOutputFile
  <2>6. CASE WriteFails(t)
    <3>1. stillRunning[t] /\ pc'[t] = "exited" /\ stillRunning' = stillRunning
      BY <1>0, <2>6 DEF WriteFails, Lockstep
    <3> QED BY <3>1
  <2> QED BY <1>4, <2>1, <2>2, <2>3, <2>4, <2>5, <2>6 DEF Thread
<1> QED BY <1>2, <1>3, <1>4 DEF Next

\* Every step keeps the invariant.
LEMMA IInvNext == IInv /\ [Next]_vars => IInv'
<1> SUFFICES ASSUME IInv, [Next]_vars PROVE IInv'
  OBVIOUS
<1>1. TypeOK' /\ LockAfterRead'
  BY TypeNext DEF IInv, TypeInv
<1>2. UnclaimedFlags'
  BY StepKeepsUnclaimed
<1>3. UNCHANGED given
  BY DEF Next, Main, CheckInputs, CheckInputsFails, CreateThread,
         CreateThreadFails, JoinThread, ReportSize, Thread, OpenFile,
         OpenFileFails, ReadBlock, ReadEof, ReadFails, WaitForOthers, WriteFails,
         Reacquire, Unlock, XorBlock, WriteRound, SpuriousWakeup, vars, mainVars
<1>4. /\ NoSpuriousWakeups' <=> NoSpuriousWakeups
      /\ UnambiguousNames' <=> UnambiguousNames
  BY <1>3 DEF given, NoSpuriousWakeups, UnambiguousNames
<1>5. MainInOrder' /\ (Regular => InStep' /\ OutputExact')
  <2>1. CASE Main BY <2>1, MainKeepsIInv
  <2>2. ASSUME NEW t \in Threads, Thread(t)
        PROVE  MainInOrder' /\ (Regular => InStep' /\ OutputExact')
    <3>1. MainInOrder'
      BY <2>2, ThreadKeepsMainInOrder
    <3>2. ASSUME Regular PROVE InStep' /\ OutputExact'
      <4>1. QuietThread(t) \/ XorBlock(t) \/ WriteRound(t)
        BY <2>2, <3>2
        DEF Thread, SpuriousWakeup, QuietThread, Regular, NoSpuriousWakeups
      <4> QED BY <3>2, <4>1, QuietThreadKeepsIInv, XorBlockKeepsIInv,
                 WriteRoundKeepsLockstep, WriteRoundKeepsOutput DEF InStep
    <3> QED BY <3>1, <3>2
  <2>3. CASE UNCHANGED vars
    <3>1. ASSUME Regular PROVE InStep' /\ OutputExact'
      <4>1. BufferExact' /\ OutputExact' /\ FileSizeExact'
        BY <2>3, <3>1, QuietStep DEF vars, IInv, Regular, BlocksXored
      <4>2. Lockstep'
        BY <2>3, <3>1
        DEF vars, given, IInv, Regular, Lockstep, InRound, BlocksXored,
            RoundsWritten
      <4> QED BY <4>1, <4>2 DEF InStep
    <3>2. MainInOrder'
      BY <2>3 DEF vars, IInv, MainInOrder
    <3> QED BY <3>1, <3>2
  <2> QED BY <2>1, <2>2, <2>3 DEF Next
<1>6. OutputExact'
  <2>1. CASE Regular BY <1>5, <2>1
  <2>2. CASE ~ NoSpuriousWakeups BY <1>4, <2>2 DEF OutputExact
  <2>3. CASE ~ UnambiguousNames
    <3>1. output' = << >>
      BY <1>2, <1>4, <2>3 DEF UnclaimedFlags
    <3> QED BY <3>1 DEF OutputExact
  <2> QED BY <2>1, <2>2, <2>3 DEF Regular
<1>7. Regular => SomebodyWrites'
  BY SomebodyWritesNext
<1> QED BY <1>1, <1>2, <1>4, <1>5, <1>6, <1>7 DEF IInv, InStep, Regular

\* The inductive invariant holds in every state, for any number of files, any
\* names and whatever fails.
THEOREM Invariance == Spec => []IInv
BY IInvInit, IInvNext, PTL DEF Spec

\* Every round the program writes is the XOR of that round of all the files
\* that have it, whatever I/O fails and however the threads interleave, for
\* any number of files of any length and any names, unless something wakes
\* spuriously.
THEOREM OutputAlwaysExact == Spec => []OutputExact
<1>1. IInv => OutputExact
  BY DEF IInv
<1> QED BY <1>1, Invariance, PTL

\* If the threads all sleep, no thread failed and names are unambiguous, the
\* round they wait for is complete, and a file that has ended is shorter than that
\* of a sleeper: threads with equally long files never all sleep.
THEOREM SleepersRoundComplete == Spec => []AsleepOnlyInCompleteRound
<1>1. ASSUME IInv, AllAsleep, Regular, ~ ThreadFailed
      PROVE  /\ RoundComplete
             /\ \E t, u \in Threads : /\ pc[t] = "waiting" /\ ~ stillRunning[u]
                                     /\ input[u].blocks < input[t].blocks
  <2>1. Lockstep /\ SomebodyWrites /\ LockAfterRead /\ input \in Inputs
    BY <1>1, InputFilesAssumption DEF IInv, Regular, TypeOK
  <2>2. RoundComplete
    BY <1>1, <2>1 DEF AllAsleep, ThreadFailed, RoundComplete, Lockstep
  <2>3. PICK t \in Threads : pc[t] = "waiting"
    BY <1>1 DEF AllAsleep
  <2>4. PICK u \in Threads : ~ stillRunning[u]
    <3>1. ~ \E v \in Threads : pc[v] = "decide" \/ (pc[v] = "exited" /\ stillRunning[v])
      BY <1>1 DEF AllAsleep, ThreadFailed
    <3> QED BY <2>1, <2>2, <3>1 DEF SomebodyWrites, RoundComplete
  <2>5. blocksRead[t] = RoundsWritten + 1 /\ blocksRead[t] <= input[t].blocks
    BY <2>1, <2>3 DEF Lockstep, InRound, BlocksXored, LockAfterRead
  <2>6. input[u].blocks <= RoundsWritten
    BY <2>1, <2>4 DEF Lockstep
  <2>7. input[t].blocks \in Nat /\ input[u].blocks \in Nat /\ RoundsWritten \in Nat
    BY <1>1, <2>1 DEF Inputs, IInv, TypeOK, RoundsWritten
  <2>8. input[u].blocks < input[t].blocks
    BY <2>5, <2>6, <2>7
  <2> QED BY <2>2, <2>3, <2>4, <2>8
<1>2. IInv => AsleepOnlyInCompleteRound
  BY <1>1 DEF AsleepOnlyInCompleteRound, Regular
<1> QED BY <1>2, Invariance, PTL

\* The file sizes follow from the rounds: what main announces once every thread
\* has come to the end of its file is the size of the largest file.
LEMMA CompleteAtEnd ==
  ASSUME IInv, NoSpuriousWakeups, ~ ThreadFailed,
         \A t \in Threads : pc[t] = "exited"
  PROVE  IsLastRound(input, RoundsWritten) /\ IsOutputSize(input, sizeOfFile)
<1> USE DEF IInv, TypeOK
<1>1. /\ \A t \in Threads : ~ stillRunning[t]
      /\ UnambiguousNames
  BY UnclaimedIndex DEF ThreadFailed, UnclaimedFlags
<1>2. input \in Inputs
  BY InputFilesAssumption
<1>3. IsLastRound(input, RoundsWritten)
  BY <1>1 DEF Lockstep, IsLastRound
<1>4. ExactRounds(input, output) /\ sizeOfFile = RoundsSize(output)
  BY <1>1 DEF OutputExact, ExactRounds, FileSizeExact, RoundsSize, RoundsWritten
<1> QED BY <1>2, <1>3, <1>4, CompleteSize DEF RoundsWritten

\* When main announces the output file and no thread failed, it is complete and
\* of the right size.
THEOREM CreatedIsComplete == Spec => []CreatedComplete
<1>1. IInv => CreatedComplete
  BY CompleteAtEnd DEF CreatedComplete, IInv, MainInOrder, RoundsWritten
<1> QED BY <1>1, Invariance, PTL

-----------------------------------------------------------------------------
(* No block is lost or used twice, whatever goes wrong.                    *)

\* Block k of file t is where EachBlockOnce says.
Placed(t, k) ==
  IF k <= BlocksXored(t)
  THEN \E place \in Places :
         \A other \in Places : IsIn(<<t, k>>, other) <=> other = place
  ELSE \A place \in Places : ~ IsIn(<<t, k>>, place)

\* A step that leaves the buffer and the output alone moves no block.
LEMMA StillPlaced ==
  ASSUME EachBlockOnce, UNCHANGED <<given, chunk, output>>,
         \A t \in Threads : BlocksXored(t)' = BlocksXored(t)
  PROVE  EachBlockOnce'
BY DEF EachBlockOnce, Places, IsIn, given

\* What happens to one block when another, or itself, enters the buffer.
LEMMA BlockEnters ==
  ASSUME NEW block, NEW new, Len(output) \in Nat,
         chunk' = chunk \cup {new}, UNCHANGED output
  PROVE  /\ block # new => \A place : IsIn(block, place)' <=> IsIn(block, place)
         /\ \A place \in Places : ~ IsIn(new, place) =>
              (IsIn(new, place)' <=> place = 0)
         /\ 0 \in Places /\ Places' = Places
<1>1. 0 \in Places /\ Places' = Places
  BY DEF Places
<1>2. ASSUME block # new, NEW place PROVE IsIn(block, place)' <=> IsIn(block, place)
  BY <1>2 DEF IsIn
<1>3. ASSUME NEW place \in Places, ~ IsIn(new, place)
      PROVE  IsIn(new, place)' <=> place = 0
  <2>1. CASE place = 0 BY <2>1 DEF IsIn
  <2>2. CASE place # 0 BY <1>3, <2>2 DEF IsIn
  <2> QED BY <2>1, <2>2
<1> QED BY <1>1, <1>2, <1>3

\* A block that was in no round and is XORed is in the buffer, and nowhere else.
LEMMA XorPlaces ==
  ASSUME EachBlockOnce, Len(output) \in Nat, input' = input, output' = output,
         NEW t \in Threads, NEW b \in 1 .. input[t].blocks,
         input[t].blocks \in Nat,
         chunk' = SymDiff(chunk, {<<t, b>>}),
         BlocksXored(t) = b - 1, BlocksXored(t)' = b,
         \A u \in Threads : u # t => BlocksXored(u)' = BlocksXored(u)
  PROVE  EachBlockOnce'
<1> DEFINE new == <<t, b>>
<1>3. \A place \in Places : ~ IsIn(new, place)
  BY DEF EachBlockOnce
<1>4. new \notin chunk
  BY <1>3 DEF IsIn, Places
<1>5. chunk' = chunk \cup {new}
  BY <1>4 DEF SymDiff
<1>6. \A block : block # new =>
        \A place : IsIn(block, place)' <=> IsIn(block, place)
  BY <1>5, BlockEnters
<1>7. /\ \A place \in Places : IsIn(new, place)' <=> place = 0
      /\ 0 \in Places /\ Places' = Places
  BY <1>3, <1>5, BlockEnters
<1>8. ASSUME NEW u \in Threads, NEW k \in 1 .. input[u].blocks
      PROVE  Placed(u, k)'
  <2>1. CASE u = t /\ k = b
    <3>1. k <= BlocksXored(u)'
      BY <2>1
    <3> QED BY <1>7, <2>1, <3>1 DEF Placed
  <2>2. CASE ~ (u = t /\ k = b)
    <3>1. <<u, k>> # new
      BY <2>2
    <3>2. k <= BlocksXored(u)' <=> k <= BlocksXored(u)
      BY <2>2
    <3>3. Placed(u, k)
      BY DEF EachBlockOnce, Placed
    <3>4. \A place : IsIn(<<u, k>>, place)' <=> IsIn(<<u, k>>, place)
      BY <1>6, <3>1
    <3>5. Places' = Places
      BY <1>7
    <3> QED BY <3>2, <3>3, <3>4, <3>5 DEF Placed
  <2> QED BY <2>1, <2>2
<1> QED BY <1>8 DEF EachBlockOnce, Placed

\* The block that a thread of hw4.c XORs is the next of its file.
LEMMA XorBlockPlaces ==
  ASSUME TypeInv, EachBlockOnce, NEW t \in Threads, XorBlock(t)
  PROVE  EachBlockOnce'
<1> USE DEF TypeInv, TypeOK
<1>1. PICK b \in Nat : b = blocksRead[t]
  OBVIOUS
<1>2. /\ 1 <= b /\ b <= input[t].blocks
      /\ input[t].blocks \in Nat
      /\ input' = input /\ output' = output
      /\ chunk' = SymDiff(chunk, {<<t, b>>})
  BY <1>1, InputFilesAssumption
  DEF LockAfterRead, given, mainVars, XorBlock, Inputs
<1>3. BlocksXored(t) = b - 1 /\ BlocksXored(t)' = b
  BY <1>1 DEF XorBlock, BlocksXored
<1>4. \A u \in Threads : u # t => BlocksXored(u)' = BlocksXored(u)
  BY DEF XorBlock, BlocksXored
<1>5. Len(output) \in Nat /\ b \in 1 .. input[t].blocks
  BY <1>2
<1> QED BY <1>2, <1>3, <1>4, <1>5, XorPlaces

\* The places when one more round is written.
LEMMA OneMorePlace ==
  ASSUME NEW n \in Nat
  PROVE  /\ 0 .. n = {0} \cup 1 .. n
         /\ 0 .. n + 1 = {0, n + 1} \cup 1 .. n
         /\ n + 1 # 0 /\ n + 1 \notin 1 .. n /\ 0 \notin 1 .. n
  OBVIOUS

\* The blocks of the buffer are those of the round that is written.
LEMMA WritePlaces ==
  ASSUME EachBlockOnce, NEW R, output \in Seq(R),
         NEW round \in R, round.data = chunk, output' = Append(output, round),
         chunk' = {}, input' = input,
         \A u \in Threads : BlocksXored(u)' = BlocksXored(u)
  PROVE  EachBlockOnce'
<1>n. PICK n \in Nat : n = Len(output)
  OBVIOUS
<1>1. /\ Len(output') = n + 1
      /\ output'[n + 1].data = chunk
      /\ \A j \in 1 .. n : output'[j] = output[j]
  BY <1>n
<1>2. Places = 0 .. n /\ Places' = 0 .. n + 1
  BY <1>n, <1>1 DEF Places
<1>3. \A u \in Threads : BlocksXored(u)' = BlocksXored(u)
  OBVIOUS
<1>4. /\ Places = {0} \cup 1 .. n
      /\ Places' = {0, n + 1} \cup 1 .. n
      /\ n + 1 # 0 /\ n + 1 \notin 1 .. n /\ 0 \notin 1 .. n
  BY <1>1, <1>2, OneMorePlace
<1>5. ASSUME NEW u \in Threads, NEW k \in 1 .. input[u].blocks
      PROVE  Placed(u, k)'
  <2> DEFINE block == <<u, k>>
  <2>1. Placed(u, k)
    BY DEF EachBlockOnce, Placed
  <2>2. \A j \in 1 .. n : IsIn(block, j)' <=> IsIn(block, j)
    <3>1. ASSUME NEW j \in 1 .. n PROVE IsIn(block, j)' <=> IsIn(block, j)
      <4>1. j # 0 /\ output'[j] = output[j]
        BY <1>1
      <4> QED BY <4>1 DEF IsIn
    <3> QED BY <3>1
  <2>3. IsIn(block, n + 1)' <=> IsIn(block, 0)
    BY <1>1 DEF IsIn
  <2>4. ~ IsIn(block, 0)'
    BY <1>1 DEF IsIn
  <2>8. CASE k <= BlocksXored(u)
    <3>1. PICK place \in Places :
            \A other \in Places : IsIn(block, other) <=> other = place
      BY <2>1, <2>8 DEF Placed
    <3> DEFINE new == IF place = 0 THEN n + 1 ELSE place
               last == n + 1
    <3> HIDE DEF block
    <3>2. \A other \in Places' : IsIn(block, other)' <=> other = new
      <4>1. CASE place = 0
        BY <1>4, <2>2, <2>3, <2>4, <3>1, <4>1
      <4>2. CASE place # 0
        BY <1>4, <2>2, <2>3, <2>4, <3>1, <4>2
      <4> QED BY <4>1, <4>2
    <3>3. new \in Places'
      BY <1>4
    <3> QED BY <1>3, <2>8, <3>2, <3>3 DEF Placed, block
  <2>9. CASE ~ (k <= BlocksXored(u))
    <3>1. \A other \in Places : ~ IsIn(block, other)
      BY <2>1, <2>9 DEF Placed
    <3> HIDE DEF block
    <3>2. \A other \in Places' : ~ IsIn(block, other)'
      BY <1>4, <2>2, <2>3, <2>4, <3>1
    <3> QED BY <1>3, <2>9, <3>2 DEF Placed, block
  <2> QED BY <2>8, <2>9
<1> QED BY <1>1, <1>5 DEF EachBlockOnce, Placed

\* What hw4.c writes is the buffer.
LEMMA WriteRoundPlaces ==
  ASSUME TypeInv, EachBlockOnce, NEW t \in Threads, WriteRound(t)
  PROVE  EachBlockOnce'
<1> USE DEF TypeInv, TypeOK
<1> DEFINE R == [data : SUBSET (Threads \X (Nat \ {0})), size : 0 .. ChunkSize]
           round == [data |-> chunk, size |-> sizeOfChunk]
<1>1. round \in R /\ round.data = chunk /\ output \in Seq(R)
  OBVIOUS
<1>2. output' = Append(output, round) /\ chunk' = {} /\ input' = input
  BY DEF given, mainVars, WriteRound, WriteToOutputFile
<1>3. \A u \in Threads : BlocksXored(u)' = BlocksXored(u)
  BY DEF WriteRound, AfterBroadcast, BlocksXored
<1> HIDE DEF R, round
<1> QED BY <1>1, <1>2, <1>3, WritePlaces

\* Every step leaves each block in its one round.
LEMMA BlocksNext == IInv /\ EachBlockOnce /\ [Next]_vars => EachBlockOnce'
<1> SUFFICES ASSUME IInv, EachBlockOnce, [Next]_vars PROVE EachBlockOnce'
  OBVIOUS
<1> USE DEF IInv, TypeInv, TypeOK, given, mainVars, sharedVars
<1>0. Threads = 1 .. N /\ N \in Nat
  BY NAssumption DEF Threads
<1>1. CASE Main
  <2>1. /\ UNCHANGED <<given, chunk, output, blocksRead>>
        /\ \A t \in Threads :
             pc'[t] = pc[t] \/ (pc[t] = "unborn" /\ pc'[t] = "open")
    BY <1>0, <1>1
    DEF Main, CheckInputs, CheckInputsFails, CreateThread, CreateThreadFails,
        JoinThread, ReportSize, MainInOrder
  <2> QED BY <2>1, StillPlaced DEF BlocksXored
<1>2. ASSUME NEW t \in Threads, Thread(t) PROVE EachBlockOnce'
  <2>1. CASE XorBlock(t) BY <2>1, XorBlockPlaces
  <2>2. CASE WriteRound(t) BY <2>2, WriteRoundPlaces
  <2>3. CASE QuietThread(t) \/ SpuriousWakeup(t)
    <3>1. UNCHANGED <<given, chunk, output>>
      BY <2>3
      DEF QuietThread, OpenFile, OpenFileFails, ReadBlock, ReadEof, ReadFails,
          WaitForOthers, WriteFails, SpuriousWakeup, Reacquire, Unlock
    <3>2. \A u \in Threads : BlocksXored(u)' = BlocksXored(u)
      BY <2>3
      DEF QuietThread, OpenFile, OpenFileFails, ReadBlock, ReadEof, ReadFails,
          WaitForOthers, WriteFails, SpuriousWakeup, Reacquire, Unlock,
          BlocksXored
    <3> QED BY <3>1, <3>2, StillPlaced
  <2> QED BY <1>2, <2>1, <2>2, <2>3 DEF Thread, QuietThread
<1>3. CASE UNCHANGED vars
  BY <1>3, StillPlaced DEF vars, BlocksXored
<1> QED BY <1>1, <1>2, <1>3 DEF Next

\* Every block that was XORed is in exactly one round, with every fault,
\* spurious wakeups and ambiguous names included.
THEOREM BlocksConserved == Spec => []EachBlockOnce
<1>1. Init => EachBlockOnce
  BY DEF Init, EachBlockOnce, BlocksXored, Places, IsIn
<1> QED BY <1>1, Invariance, BlocksNext, PTL DEF Spec

-----------------------------------------------------------------------------
(* Hw4 implements XorFile.                                                 *)

announced == IF NoSpuriousWakeups /\ mainPc = "done" /\ ~ ThreadFailed
             THEN sizeOfFile ELSE -1

written == IF NoSpuriousWakeups THEN output ELSE << >>

\* The data of the instance is the data of this module.
LEMMA SameData ==
  /\ \A in, k : Xored!IsLastRound(in, k) <=> IsLastRound(in, k)
  /\ \A in, k : Xored!RoundData(in, k) = RoundData(in, k)
  /\ \A in, k, rd : Xored!ExactRound(in, k, rd) <=> ExactRound(in, k, rd)
  /\ \A in, size : Xored!IsOutputSize(in, size) <=> IsOutputSize(in, size)
  /\ Xored!Inputs = Inputs
BY DEF IsLastRound, RoundData, ExactRound, IsRoundSize, IsOutputSize, FileSize,
       Holders, BlockSize, Inputs, Threads,
       Xored!IsLastRound, Xored!RoundData, Xored!ExactRound, Xored!IsRoundSize,
       Xored!IsOutputSize, Xored!FileSize, Xored!Holders, Xored!BlockSize,
       Xored!Inputs, Xored!Threads

\* A round is only written while the names are unambiguous.
LEMMA WriteRoundRegular ==
  ASSUME IInv, NoSpuriousWakeups, NEW t \in Threads, WriteRound(t)
  PROVE  Regular
<1>1. nameMatches \in Namings
  BY DEF IInv, TypeOK
<1>2. \A i \in Threads : ~ (stillRunning[i] /\ ~ finishedXoring[i])
  BY DEF WriteRound, RoundComplete
<1> QED BY <1>1, <1>2, UnclaimedIndex DEF IInv, UnclaimedFlags, Regular

\* A round that is written is a round of the abstract program; main's last
\* step is its announcement, if no thread failed; every other step is invisible
\* there.
LEMMA StepImplements ==
  ASSUME IInv, [Next]_vars
  PROVE  [Xored!Next]_(Xored!vars)
<1> USE DEF given, mainVars, sharedVars
<1>1. ASSUME NoSpuriousWakeups, NEW t \in Threads, WriteRound(t)
      PROVE Xored!WriteRound
  <2> DEFINE new == [data |-> chunk, size |-> sizeOfChunk]
  <2>0. Regular
    BY <1>1, WriteRoundRegular
  <2>1. /\ output' = Append(output, new)
        /\ ExactRound(input, RoundsWritten + 1, new)
        /\ sizeOfChunk \in 1 .. ChunkSize
        /\ t \in Holders(input, RoundsWritten + 1)
    BY <1>1, <2>0, RoundWrittenExact
  <2>2. input[t].blocks \in Nat /\ RoundsWritten \in Nat
    BY InputFilesAssumption DEF IInv, TypeOK, Inputs, RoundsWritten
  <2>3. ~ IsLastRound(input, Len(output))
    BY <2>1, <2>2 DEF IsLastRound, Holders, RoundsWritten
  <2>4. new = [data |-> RoundData(input, Len(output) + 1), size |-> sizeOfChunk]
    BY <2>1 DEF ExactRound, RoundsWritten
  <2>5. input' = input /\ faults' = faults /\ mainPc' = mainPc
    BY <1>1 DEF WriteRound
  <2>6. mainPc # "done"
    BY <1>1 DEF WriteRound, IInv, MainInOrder
  <2>7. /\ UNCHANGED <<input, announced>> /\ announced = -1
        /\ written = output /\ written' = output'
    BY <1>1, <2>5, <2>6 DEF announced, written, NoSpuriousWakeups
  <2>8. new \in {[data |-> RoundData(input, Len(output) + 1), size |-> n] :
                   n \in 1 .. ChunkSize}
    BY <2>1, <2>4
  <2>9. ExactRound(input, Len(output) + 1, new)
    BY <2>1 DEF RoundsWritten
  <2> HIDE DEF new
  <2> QED BY <2>1, <2>3, <2>7, <2>8, <2>9, SameData
          DEF Xored!WriteRound, announced, written
<1>2. ASSUME NoSpuriousWakeups, ~ ThreadFailed, ReportSize PROVE Xored!Report
  <2>1. \A t \in Threads : pc[t] = "exited"
    BY <1>2, NAssumption DEF ReportSize, IInv, MainInOrder, Threads
  <2>2. IsLastRound(input, Len(output)) /\ IsOutputSize(input, sizeOfFile)
    BY <1>2, <2>1, CompleteAtEnd DEF RoundsWritten
  <2>3. /\ announced = -1
        /\ announced' = sizeOfFile
        /\ written = output
        /\ UNCHANGED <<input, written>>
    BY <1>2
    DEF ReportSize, announced, written, NoSpuriousWakeups, ThreadFailed
  <2> QED BY <2>2, <2>3, SameData DEF Xored!Report, announced, written
<1>3. ASSUME UNCHANGED <<input, written, announced>>
      PROVE  UNCHANGED Xored!vars
  BY <1>3 DEF Xored!vars, announced, written
<1>4. CASE Main
  <2>1. CASE ReportSize /\ NoSpuriousWakeups /\ ~ ThreadFailed
    BY <2>1, <1>2 DEF Xored!Next
  <2>2. CASE ReportSize /\ ~ (NoSpuriousWakeups /\ ~ ThreadFailed)
    BY <1>3, <2>2
    DEF ReportSize, announced, written, NoSpuriousWakeups, ThreadFailed
  <2>3. CASE ~ ReportSize
    BY <1>3, <1>4, <2>3
    DEF Main, CheckInputs, CheckInputsFails, CreateThread, CreateThreadFails,
        JoinThread, announced, written, NoSpuriousWakeups, ThreadFailed
  <2> QED BY <2>1, <2>2, <2>3
<1>5. ASSUME NEW t \in Threads, Thread(t), ~ WriteRound(t) \/ ~ NoSpuriousWakeups
      PROVE  UNCHANGED Xored!vars
  <2>1. UNCHANGED <<given, mainPc>>
    BY <1>5
    DEF Thread, OpenFile, OpenFileFails, ReadBlock, ReadEof, ReadFails, XorBlock,
        WaitForOthers, WriteRound, WriteFails, SpuriousWakeup, Reacquire, Unlock
  <2>2. mainPc # "done"
    BY <1>5
    DEF Thread, OpenFile, OpenFileFails, ReadBlock, ReadEof, ReadFails, XorBlock,
        WaitForOthers, WriteRound, WriteFails, SpuriousWakeup, Reacquire, Unlock,
        IInv, MainInOrder
  <2>3. NoSpuriousWakeups => UNCHANGED output
    BY <1>5
    DEF Thread, OpenFile, OpenFileFails, ReadBlock, ReadEof, ReadFails, XorBlock,
        WaitForOthers, WriteFails, SpuriousWakeup, Reacquire, Unlock
  <2> QED BY <1>3, <2>1, <2>2, <2>3 DEF announced, written, NoSpuriousWakeups
<1>6. CASE UNCHANGED vars
  BY <1>3, <1>6
  DEF vars, announced, written, NoSpuriousWakeups, ThreadFailed
<1> QED BY <1>1, <1>4, <1>5, <1>6 DEF Next, Xored!Next

\* For any number of files, any chunk size, any names and any interleaving, the
\* program writes the XOR of its inputs one exact round at a time and announces
\* the size of the complete file (or never ends, or a thread failed), unless
\* something wakes spuriously.
THEOREM Implementation == Spec => ImplementsXorFile
<1>1. Init => Xored!Init
  BY InputFilesAssumption, SameData DEF Init, Xored!Init
<1>2. IInv /\ [Next]_vars => [Xored!Next]_(Xored!vars)
  BY StepImplements
<1>3. Spec => []IInv
  BY Invariance
<1> QED BY <1>1, <1>2, <1>3, PTL DEF Spec, Xored!Spec, ImplementsXorFile

(***************************************************************************)
(* Hw4Drafts.                                                              *)
(***************************************************************************)

\* No thread has started.
LEMMA DraftInOrderInit == DraftInit => DraftInOrder
  BY NAssumption, ChunkSizeAssumption, InputFilesAssumption
  DEF DraftInit, Init, DraftInOrder, DraftTypeOK, DraftPcStates, LockAfterRead,
      NoThread, Threads, Inputs

\* main creates and joins its threads as in hw4.c.
LEMMA DraftMainStep ==
  ASSUME DraftInOrder, DraftMain
  PROVE  /\ DraftInOrder'
         /\ UNCHANGED <<given, chunk, output, blocksRead>>
         /\ \A t \in Threads :
              pc'[t] = pc[t] \/ (pc[t] = "unborn" /\ pc'[t] = "open")
<1> USE DEF DraftInOrder, DraftTypeOK, DraftPcStates, given, mainVars, sharedVars,
            versionVars, LockAfterRead
<1>0. N \in Nat /\ N >= 1 /\ Threads = 1 .. N
  BY NAssumption DEF Threads
<1>1. CASE SetFlags
  BY <1>1 DEF SetFlags, DraftMain
<1>2. CASE CheckInputsFails
  BY <1>2 DEF CheckInputsFails, DraftMain
<1>3. CASE CreateThread
  BY <1>0, <1>3 DEF CreateThread, DraftMain
<1>4. CASE CreateThreadFails
  BY <1>4 DEF CreateThreadFails, DraftMain
<1>5. CASE JoinThread
  BY <1>0, <1>5 DEF JoinThread, DraftMain
<1>6. CASE ReportSize
  BY <1>6 DEF ReportSize, DraftMain
<1> QED BY <1>1, <1>2, <1>3, <1>4, <1>5, <1>6 DEF DraftMain

\* A block that is in the buffer or in a round that is written is XORed once:
\* the steps of thread t, as far as the blocks' places go.
LEMMA DraftThreadTypes ==
  ASSUME DraftInOrder, NEW t \in Threads, DraftThread(t)
  PROVE  DraftInOrder'
<1> USE DEF DraftInOrder, DraftTypeOK, DraftPcStates, given, mainVars, sharedVars,
            versionVars, LockAfterRead, Loop
<1>0. /\ Threads = 1 .. N /\ N \in Nat
      /\ input \in Inputs /\ \A u \in Threads : input[u].blocks \in Nat
  BY NAssumption, InputFilesAssumption DEF Inputs, Threads
<1>1. UNCHANGED <<given, mainVars, version>> /\ pc[t] # "unborn"
  BY DEF DraftThread, OpenOrFail, OpenFile, OpenFileFails, ReadFails, ReadChunk,
         ReadBlock, ReadNothing, XorChunk, LeaveChunk, WriteChunk,
         WriteLastChunk, WriteChunkFails, SetStillRunning, StopWaiting
<1>2. \A u \in Threads \ {t} : pc'[u] = pc[u] /\ blocksRead'[u] = blocksRead[u]
  BY DEF DraftThread, OpenOrFail, OpenFile, OpenFileFails, ReadFails, ReadChunk,
         ReadBlock, ReadNothing, XorChunk, LeaveChunk, WriteChunk, Release,
         WriteLastChunk, WriteChunkFails, SetStillRunning, StopWaiting
<1>3. /\ pc' \in [Threads -> DraftPcStates] /\ blocksRead' \in [Threads -> Nat]
      /\ LockAfterRead'
  <2>1. CASE OpenOrFail(t)
    BY <2>1 DEF OpenOrFail, OpenFile, OpenFileFails, ReadFails
  <2>2. CASE ReadChunk(t)
    BY <1>0, <2>2 DEF ReadChunk, ReadBlock
  <2>3. CASE ReadNothing(t)
    BY <2>3 DEF ReadNothing
  <2>4. CASE XorChunk(t)
    BY <2>4 DEF XorChunk
  <2>5. CASE LeaveChunk(t)
    BY <2>5 DEF LeaveChunk, Release
  <2>6. CASE WriteChunk(t)
    BY <2>6 DEF WriteChunk, Release
  <2>7. CASE WriteLastChunk(t) \/ WriteChunkFails(t)
    BY <2>7 DEF WriteLastChunk, WriteChunkFails
  <2>8. CASE SetStillRunning(t) \/ StopWaiting(t)
    BY <2>8 DEF SetStillRunning, StopWaiting
  <2> QED BY <2>1, <2>2, <2>3, <2>4, <2>5, <2>6, <2>7, <2>8 DEF DraftThread
<1>4. /\ chunk' \subseteq Threads \X Nat
      /\ sizeOfChunk' \in 0 .. ChunkSize
      /\ output' \in Seq([data : SUBSET (Threads \X Nat), size : 0 .. ChunkSize])
  <2>1. CASE XorChunk(t)
    <3> DEFINE n == BlockSize(input, t, blocksRead[t])
    <3>0. n \in 1 .. ChunkSize
      BY <1>0, BlockSizeBounds
    <3>1. ChunkGrownTo(n) \in 0 .. ChunkSize
      BY <3>0, ChunkSizeAssumption DEF ChunkGrownTo
    <3>2. chunk' \subseteq Threads \X Nat
      BY <2>1 DEF XorChunk, SymDiff
    <3> QED BY <2>1, <3>1, <3>2 DEF XorChunk
  <2>2. CASE WriteChunk(t) \/ WriteLastChunk(t)
    <3>1. chunk' = {} /\ sizeOfChunk' = 0
      BY <2>2 DEF WriteChunk, WriteLastChunk, WriteBuffer
    <3>2. output' = Append(output, [data |-> chunk, size |-> sizeOfChunk])
      BY <2>2 DEF WriteChunk, WriteLastChunk, WriteBuffer
    <3> QED BY <3>1, <3>2, ChunkSizeAssumption
  <2>3. CASE ~ (XorChunk(t) \/ WriteChunk(t) \/ WriteLastChunk(t))
    BY <2>3
    DEF DraftThread, OpenOrFail, OpenFile, OpenFileFails, ReadFails, ReadChunk,
        ReadBlock, ReadNothing, LeaveChunk, WriteChunkFails, SetStillRunning,
        StopWaiting
  <2> QED BY <2>1, <2>2, <2>3
<1>5. /\ fileEnded' \in [Threads -> BOOLEAN]
      /\ stillRunning' \in [Threads -> BOOLEAN]
      /\ finishedXoring' \in [Threads -> BOOLEAN]
      /\ WaitForWriteToBeFinished' \in BOOLEAN
      /\ mutex' \in Threads \cup {NoThread}
  <2>1. CASE OpenOrFail(t)
    BY <2>1 DEF OpenOrFail, OpenFile, OpenFileFails, ReadFails
  <2>2. CASE ReadChunk(t) \/ ReadNothing(t)
    <3> DEFINE n == BlockSize(input, t, blocksRead[t] + 1)
    <3>0. n \in Int
      <4>1. input \in Inputs /\ blocksRead[t] + 1 \in Nat
        BY <1>0
      <4>2. n \in 1 .. ChunkSize
        BY <4>1, BlockSizeBounds
      <4> HIDE DEF n
      <4> QED BY <4>2, ChunkSizeAssumption
    <3> HIDE DEF n
    <3>1. EndsFile(n) \in BOOLEAN
      <4>1. (n = 0) \in BOOLEAN /\ (n < ChunkSize) \in BOOLEAN
        BY <3>0, ChunkSizeAssumption
      <4>2. CASE version = "WithoutPrints"
        BY <4>1, <4>2, Zenon DEF EndsFile
      <4>3. CASE version # "WithoutPrints"
        BY <4>1, <4>3, Zenon DEF EndsFile
      <4> QED BY <4>2, <4>3
    <3>2. fileEnded' \in [Threads -> BOOLEAN]
      BY <2>2, <3>1 DEF ReadChunk, ReadNothing, n
    <3> QED BY <2>2, <3>2 DEF ReadChunk, ReadBlock, ReadNothing
  <2>3. CASE XorChunk(t)
    <3>1. stillRunning' \in [Threads -> BOOLEAN]
      BY <2>3 DEF XorChunk
    <3>2. finishedXoring' \in [Threads -> BOOLEAN] /\ mutex' = t
      BY <2>3 DEF XorChunk
    <3>3. UNCHANGED <<fileEnded, WaitForWriteToBeFinished>>
      BY <2>3 DEF XorChunk
    <3> QED BY <3>1, <3>2, <3>3
  <2>4. CASE LeaveChunk(t) \/ WriteChunk(t)
    <3>1. Release(t) /\ UNCHANGED fileEnded
      BY <2>4 DEF LeaveChunk, WriteChunk
    <3>2. /\ finishedXoring' \in [Threads -> BOOLEAN]
          /\ WaitForWriteToBeFinished' \in BOOLEAN
      BY <2>4 DEF LeaveChunk, WriteChunk, WriteBuffer
    <3>3. stillRunning' \in [Threads -> BOOLEAN]
      BY <3>1 DEF Release
    <3>4. mutex' \in Threads \cup {NoThread}
      BY <3>1 DEF Release
    <3> QED BY <3>1, <3>2, <3>3, <3>4
  <2>5. CASE WriteLastChunk(t) \/ WriteChunkFails(t)
    BY <2>5 DEF WriteLastChunk, WriteChunkFails, WriteBuffer
  <2>6. CASE SetStillRunning(t) \/ StopWaiting(t)
    BY <2>6 DEF SetStillRunning, StopWaiting
  <2> QED BY <2>1, <2>2, <2>3, <2>4, <2>5, <2>6 DEF DraftThread
<1>6. mainPc \in {"check", "create"} =>
        \A u \in mainI + 1 .. N : u \in Threads /\ u # t
  BY <1>0, <1>1
<1> QED BY <1>1, <1>2, <1>3, <1>4, <1>5, <1>6

\* The block that a thread XORs was in no round and is now in the buffer; an
\* ended file's thread brings none.
LEMMA XorChunkPlaces ==
  ASSUME DraftInOrder, EachBlockOnce, NEW t \in Threads, XorChunk(t)
  PROVE  EachBlockOnce'
<1> USE DEF DraftInOrder, DraftTypeOK, given, mainVars
<1>1. CASE pc[t] = "lockEmpty"
  <2>1. UNCHANGED <<given, chunk, output>>
    BY <1>1 DEF XorChunk
  <2>2. \A u \in Threads : BlocksXored(u)' = BlocksXored(u)
    BY <1>1 DEF XorChunk, BlocksXored
  <2> QED BY <2>1, <2>2, StillPlaced
<1>2. CASE pc[t] = "lock"
  <2>1. PICK b \in Nat : b = blocksRead[t]
    OBVIOUS
  <2>2. /\ 1 <= b /\ b <= input[t].blocks
        /\ input[t].blocks \in Nat
        /\ input' = input /\ output' = output
        /\ chunk' = SymDiff(chunk, {<<t, b>>})
    BY <1>2, <2>1, InputFilesAssumption DEF LockAfterRead, XorChunk, Inputs
  <2>3. BlocksXored(t) = b - 1 /\ BlocksXored(t)' = b
    BY <1>2, <2>1 DEF XorChunk, BlocksXored
  <2>4. \A u \in Threads : u # t => BlocksXored(u)' = BlocksXored(u)
    BY DEF XorChunk, BlocksXored
  <2>5. Len(output) \in Nat /\ b \in 1 .. input[t].blocks
    BY <2>2
  <2> QED BY <2>2, <2>3, <2>4, <2>5, XorPlaces
<1> QED BY <1>1, <1>2 DEF XorChunk

\* What is written is the buffer, whoever was to XOR.
LEMMA WriteChunkPlaces ==
  ASSUME DraftInOrder, EachBlockOnce, NEW t \in Threads,
         WriteChunk(t) \/ WriteLastChunk(t)
  PROVE  EachBlockOnce'
<1> USE DEF DraftInOrder, DraftTypeOK
<1> DEFINE R == [data : SUBSET (Threads \X Nat), size : 0 .. ChunkSize]
           round == [data |-> chunk, size |-> sizeOfChunk]
<1>1. round \in R /\ round.data = chunk /\ output \in Seq(R)
  OBVIOUS
<1>2. output' = Append(output, round) /\ chunk' = {} /\ input' = input
  BY DEF given, mainVars, WriteChunk, WriteLastChunk, WriteBuffer
<1>3. \A u \in Threads : BlocksXored(u)' = BlocksXored(u)
  BY DEF WriteChunk, WriteLastChunk, Release, Loop, BlocksXored
<1> HIDE DEF R, round
<1> QED BY <1>1, <1>2, <1>3, WritePlaces

\* Every step of a draft leaves each block in its one round.
LEMMA DraftBlocksNext ==
  ASSUME DraftInOrder, EachBlockOnce, [DraftNext]_draftVars
  PROVE  DraftInOrder' /\ EachBlockOnce'
<1> USE DEF given
<1>1. CASE DraftMain
  <2>1. /\ DraftInOrder' /\ UNCHANGED <<given, chunk, output, blocksRead>>
        /\ \A t \in Threads :
             pc'[t] = pc[t] \/ (pc[t] = "unborn" /\ pc'[t] = "open")
    BY <1>1, DraftMainStep
  <2>2. \A t \in Threads : BlocksXored(t)' = BlocksXored(t)
    BY <2>1 DEF BlocksXored
  <2> QED BY <2>1, <2>2, StillPlaced
<1>2. ASSUME NEW t \in Threads, DraftThread(t) PROVE DraftInOrder' /\ EachBlockOnce'
  <2>1. DraftInOrder'
    BY <1>2, DraftThreadTypes
  <2>2. CASE XorChunk(t)
    BY <2>1, <2>2, XorChunkPlaces
  <2>3. CASE WriteChunk(t) \/ WriteLastChunk(t)
    BY <2>1, <2>3, WriteChunkPlaces
  <2>4. CASE ~ (XorChunk(t) \/ WriteChunk(t) \/ WriteLastChunk(t))
    <3> USE DEF DraftInOrder, DraftTypeOK, mainVars, sharedVars
    <3>1. UNCHANGED <<given, chunk, output>>
      BY <1>2, <2>4
      DEF DraftThread, OpenOrFail, OpenFile, OpenFileFails, ReadFails, ReadChunk,
          ReadBlock, ReadNothing, LeaveChunk, WriteChunkFails, SetStillRunning,
          StopWaiting
    <3>2. \A u \in Threads : BlocksXored(u)' = BlocksXored(u)
      <4> USE DEF BlocksXored, Loop
      <4>1. CASE OpenOrFail(t)
        BY <4>1 DEF OpenOrFail, OpenFile, OpenFileFails, ReadFails
      <4>2. CASE ReadChunk(t)
        BY <4>2 DEF ReadChunk, ReadBlock
      <4>3. CASE ReadNothing(t)
        BY <4>3 DEF ReadNothing
      <4>4. CASE LeaveChunk(t)
        BY <4>4 DEF LeaveChunk, Release
      <4>5. CASE WriteChunkFails(t)
        BY <4>5 DEF WriteChunkFails
      <4>6. CASE SetStillRunning(t) \/ StopWaiting(t)
        BY <4>6 DEF SetStillRunning, StopWaiting
      <4> QED BY <1>2, <2>4, <4>1, <4>2, <4>3, <4>4, <4>5, <4>6 DEF DraftThread
    <3> QED BY <2>1, <3>1, <3>2, StillPlaced
  <2> QED BY <2>2, <2>3, <2>4
<1>3. CASE UNCHANGED draftVars
  <2>1. DraftInOrder'
    BY <1>3 DEF DraftInOrder, DraftTypeOK, LockAfterRead, draftVars, vars
  <2>2. EachBlockOnce'
    BY <1>3, StillPlaced DEF BlocksXored, draftVars, vars
  <2> QED BY <2>1, <2>2
<1> QED BY <1>1, <1>2, <1>3 DEF DraftNext

-----------------------------------------------------------------------------
(* Theorems.                                                               *)

\* In all four drafts, though none of them keeps to the rounds, no block is
\* lost when the buffer is cleared or XORed twice, for every input, names and
\* faults: the mutex alone sees to it.
THEOREM DraftBlocksConserved == DraftSpec => []EachBlockOnce
<1>1. DraftInit => EachBlockOnce
  BY DEF DraftInit, Init, EachBlockOnce, BlocksXored, Places, IsIn
<1> QED BY <1>1, DraftInOrderInit, DraftBlocksNext, PTL DEF DraftSpec

-----------------------------------------------------------------------------
(* The drafts' main and their last rounds.                                 *)

\* A step of thread t leaves main and the other threads where they are.
LEMMA DraftOthers ==
  ASSUME DraftInOrder, NEW t \in Threads, DraftThread(t)
  PROVE  /\ UNCHANGED <<given, mainPc, mainI, version>>
         /\ pc[t] \notin {"unborn", "exited"}
         /\ \A u \in Threads \ {t} :
              /\ pc'[u] = pc[u] /\ blocksRead'[u] = blocksRead[u]
              /\ fileEnded'[u] = fileEnded[u]
<1> USE DEF DraftInOrder, DraftTypeOK, mainVars, versionVars, Loop
<1>1. CASE OpenOrFail(t)
  BY <1>1 DEF OpenOrFail, OpenFile, OpenFileFails, ReadFails
<1>2. CASE ReadChunk(t)
  BY <1>2 DEF ReadChunk, ReadBlock
<1>3. CASE ReadNothing(t)
  BY <1>3 DEF ReadNothing
<1>4. CASE XorChunk(t)
  BY <1>4 DEF XorChunk
<1>5. CASE LeaveChunk(t)
  BY <1>5 DEF LeaveChunk, Release
<1>6. CASE WriteChunk(t)
  BY <1>6 DEF WriteChunk, Release
<1>7. CASE WriteLastChunk(t) \/ WriteChunkFails(t)
  BY <1>7 DEF WriteLastChunk, WriteChunkFails
<1>8. CASE SetStillRunning(t) \/ StopWaiting(t)
  BY <1>8 DEF SetStillRunning, StopWaiting
<1> QED BY <1>1, <1>2, <1>3, <1>4, <1>5, <1>6, <1>7, <1>8 DEF DraftThread

\* Whoever was joined stays where it is.
LEMMA JoinedNext ==
  ASSUME DraftInOrder, JoinedExited, [DraftNext]_draftVars
  PROVE  JoinedExited'
<1>0. Threads = 1 .. N /\ N \in Nat /\ mainI \in 0 .. N /\ pc \in [Threads -> DraftPcStates]
  BY NAssumption DEF Threads, DraftInOrder, DraftTypeOK
<1>1. ASSUME NEW t \in Threads, DraftThread(t) PROVE JoinedExited'
  <2>1. /\ mainPc' = mainPc /\ mainI' = mainI /\ pc[t] # "exited"
        /\ \A u \in Threads \ {t} : pc'[u] = pc[u]
    BY <1>1, DraftOthers
  <2> QED BY <1>0, <2>1 DEF JoinedExited
<1>2. CASE DraftMain
  <2> USE DEF JoinedExited
  <2>1. CASE SetFlags \/ CheckInputsFails \/ CreateThreadFails
    BY <2>1 DEF SetFlags, CheckInputsFails, CreateThreadFails
  <2>2. CASE CreateThread
    BY <1>0, <2>2 DEF CreateThread
  <2>3. CASE JoinThread
    BY <1>0, <2>3 DEF JoinThread
  <2>4. CASE ReportSize
    BY <2>4 DEF ReportSize
  <2> QED BY <1>2, <2>1, <2>2, <2>3, <2>4 DEF DraftMain
<1>3. CASE UNCHANGED draftVars
  BY <1>3 DEF JoinedExited, draftVars, vars
<1> QED BY <1>1, <1>2, <1>3 DEF DraftNext

\* What main changes: flags before the first thread, and where a thread starts.
LEMMA DraftMainChanges ==
  ASSUME DraftInOrder, DraftMain
  PROVE  /\ UNCHANGED <<given, blocksRead, mutex, sharedVars, versionVars, fileEnded>>
         /\ \A t \in Threads : pc'[t] = pc[t] \/ (pc[t] = "unborn" /\ pc'[t] = "open")
         /\ \/ stillRunning' = stillRunning
            \/ /\ stillRunning' = [t \in Threads |-> version # "tester"]
               /\ \A t \in Threads : pc'[t] = "unborn"
<1>1. \A t \in Threads : pc'[t] = pc[t] \/ (pc[t] = "unborn" /\ pc'[t] = "open")
  BY DraftMainStep
<1>2. CASE SetFlags
  <2>1. mainPc = "check" /\ pc' = pc /\ stillRunning' = [t \in Threads |-> version # "tester"]
    BY <1>2 DEF SetFlags
  <2>2. \A t \in Threads : pc[t] = "unborn"
    BY <2>1, NAssumption DEF DraftInOrder, Threads
  <2> QED BY <1>1, <2>1, <2>2, <1>2 DEF DraftMain, SetFlags
<1>3. CASE ~ SetFlags
  BY <1>1, <1>3 DEF DraftMain, CheckInputsFails, CreateThread, CreateThreadFails,
     JoinThread, ReportSize
<1> QED BY <1>2, <1>3

\* Each thread of hw4Old.c brings its own flag down with its last chunk, and the
\* last of all writes the buffer.
LEMMA OldNext ==
  ASSUME DraftInOrder, OldInOrder, [DraftNext]_draftVars
  PROVE  OldInOrder'
<1> SUFFICES ASSUME version' = "Old", ThreadsSafe'
             PROVE  OldInOrder'
  BY DEF OldInOrder
<1>1. ASSUME NEW t \in Threads, DraftThread(t) PROVE OldInOrder'
  <2>1. /\ UNCHANGED <<given, version>> /\ pc[t] \notin {"unborn", "exited"}
        /\ \A u \in Threads \ {t} :
             /\ pc'[u] = pc[u] /\ blocksRead'[u] = blocksRead[u] /\ fileEnded'[u] = fileEnded[u]
    BY <1>1, DraftOthers
  <2>2. version = "Old" /\ ThreadsSafe /\ nameMatches \in Namings
    BY <2>1 DEF given, ThreadsSafe, UnambiguousNames, DraftInOrder
  <2>3. FindMyIndex(t) = t
    BY <2>2, OwnIndex DEF ThreadsSafe
  <2>4. /\ input \in Inputs /\ \A u \in Threads : input[u].blocks \in Nat
        /\ DraftTypeOK /\ blocksRead \in [Threads -> Nat]
    BY InputFilesAssumption DEF Inputs, DraftInOrder
  <2>5. /\ \A u \in Threads :
             /\ pc[u] \notin {"flag", "spin"}
             /\ fileEnded[u] => blocksRead[u] = input[u].blocks
             /\ pc[u] = "exited" => fileEnded[u]
             /\ pc[u] \in {"decide", "exited"} => (stillRunning[u] <=> ~ fileEnded[u])
             /\ ~ stillRunning[u] => pc[u] \in {"decide", "exited"}
        /\ chunk # {} => \E u \in Threads : stillRunning[u] \/ pc[u] = "decide"
    BY <2>2 DEF OldInOrder
  <2>6. CASE OpenOrFail(t) \/ ReadChunk(t) \/ ReadNothing(t)
    <3>1. /\ UNCHANGED <<stillRunning, chunk, input>> /\ stillRunning[t]
          /\ pc'[t] \in {"read", "lock", "lockEmpty"}
      BY <2>2, <2>4, <2>5, <2>6
      DEF OpenOrFail, OpenFile, OpenFileFails, ReadFails, ThreadsSafe, ReadChunk, ReadBlock,
          ReadNothing, DraftTypeOK, sharedVars, mainVars, given
    <3>2. fileEnded'[t] => blocksRead'[t] = input[t].blocks
      <4>1. CASE OpenOrFail(t) \/ ReadNothing(t)
        BY <2>2, <2>4, <2>5, <4>1
        DEF OpenOrFail, OpenFile, OpenFileFails, ReadFails, ThreadsSafe, ReadNothing,
            DraftTypeOK
      <4>2. CASE ReadChunk(t)
        <5> DEFINE n == BlockSize(input, t, blocksRead[t] + 1)
        <5>1. fileEnded' = [fileEnded EXCEPT ![t] = EndsFile(n)]
          BY <4>2 DEF ReadChunk
        <5>2. /\ blocksRead[t] + 1 <= input[t].blocks /\ blocksRead'[t] = blocksRead[t] + 1
          BY <2>4, <4>2 DEF ReadChunk, ReadBlock
        <5>3. n < ChunkSize => blocksRead[t] + 1 = input[t].blocks
          BY <2>4, <5>2, ChunkSizeAssumption DEF BlockSize
        <5> HIDE DEF n
        <5>4. fileEnded'[t] <=> n < ChunkSize
          BY <2>2, <2>4, <5>1 DEF EndsFile, DraftTypeOK
        <5> QED BY <5>2, <5>3, <5>4
      <4> QED BY <2>6, <4>1, <4>2
    <3>3. \A u \in Threads : stillRunning[u] \/ pc[u] = "decide" =>
            stillRunning'[u] \/ pc'[u] = "decide"
      BY <2>1, <3>1
    <3> QED BY <2>1, <2>5, <3>1, <3>2, <3>3 DEF OldInOrder
  <2>7. CASE XorChunk(t)
    <3>1. /\ pc'[t] = "decide" /\ UNCHANGED <<fileEnded, blocksRead, input>>
          /\ stillRunning' = [stillRunning EXCEPT ![t] = ~ fileEnded[t]]
      BY <2>2, <2>3, <2>4, <2>7 DEF XorChunk, DraftTypeOK, mainVars, given
    <3>2. /\ stillRunning'[t] <=> ~ fileEnded[t]
          /\ \A u \in Threads \ {t} : stillRunning'[u] = stillRunning[u]
      BY <2>4, <3>1 DEF DraftTypeOK
    <3> QED BY <2>1, <2>5, <3>1, <3>2 DEF OldInOrder
  <2>8. CASE LeaveChunk(t) \/ WriteChunk(t)
    <3>1. /\ UNCHANGED <<fileEnded, blocksRead, input, stillRunning>> /\ pc[t] = "decide"
          /\ pc'[t] = IF fileEnded[t] THEN "exited" ELSE "read"
          /\ chunk' = {} \/ (chunk' = chunk /\ ~ AllXored)
      BY <2>2, <2>4, <2>8 DEF LeaveChunk, WriteChunk, WriteBuffer, Release, Loop, DraftTypeOK,
         mainVars, given, sharedVars
    <3>2. ~ AllXored => \E u \in Threads : stillRunning[u]
      BY <2>2 DEF AllXored
    <3>3. chunk' # {} => \E u \in Threads : stillRunning'[u] \/ pc'[u] = "decide"
      BY <3>1, <3>2
    <3> QED BY <2>1, <2>5, <3>1, <3>3 DEF OldInOrder
  <2>9. CASE WriteLastChunk(t)
    <3>1. /\ UNCHANGED <<fileEnded, blocksRead, input, stillRunning>> /\ pc[t] = "decide"
          /\ pc'[t] = "exited" /\ chunk' = {} /\ ~ stillRunning[t]
      BY <2>4, <2>9 DEF WriteLastChunk, WriteBuffer, AllEnded, DraftTypeOK, mainVars, given
    <3> QED BY <2>1, <2>5, <3>1 DEF OldInOrder
  <2>10. ~ WriteChunkFails(t) /\ ~ SetStillRunning(t) /\ ~ StopWaiting(t)
    BY <2>2, <2>5 DEF WriteChunkFails, SetStillRunning, StopWaiting, ThreadsSafe
  <2> QED BY <1>1, <2>6, <2>7, <2>8, <2>9, <2>10 DEF DraftThread
<1>2. CASE DraftMain
  <2>1. /\ UNCHANGED <<given, blocksRead, chunk, version, fileEnded>>
        /\ \A t \in Threads : pc'[t] = pc[t] \/ (pc[t] = "unborn" /\ pc'[t] = "open")
        /\ \/ stillRunning' = stillRunning
           \/ /\ stillRunning' = [t \in Threads |-> version # "tester"]
              /\ \A t \in Threads : pc'[t] = "unborn"
    BY <1>2, DraftMainChanges DEF sharedVars, versionVars
  <2>2. version = "Old" /\ ThreadsSafe
    BY <2>1 DEF given, ThreadsSafe, UnambiguousNames
  <2>3. CASE stillRunning' = stillRunning
    BY <2>1, <2>2, <2>3 DEF OldInOrder, given
  <2>4. CASE /\ stillRunning' = [t \in Threads |-> version # "tester"]
             /\ \A t \in Threads : pc'[t] = "unborn"
    <3>1. \A t \in Threads : stillRunning'[t] = (version # "tester")
      BY <2>4, Zenon
    <3>2. \A t \in Threads : stillRunning'[t]
      BY <2>2, <3>1
    <3>3. 1 \in Threads
      BY NAssumption DEF Threads
    <3> QED BY <2>1, <2>2, <2>4, <3>2, <3>3 DEF OldInOrder, given
  <2> QED BY <2>1, <2>3, <2>4
<1>3. CASE UNCHANGED draftVars
  <2>1. version = "Old" /\ ThreadsSafe
    BY <1>3 DEF given, ThreadsSafe, UnambiguousNames, draftVars, vars
  <2> QED BY <1>3, <2>1 DEF OldInOrder, draftVars, vars, given
<1> QED BY <1>1, <1>2, <1>3 DEF DraftNext

\* Files below a chunk have at most one block.
LEMMA SmallBlocks ==
  ASSUME input \in Inputs, SmallFiles, NEW t \in Threads
  PROVE  /\ input[t].blocks \in {0, 1}
         /\ BlockSize(input, t, 1) \in 1 .. ChunkSize
         /\ input[t].blocks = 1 => BlockSize(input, t, 1) < ChunkSize
         /\ FileSize(input, t) = IF input[t].blocks = 0 THEN 0 ELSE BlockSize(input, t, 1)
<1> DEFINE b == input[t].blocks  l == input[t].last
<1>1. b \in Nat /\ l \in 1 .. ChunkSize /\ ChunkSize \in Nat /\ ChunkSize >= 1
  BY ChunkSizeAssumption DEF Inputs
<1>2. (IF b = 0 THEN 0 ELSE (b - 1) * ChunkSize + l) < ChunkSize
  BY DEF SmallFiles, FileSize
<1>3. b <= 1
  <2> SUFFICES ASSUME b >= 2 PROVE FALSE
    BY <1>1
  <2>1. 1 * ChunkSize <= (b - 1) * ChunkSize
    <3>1. 1 \in Nat /\ b - 1 \in Nat /\ 1 <= b - 1 /\ ChunkSize \in Nat
      BY <1>1
    <3> HIDE DEF b
    <3> QED BY <3>1, ProductMonotonic
  <2>2. (b - 1) * ChunkSize + l < ChunkSize
    BY <1>1, <1>2
  <2>3. (b - 1) * ChunkSize \in Nat
    BY <1>1
  <2> HIDE DEF b, l
  <2> QED BY <1>1, <2>1, <2>2, <2>3
<1>4. BlockSize(input, t, 1) \in 1 .. ChunkSize
  BY BlockSizeBounds
<1>5. b = 1 => FileSize(input, t) = l /\ BlockSize(input, t, 1) = l
  BY <1>1 DEF FileSize, BlockSize
<1>6. b = 0 => FileSize(input, t) = 0
  BY DEF FileSize
<1>7. FileSize(input, t) < ChunkSize
  BY DEF SmallFiles
<1> QED BY <1>1, <1>3, <1>4, <1>5, <1>6, <1>7

\* The rest of the state that the last of the first round finds.
SmallState == DraftInOrder /\ ThreadsSafe /\ SmallFiles /\ SmallInOrder

\* A step of t that is no XOR and no write, before anything is written.
LEMMA FirstRoundStays ==
  ASSUME SmallState, output = << >>, NEW t \in Threads, DraftThread(t),
         UNCHANGED <<chunk, sizeOfChunk, sizeOfFile, finishedXoring>>,
         HasXored(t)' <=> HasXored(t),
         HasXored(t) \/ stillRunning'[t] \/ version = "tester",
         \A u \in Threads \ {t} : stillRunning'[u] = stillRunning[u],
         blocksRead'[t] = IF pc'[t] \in {"unborn", "open", "read"} THEN 0 ELSE input[t].blocks,
         pc'[t] = "lockEmpty" => input[t].blocks = 0,
         version # "WithoutPrints" /\ pc'[t] \in {"lock", "lockEmpty", "decide", "flag"}
           => fileEnded'[t],
         pc[t] = "decide" => ~ \A u \in Threads : HasXored(u)
  PROVE  FirstRound'
<1>1. FirstRound
  BY DEF SmallState, SmallInOrder
<1>2. /\ UNCHANGED <<input, version>>
      /\ \A u \in Threads \ {t} :
           pc'[u] = pc[u] /\ blocksRead'[u] = blocksRead[u] /\ fileEnded'[u] = fileEnded[u]
  BY DraftOthers DEF SmallState, given
<1>3. \A u \in Threads : HasXored(u)' <=> HasXored(u)
  BY <1>2 DEF HasXored
<1>4. Buffered' = Buffered
  BY <1>2, <1>3 DEF Buffered
<1>5. \A u \in Threads : BlockSize(input, u, 1)' = BlockSize(input, u, 1)
  BY <1>2 DEF BlockSize
<1>6. /\ chunk' = {<<u, 1>> : u \in Buffered'}
      /\ \A u \in Buffered' : BlockSize(input, u, 1)' <= sizeOfChunk'
      /\ sizeOfChunk' = 0 \/ \E u \in Buffered' : sizeOfChunk' = BlockSize(input, u, 1)'
      /\ sizeOfFile' = 0
  BY <1>1, <1>4, <1>5 DEF FirstRound, Buffered
<1>7. (\A u \in Threads : HasXored(u)') => \E u \in Threads : pc'[u] = "decide"
  BY <1>1, <1>2, <1>3 DEF FirstRound
<1>8. \A u \in Threads :
       /\ finishedXoring'[u] <=> HasXored(u)'
       /\ HasXored(u)' \/ stillRunning'[u] \/ version' = "tester"
       /\ blocksRead'[u] = IF pc'[u] \in {"unborn", "open", "read"}
                           THEN 0 ELSE input'[u].blocks
       /\ pc'[u] = "lockEmpty" => input'[u].blocks = 0
       /\ version' # "WithoutPrints" /\ pc'[u] \in {"lock", "lockEmpty", "decide", "flag"}
            => fileEnded'[u]
  <2> SUFFICES ASSUME NEW u \in Threads
               PROVE  /\ finishedXoring'[u] <=> HasXored(u)'
                      /\ HasXored(u)' \/ stillRunning'[u] \/ version' = "tester"
                      /\ blocksRead'[u] = IF pc'[u] \in {"unborn", "open", "read"}
                                          THEN 0 ELSE input'[u].blocks
                      /\ pc'[u] = "lockEmpty" => input'[u].blocks = 0
                      /\ version' # "WithoutPrints"
                         /\ pc'[u] \in {"lock", "lockEmpty", "decide", "flag"} => fileEnded'[u]
    OBVIOUS
  <2>1. CASE u = t
    BY <1>1, <1>2, <1>3, <2>1 DEF FirstRound
  <2>2. CASE u # t
    BY <1>1, <1>2, <1>3, <2>2 DEF FirstRound
  <2> QED BY <2>1, <2>2
<1> QED BY <1>6, <1>7, <1>8 DEF FirstRound

\* What the steps of SmallNext have in common.
LEMMA SmallFacts ==
  ASSUME SmallState, NEW t \in Threads, DraftThread(t)
  PROVE  /\ FindMyIndex(t) = t
         /\ UNCHANGED <<given, version>>
         /\ ThreadsSafe' /\ SmallFiles'
         /\ version \in {"tester", "Old", "Old2", "WithoutPrints"}
         /\ input \in Inputs /\ input[t].blocks \in {0, 1}
         /\ ~ OpenFileFails(t) /\ ~ ReadFails(t) /\ ~ WriteChunkFails(t)
         /\ pc[t] \notin {"unborn", "exited"}
         /\ \A u \in Threads \ {t} :
              /\ pc'[u] = pc[u] /\ blocksRead'[u] = blocksRead[u]
              /\ fileEnded'[u] = fileEnded[u]
<1> USE DEF SmallState
<1>1. FindMyIndex(t) = t
  BY OwnIndex DEF ThreadsSafe, DraftInOrder
<1>2. /\ UNCHANGED <<given, version>> /\ pc[t] \notin {"unborn", "exited"}
      /\ \A u \in Threads \ {t} :
           /\ pc'[u] = pc[u] /\ blocksRead'[u] = blocksRead[u]
           /\ fileEnded'[u] = fileEnded[u]
  BY DraftOthers
<1>3. ThreadsSafe' /\ SmallFiles'
  BY <1>2 DEF ThreadsSafe, UnambiguousNames, SmallFiles, FileSize, given
<1>4. version \in {"tester", "Old", "Old2", "WithoutPrints"} /\ input \in Inputs
  BY VersionsAssumption, InputFilesAssumption DEF DraftInOrder, DraftTypeOK
<1>5. input[t].blocks \in {0, 1}
  BY <1>4, SmallBlocks
<1>6. ~ OpenFileFails(t) /\ ~ ReadFails(t) /\ ~ WriteChunkFails(t)
  BY DEF ThreadsSafe, OpenFileFails, ReadFails, WriteChunkFails
<1> QED BY <1>1, <1>2, <1>3, <1>4, <1>5, <1>6

\* The two facts beside the rounds.
SmallWaits ==
  /\ WaitForWriteToBeFinished <=> version = "WithoutPrints" /\ output = << >>
  /\ \A t \in Threads : /\ pc[t] = "flag" => version = "Old2"
                        /\ pc[t] = "spin" => version = "WithoutPrints"

\* The busy wait lasts until the first write.
LEMMA SmallWaitsNext ==
  ASSUME SmallState, NEW t \in Threads, DraftThread(t)
  PROVE  SmallWaits'
<1>0. DraftTypeOK /\ output \in Seq([data : SUBSET (Threads \X Nat), size : 0 .. ChunkSize])
  BY DEF SmallState, DraftInOrder
<1>1. SmallWaits
  BY DEF SmallState, SmallInOrder, SmallWaits
<1>2. version' = version /\ \A u \in Threads \ {t} : pc'[u] = pc[u]
  BY SmallFacts
<1>3. WaitForWriteToBeFinished' <=> version' = "WithoutPrints" /\ output' = << >>
  <2>1. CASE WriteChunk(t) \/ WriteLastChunk(t)
    <3>1. output' = Append(output, [data |-> chunk, size |-> sizeOfChunk])
          /\ ~ WaitForWriteToBeFinished'
      BY <2>1 DEF WriteChunk, WriteLastChunk, WriteBuffer
    <3> DEFINE R == [data : SUBSET (Threads \X Nat), size : 0 .. ChunkSize]
               round == [data |-> chunk, size |-> sizeOfChunk]
    <3>2. output \in Seq(R) /\ round \in R
      BY <1>0 DEF DraftTypeOK
    <3> HIDE DEF R, round
    <3>3. Len(Append(output, round)) = Len(output) + 1 /\ Len(output) \in Nat
      BY <3>2
    <3>4. Len(output') # 0
      BY <3>1, <3>3 DEF round
    <3> QED BY <3>1, <3>4
  <2>2. CASE ~ (WriteChunk(t) \/ WriteLastChunk(t))
    <3>1. UNCHANGED <<output, WaitForWriteToBeFinished>>
      BY <2>2 DEF DraftThread, OpenOrFail, OpenFile, OpenFileFails, ReadFails, ReadChunk,
         ReadBlock, ReadNothing, XorChunk, LeaveChunk, WriteChunkFails, SetStillRunning,
         StopWaiting, sharedVars, versionVars
    <3> QED BY <1>1, <1>2, <3>1 DEF SmallWaits
  <2> QED BY <2>1, <2>2
<1>4. /\ pc'[t] = "flag" => version = "Old2"
      /\ pc'[t] = "spin" => version = "WithoutPrints"
  <2> USE DEF DraftTypeOK, Loop
  <2>1. CASE OpenOrFail(t)
    BY <1>0, <2>1 DEF OpenOrFail, OpenFile, OpenFileFails, ReadFails
  <2>2. CASE ReadChunk(t) \/ ReadNothing(t) \/ XorChunk(t)
    BY <1>0, <2>2 DEF ReadChunk, ReadBlock, ReadNothing, XorChunk
  <2>3. CASE LeaveChunk(t) \/ WriteChunk(t)
    BY <1>0, <2>3 DEF LeaveChunk, WriteChunk, Release
  <2>4. CASE WriteLastChunk(t) \/ WriteChunkFails(t) \/ SetStillRunning(t) \/ StopWaiting(t)
    BY <1>0, <2>4 DEF WriteLastChunk, WriteChunkFails, SetStillRunning, StopWaiting
  <2> QED BY <2>1, <2>2, <2>3, <2>4 DEF DraftThread
<1>5. \A u \in Threads : /\ pc'[u] = "flag" => version' = "Old2"
                         /\ pc'[u] = "spin" => version' = "WithoutPrints"
  BY <1>1, <1>2, <1>4 DEF SmallWaits
<1> QED BY <1>3, <1>5 DEF SmallWaits

\* Before the first write, threads open and read, leave the round to the others
\* and set their flags.
LEMMA FirstMoves ==
  ASSUME SmallState, output = << >>, NEW t \in Threads, DraftThread(t),
         ~ XorChunk(t), ~ WriteChunk(t), ~ WriteLastChunk(t)
  PROVE  FirstRound' /\ output' = << >>
<1>0. DraftTypeOK /\ blocksRead \in [Threads -> Nat] /\ LockAfterRead
  BY DEF SmallState, DraftInOrder
<1>1. /\ FindMyIndex(t) = t
      /\ version \in {"tester", "Old", "Old2", "WithoutPrints"}
      /\ input[t].blocks \in {0, 1}
      /\ ~ OpenFileFails(t) /\ ~ ReadFails(t) /\ ~ WriteChunkFails(t)
  BY SmallFacts
<1>2. FirstRound /\ (WaitForWriteToBeFinished <=> version = "WithoutPrints")
      /\ (pc[t] = "flag" => version = "Old2") /\ (pc[t] = "spin" => version = "WithoutPrints")
  BY DEF SmallState, SmallInOrder
<1>3. /\ finishedXoring[t] <=> HasXored(t)
      /\ HasXored(t) \/ stillRunning[t] \/ version = "tester"
      /\ blocksRead[t] = IF pc[t] \in {"unborn", "open", "read"} THEN 0 ELSE input[t].blocks
      /\ pc[t] = "lockEmpty" => input[t].blocks = 0
      /\ version # "WithoutPrints" /\ pc[t] \in {"lock", "lockEmpty", "decide", "flag"}
           => fileEnded[t]
  BY <1>2 DEF FirstRound
<1>4. UNCHANGED <<chunk, sizeOfChunk, sizeOfFile, finishedXoring, output>>
  BY DEF DraftThread, OpenOrFail, OpenFile, OpenFileFails, ReadFails, ReadChunk,
     ReadBlock, ReadNothing, LeaveChunk, WriteChunkFails, SetStillRunning,
     StopWaiting, sharedVars
<1> DEFINE Moved ==
      /\ HasXored(t)' <=> HasXored(t)
      /\ HasXored(t) \/ stillRunning'[t] \/ version = "tester"
      /\ \A u \in Threads \ {t} : stillRunning'[u] = stillRunning[u]
      /\ blocksRead'[t] = IF pc'[t] \in {"unborn", "open", "read"}
                          THEN 0 ELSE input[t].blocks
      /\ pc'[t] = "lockEmpty" => input[t].blocks = 0
      /\ version # "WithoutPrints" /\ pc'[t] \in {"lock", "lockEmpty", "decide", "flag"}
           => fileEnded'[t]
      /\ pc[t] = "decide" => ~ \A u \in Threads : HasXored(u)
<1>5. CASE OpenFile(t)
  <2>1. /\ pc[t] = "open" /\ pc'[t] = "read"
        /\ UNCHANGED <<stillRunning, blocksRead>>
    BY <1>0, <1>5 DEF OpenFile, DraftTypeOK
  <2>2. Moved
    BY <1>3, <2>1 DEF HasXored
  <2> QED BY <1>4, <2>2, FirstRoundStays
<1>6. CASE ReadChunk(t)
  <2>1. /\ pc[t] = "read" /\ pc'[t] = "lock"
        /\ stillRunning' = stillRunning
        /\ blocksRead'[t] = blocksRead[t] + 1 /\ blocksRead[t] < input[t].blocks
    BY <1>0, <1>6 DEF ReadChunk, ReadBlock, DraftTypeOK
  <2>2. blocksRead[t] = 0 /\ blocksRead'[t] = 1 /\ input[t].blocks = 1
    BY <1>1, <1>3, <2>1
  <2>3. BlockSize(input, t, 1) < ChunkSize
    BY <1>1, <2>2, SmallBlocks, SmallFacts DEF SmallState
  <2> DEFINE n == BlockSize(input, t, blocksRead[t] + 1)
  <2>4. fileEnded' = [fileEnded EXCEPT ![t] = EndsFile(n)] /\ n = BlockSize(input, t, 1)
    BY <1>6, <2>2 DEF ReadChunk
  <2> HIDE DEF n
  <2>5. version # "WithoutPrints" => fileEnded'[t]
    BY <1>0, <2>3, <2>4 DEF EndsFile, DraftTypeOK
  <2>6. Moved
    BY <1>3, <2>1, <2>2, <2>5 DEF HasXored
  <2> QED BY <1>4, <2>6, FirstRoundStays
<1>7. CASE ReadNothing(t)
  <2>1. /\ pc[t] = "read" /\ pc'[t] = "lockEmpty"
        /\ UNCHANGED <<stillRunning, blocksRead>>
        /\ fileEnded'[t] /\ blocksRead[t] = input[t].blocks
    BY <1>0, <1>7 DEF ReadNothing, DraftTypeOK
  <2>2. Moved
    BY <1>3, <2>1 DEF HasXored
  <2> QED BY <1>4, <2>2, FirstRoundStays
<1>8. CASE LeaveChunk(t)
  <2>1. /\ pc[t] = "decide" /\ ~ AllXored /\ Release(t)
        /\ UNCHANGED <<blocksRead, fileEnded>>
    BY <1>8 DEF LeaveChunk
  <2>2. PICK i \in Threads : ~ finishedXoring[i]
    BY <2>1 DEF AllXored
  <2>3. ~ HasXored(i)
    BY <1>2, <2>2 DEF FirstRound
  <2>4. /\ pc'[t] \in {"flag", "spin", "exited"}
        /\ pc'[t] = "flag" => version = "Old2"
    BY <1>0, <1>1, <1>3, <2>1 DEF Release, Loop, DraftTypeOK
  <2>5. \A u \in Threads \ {t} : stillRunning'[u] = stillRunning[u]
    BY <1>0, <1>1, <2>1 DEF Release, DraftTypeOK
  <2>6. blocksRead'[t] = IF pc'[t] \in {"unborn", "open", "read"}
                         THEN 0 ELSE input[t].blocks
    BY <1>3, <2>1, <2>4
  <2>7. Moved
    BY <1>3, <2>1, <2>3, <2>4, <2>5, <2>6 DEF HasXored
  <2> QED BY <1>4, <2>7, FirstRoundStays
<1>9. CASE SetStillRunning(t)
  <2>1. /\ pc[t] = "flag" /\ fileEnded[t]
        /\ stillRunning' = [stillRunning EXCEPT ![t] = ~ fileEnded[t]]
        /\ pc' = Loop(t) /\ UNCHANGED <<blocksRead, fileEnded>>
    BY <1>1, <1>2, <1>3, <1>9 DEF SetStillRunning
  <2>2. pc'[t] = "exited"
    BY <1>0, <2>1 DEF Loop, DraftTypeOK
  <2>3. \A u \in Threads \ {t} : stillRunning'[u] = stillRunning[u]
    BY <1>0, <2>1 DEF DraftTypeOK
  <2>4. Moved
    BY <1>3, <2>1, <2>2, <2>3 DEF HasXored
  <2> QED BY <1>4, <2>4, FirstRoundStays
<1>10. ~ StopWaiting(t)
  BY <1>2 DEF StopWaiting
<1> QED BY <1>1, <1>5, <1>6, <1>7, <1>8, <1>9, <1>10 DEF DraftThread, OpenOrFail

\* A thread's only chunk, or nothing, joins the buffer.
LEMMA FirstXor ==
  ASSUME SmallState, output = << >>, NEW t \in Threads, XorChunk(t), mainPc # "failed"
  PROVE  FirstRound' /\ output' = << >>
<1>0. /\ DraftTypeOK /\ blocksRead \in [Threads -> Nat] /\ LockAfterRead
      /\ DraftThread(t)
  BY DEF SmallState, DraftInOrder, DraftThread
<1>1. /\ FindMyIndex(t) = t
      /\ UNCHANGED <<input, version>>
      /\ input \in Inputs /\ input[t].blocks \in {0, 1}
      /\ \A u \in Threads \ {t} :
           pc'[u] = pc[u] /\ blocksRead'[u] = blocksRead[u] /\ fileEnded'[u] = fileEnded[u]
  BY <1>0, SmallFacts DEF given
<1>2. FirstRound
  BY DEF SmallState, SmallInOrder
<1>3. /\ pc[t] \in {"lock", "lockEmpty"} /\ pc'[t] = "decide"
      /\ UNCHANGED <<blocksRead, sizeOfFile, output, fileEnded>>
      /\ finishedXoring'[t] = TRUE
      /\ \A u \in Threads \ {t} :
           finishedXoring'[u] = finishedXoring[u] /\ stillRunning'[u] = stillRunning[u]
  BY <1>0, <1>1 DEF XorChunk, DraftTypeOK
<1>4. /\ HasXored(t)' /\ ~ HasXored(t)
      /\ \A u \in Threads \ {t} : HasXored(u)' <=> HasXored(u)
  BY <1>1, <1>3 DEF HasXored
<1>5. \A u \in Threads : BlockSize(input, u, 1)' = BlockSize(input, u, 1)
  BY <1>1 DEF BlockSize
<1> DEFINE n == BlockSize(input, t, 1)
<1>6. /\ chunk' = {<<u, 1>> : u \in Buffered'}
      /\ \A u \in Buffered' : BlockSize(input, u, 1) <= sizeOfChunk'
      /\ sizeOfChunk' = 0 \/ \E u \in Buffered' : sizeOfChunk' = BlockSize(input, u, 1)
  <2>1. CASE pc[t] = "lock"
    <3>1. blocksRead[t] = 1 /\ input[t].blocks = 1
      BY <1>0, <1>1, <1>2, <2>1 DEF FirstRound, LockAfterRead
    <3>2. Buffered' = Buffered \cup {t} /\ t \notin Buffered
      BY <1>1, <1>4, <3>1 DEF Buffered
    <3>3. /\ chunk' = SymDiff(chunk, {<<t, 1>>})
          /\ sizeOfChunk' = IF sizeOfChunk < n THEN n ELSE sizeOfChunk
      BY <2>1, <3>1 DEF XorChunk, ChunkGrownTo
    <3>4. chunk = {<<u, 1>> : u \in Buffered}
      BY <1>2 DEF FirstRound
    <3>5. chunk' = {<<u, 1>> : u \in Buffered'}
      BY <3>2, <3>3, <3>4 DEF SymDiff
    <3>6. /\ \A u \in Threads : BlockSize(input, u, 1) \in Nat
          /\ sizeOfChunk \in Nat /\ n \in Nat
      <4>1. \A u \in Threads : BlockSize(input, u, 1) \in 1 .. ChunkSize
        BY <1>1, SmallBlocks DEF SmallState
      <4> QED BY <1>0, <4>1, ChunkSizeAssumption DEF DraftTypeOK
    <3>7. /\ \A u \in Buffered : u \in Threads /\ BlockSize(input, u, 1) <= sizeOfChunk
          /\ sizeOfChunk = 0 \/ \E u \in Buffered : sizeOfChunk = BlockSize(input, u, 1)
      BY <1>2 DEF FirstRound, Buffered
    <3>8. \A u \in Buffered' : BlockSize(input, u, 1) <= sizeOfChunk'
      <4>1. sizeOfChunk <= sizeOfChunk' /\ n <= sizeOfChunk' /\ sizeOfChunk' \in Nat
        BY <3>3, <3>6
      <4> SUFFICES ASSUME NEW u \in Buffered' PROVE BlockSize(input, u, 1) <= sizeOfChunk'
        OBVIOUS
      <4>2. CASE u = t
        BY <4>1, <4>2
      <4>3. CASE u # t
        <5>1. u \in Threads /\ BlockSize(input, u, 1) <= sizeOfChunk
          BY <3>2, <3>7, <4>3
        <5>2. BlockSize(input, u, 1) \in Nat
          BY <3>6, <5>1
        <5> QED BY <3>6, <4>1, <5>1, <5>2
      <4> QED BY <4>2, <4>3
    <3>9. sizeOfChunk' = 0 \/ \E u \in Buffered' : sizeOfChunk' = BlockSize(input, u, 1)
      BY <3>2, <3>3, <3>7
    <3> QED BY <3>5, <3>8, <3>9
  <2>2. CASE pc[t] = "lockEmpty"
    <3>1. input[t].blocks = 0
      BY <1>2, <2>2 DEF FirstRound
    <3>2. Buffered' = Buffered
      BY <1>1, <1>4, <3>1 DEF Buffered
    <3>3. UNCHANGED <<chunk, sizeOfChunk>>
      BY <2>2 DEF XorChunk
    <3> QED BY <1>2, <3>2, <3>3 DEF FirstRound
  <2> QED BY <1>3, <2>1, <2>2
<1>7. \A u \in Threads :
       /\ finishedXoring'[u] <=> HasXored(u)'
       /\ HasXored(u)' \/ stillRunning'[u] \/ version' = "tester"
       /\ blocksRead'[u] = IF pc'[u] \in {"unborn", "open", "read"}
                           THEN 0 ELSE input'[u].blocks
       /\ pc'[u] = "lockEmpty" => input'[u].blocks = 0
       /\ version' # "WithoutPrints" /\ pc'[u] \in {"lock", "lockEmpty", "decide", "flag"}
            => fileEnded'[u]
  <2> SUFFICES ASSUME NEW u \in Threads
               PROVE  /\ finishedXoring'[u] <=> HasXored(u)'
                      /\ HasXored(u)' \/ stillRunning'[u] \/ version' = "tester"
                      /\ blocksRead'[u] = IF pc'[u] \in {"unborn", "open", "read"}
                                          THEN 0 ELSE input'[u].blocks
                      /\ pc'[u] = "lockEmpty" => input'[u].blocks = 0
                      /\ version' # "WithoutPrints"
                         /\ pc'[u] \in {"lock", "lockEmpty", "decide", "flag"} => fileEnded'[u]
    OBVIOUS
  <2>1. CASE u = t
    <3>1. /\ blocksRead[t] = input[t].blocks
          /\ version # "WithoutPrints" => fileEnded[t]
      BY <1>2, <1>3 DEF FirstRound
    <3> QED BY <1>1, <1>3, <1>4, <2>1, <3>1
  <2>2. CASE u # t
    BY <1>1, <1>2, <1>3, <1>4, <2>2 DEF FirstRound
  <2> QED BY <2>1, <2>2
<1>8. sizeOfFile' = 0 /\ \E u \in Threads : pc'[u] = "decide"
  BY <1>2, <1>3 DEF FirstRound
<1>9. /\ \A u \in Buffered' : BlockSize(input, u, 1)' <= sizeOfChunk'
      /\ sizeOfChunk' = 0 \/ \E u \in Buffered' : sizeOfChunk' = BlockSize(input, u, 1)'
  BY <1>5, <1>6 DEF Buffered
<1> HIDE DEF n
<1> QED BY <1>3, <1>6, <1>7, <1>8, <1>9 DEF FirstRound

\* The buffer of the first round has every file in it.
LEMMA FirstRoundWhole ==
  ASSUME SmallState, output = << >>, AllXored
  PROVE  /\ \A u \in Threads : HasXored(u)
         /\ chunk = RoundData(input, 1)
         /\ IsOutputSize(input, sizeOfChunk)
<1>1. FirstRound /\ input \in Inputs /\ SmallFiles
  BY InputFilesAssumption DEF SmallState, SmallInOrder, DraftInOrder
<1>2. \A u \in Threads : HasXored(u)
  BY <1>1 DEF FirstRound, AllXored
<1>3. \A u \in Threads :
        /\ input[u].blocks \in {0, 1}
        /\ BlockSize(input, u, 1) \in 1 .. ChunkSize
        /\ FileSize(input, u) = IF input[u].blocks = 0 THEN 0 ELSE BlockSize(input, u, 1)
  BY <1>1, SmallBlocks
<1>4. Buffered = Holders(input, 1)
  BY <1>2, <1>3 DEF Buffered, Holders
<1>5. chunk = RoundData(input, 1)
  BY <1>1, <1>4 DEF FirstRound, RoundData
<1>6. \A u \in Threads : u \in Buffered <=> input[u].blocks = 1
  BY <1>2 DEF Buffered
<1>7. sizeOfChunk \in Nat
  BY ChunkSizeAssumption DEF SmallState, DraftInOrder, DraftTypeOK
<1>8. \A u \in Threads : FileSize(input, u) <= sizeOfChunk
  <2> SUFFICES ASSUME NEW u \in Threads PROVE FileSize(input, u) <= sizeOfChunk
    OBVIOUS
  <2>1. CASE u \in Buffered
    BY <1>1, <1>3, <1>6, <2>1 DEF FirstRound
  <2>2. CASE u \notin Buffered
    BY <1>3, <1>6, <1>7, <2>2
  <2> QED BY <2>1, <2>2
<1>9. \E u \in Threads : sizeOfChunk = FileSize(input, u)
  <2>1. CASE sizeOfChunk = 0
    <3>1. \A u \in Threads : u \notin Buffered
      <4> SUFFICES ASSUME NEW u \in Threads, u \in Buffered PROVE FALSE
        OBVIOUS
      <4>1. BlockSize(input, u, 1) <= sizeOfChunk
        BY <1>1 DEF FirstRound
      <4> QED BY <1>3, <2>1, <4>1, ChunkSizeAssumption
    <3>2. 1 \in Threads
      BY NAssumption DEF Threads
    <3> QED BY <1>3, <1>6, <2>1, <3>1, <3>2
  <2>2. CASE sizeOfChunk # 0
    <3>1. PICK u \in Buffered : sizeOfChunk = BlockSize(input, u, 1)
      BY <1>1, <2>2 DEF FirstRound
    <3>2. u \in Threads
      BY DEF Buffered
    <3> QED BY <1>3, <1>6, <3>1, <3>2
  <2> QED BY <2>1, <2>2
<1> QED BY <1>2, <1>5, <1>8, <1>9 DEF IsOutputSize

\* Where a writer goes on, and what it leaves alone.
LEMMA WriterMoves ==
  ASSUME DraftTypeOK, NEW t \in Threads, WriteChunk(t) \/ WriteLastChunk(t)
  PROVE  /\ AllXored /\ pc[t] = "decide" /\ pc'[t] \in {"flag", "spin", "exited", "read"}
         /\ \A u \in Threads \ {t} : pc'[u] = pc[u]
         /\ UNCHANGED <<input, blocksRead>>
         /\ output' = Append(output, [data |-> chunk, size |-> sizeOfChunk])
         /\ sizeOfFile' = sizeOfFile + sizeOfChunk
         /\ chunk' = {} /\ sizeOfChunk' = 0
<1>1. CASE WriteChunk(t)
  BY <1>1 DEF WriteChunk, WriteBuffer, Release, Loop, DraftTypeOK, mainVars, given
<1>2. CASE WriteLastChunk(t)
  BY <1>2 DEF WriteLastChunk, WriteBuffer, DraftTypeOK, mainVars, given
<1> QED BY <1>1, <1>2

\* The thread that finds the first round complete writes all of it.
LEMMA FirstWrite ==
  ASSUME SmallState, output = << >>, NEW t \in Threads, DraftThread(t),
         WriteChunk(t) \/ WriteLastChunk(t)
  PROVE  LaterRounds' /\ output' # << >>
<1>0. DraftTypeOK /\ FirstRound
  BY DEF SmallState, DraftInOrder, SmallInOrder
<1>1. /\ AllXored /\ pc'[t] \in {"flag", "spin", "exited", "read"}
      /\ \A u \in Threads \ {t} : pc'[u] = pc[u]
      /\ UNCHANGED <<input, blocksRead>>
      /\ output' = Append(output, [data |-> chunk, size |-> sizeOfChunk])
      /\ sizeOfFile' = sizeOfFile + sizeOfChunk
      /\ chunk' = {} /\ sizeOfChunk' = 0
  BY <1>0, WriterMoves
<1>2. /\ \A u \in Threads : HasXored(u)
      /\ chunk = RoundData(input, 1)
      /\ IsOutputSize(input, sizeOfChunk)
  BY <1>1, FirstRoundWhole
<1> DEFINE round == [data |-> chunk, size |-> sizeOfChunk]
<1>3. output' = Append(<< >>, round)
  BY <1>1
<1>4. round.data = chunk
  OBVIOUS
<1> HIDE DEF round
<1>5. Len(output') = 1 /\ output'[1] = round /\ output' # << >>
  BY <1>3
<1>6. sizeOfFile' = sizeOfChunk
  BY <1>0, <1>1, ChunkSizeAssumption DEF FirstRound, DraftTypeOK
<1>7. IsOutputSize(input, sizeOfFile)'
  <2>1. \A s : IsOutputSize(input', s) <=> IsOutputSize(input, s)
    BY <1>1
  <2> QED BY <1>2, <1>6, <2>1
<1>8. output'[1].data = RoundData(input, 1)'
  BY <1>1, <1>2, <1>4, <1>5
<1>9. \A u \in Threads : pc'[u] \notin {"unborn", "open", "lock"}
                         /\ blocksRead'[u] = input'[u].blocks
  <2>1. \A u \in Threads : blocksRead[u] = input[u].blocks
    BY <1>0, <1>2 DEF FirstRound, HasXored
  <2>2. \A u \in Threads : pc'[u] \notin {"unborn", "open", "lock"}
    BY <1>1, <1>2 DEF HasXored
  <2> QED BY <1>1, <2>1, <2>2
<1>10. \A k \in 2 .. Len(output') : output'[k].data = {} /\ output'[k].size = 0
  BY <1>5
<1> QED BY <1>1, <1>5, <1>7, <1>8, <1>9, <1>10 DEF LaterRounds

\* Later rounds are empty.
LEMMA LaterWrite ==
  ASSUME SmallState, output # << >>, NEW t \in Threads, DraftThread(t),
         WriteChunk(t) \/ WriteLastChunk(t)
  PROVE  LaterRounds' /\ output' # << >>
<1>0. DraftTypeOK /\ LaterRounds
  BY DEF SmallState, DraftInOrder, SmallInOrder
<1>1. /\ pc'[t] \in {"flag", "spin", "exited", "read"}
      /\ \A u \in Threads \ {t} : pc'[u] = pc[u]
      /\ UNCHANGED <<input, blocksRead>>
      /\ output' = Append(output, [data |-> chunk, size |-> sizeOfChunk])
      /\ sizeOfFile' = sizeOfFile + sizeOfChunk
      /\ chunk' = {} /\ sizeOfChunk' = 0
  BY <1>0, WriterMoves
<1> DEFINE round == [data |-> chunk, size |-> sizeOfChunk]
           R == [data : SUBSET (Threads \X Nat), size : 0 .. ChunkSize]
<1>2. round.data = {} /\ round.size = 0 /\ round \in R /\ output \in Seq(R)
  BY <1>0 DEF LaterRounds, DraftTypeOK, SmallState, DraftInOrder
<1>3. output' = Append(output, round)
  BY <1>1
<1> HIDE DEF round, R
<1>4. /\ Len(output) \in Nat /\ Len(output) # 0
      /\ Len(output') = Len(output) + 1
      /\ \A k \in 1 .. Len(output) : output'[k] = output[k]
      /\ output'[Len(output) + 1] = round
  BY <1>2, <1>3
<1>5. output' # << >>
  BY <1>4
<1>6. output'[1].data = RoundData(input, 1)'
  <2>1. output'[1] = output[1]
    BY <1>4
  <2> QED BY <1>0, <1>1, <2>1 DEF LaterRounds
<1>7. \A k \in 2 .. Len(output') : output'[k].data = {} /\ output'[k].size = 0
  <2> SUFFICES ASSUME NEW k \in 2 .. Len(output')
               PROVE  output'[k].data = {} /\ output'[k].size = 0
    OBVIOUS
  <2>1. CASE k = Len(output) + 1
    BY <1>2, <1>4, <2>1
  <2>2. CASE k # Len(output) + 1
    <3>1. k \in 2 .. Len(output) /\ k \in 1 .. Len(output)
      BY <1>4, <2>2
    <3> QED BY <1>0, <1>4, <3>1 DEF LaterRounds
  <2> QED BY <2>1, <2>2
<1>8. sizeOfFile' = sizeOfFile
  <2>1. sizeOfFile \in Nat
    <3>1. \E u \in Threads : sizeOfFile = FileSize(input, u)
      BY <1>0 DEF LaterRounds, IsOutputSize
    <3>2. \A u \in Threads : FileSize(input, u) \in Nat
      <4>1. input \in Inputs /\ SmallFiles
        BY SmallFacts DEF SmallState
      <4>2. \A u \in Threads :
              /\ BlockSize(input, u, 1) \in 1 .. ChunkSize
              /\ FileSize(input, u) = IF input[u].blocks = 0 THEN 0 ELSE BlockSize(input, u, 1)
        BY <4>1, SmallBlocks
      <4> QED BY <4>2, ChunkSizeAssumption
    <3> QED BY <3>1, <3>2
  <2> QED BY <1>0, <1>1, <2>1 DEF LaterRounds
<1>9. IsOutputSize(input, sizeOfFile)'
  <2>1. \A s : IsOutputSize(input', s) <=> IsOutputSize(input, s)
    BY <1>1
  <2> QED BY <1>0, <1>8, <2>1 DEF LaterRounds
<1>10. \A u \in Threads : pc'[u] \notin {"unborn", "open", "lock"}
                          /\ blocksRead'[u] = input'[u].blocks
  BY <1>0, <1>1 DEF LaterRounds
<1> QED BY <1>1, <1>5, <1>6, <1>7, <1>9, <1>10 DEF LaterRounds

\* Nor does any thread have a block left to XOR.
LEMMA LaterMoves ==
  ASSUME SmallState, output # << >>, NEW t \in Threads, DraftThread(t),
         ~ WriteChunk(t), ~ WriteLastChunk(t)
  PROVE  LaterRounds' /\ output' # << >>
<1>0. DraftTypeOK /\ LaterRounds
  BY DEF SmallState, DraftInOrder, SmallInOrder
<1>1. /\ input' = input /\ input[t].blocks \in {0, 1}
      /\ ~ OpenFileFails(t) /\ ~ ReadFails(t) /\ ~ WriteChunkFails(t)
      /\ \A u \in Threads \ {t} : pc'[u] = pc[u] /\ blocksRead'[u] = blocksRead[u]
  BY SmallFacts DEF given
<1>2. pc[t] \notin {"unborn", "open", "lock"} /\ blocksRead[t] = input[t].blocks
  BY <1>0 DEF LaterRounds
<1>3. ~ OpenFile(t) /\ ~ ReadChunk(t)
  BY <1>1, <1>2 DEF OpenFile, ReadChunk, ReadBlock
<1>4. /\ UNCHANGED <<chunk, sizeOfChunk, sizeOfFile, output, blocksRead>>
      /\ pc'[t] \notin {"unborn", "open", "lock"}
  <2> USE DEF DraftTypeOK, sharedVars, Loop
  <2>1. CASE ReadNothing(t)
    BY <1>0, <2>1 DEF ReadNothing
  <2>2. CASE XorChunk(t)
    BY <1>0, <1>2, <2>2 DEF XorChunk
  <2>3. CASE LeaveChunk(t)
    BY <1>0, <2>3 DEF LeaveChunk, Release
  <2>4. CASE SetStillRunning(t) \/ StopWaiting(t)
    BY <1>0, <2>4 DEF SetStillRunning, StopWaiting
  <2> QED BY <1>1, <1>3, <2>1, <2>2, <2>3, <2>4 DEF DraftThread, OpenOrFail
<1>5. IsOutputSize(input, sizeOfFile)' /\ RoundData(input, 1)' = RoundData(input, 1)
  <2>1. \A s : IsOutputSize(input', s) <=> IsOutputSize(input, s)
    BY <1>1
  <2> QED BY <1>0, <1>1, <1>4, <2>1 DEF LaterRounds
<1>6. \A u \in Threads : pc'[u] \notin {"unborn", "open", "lock"}
                         /\ blocksRead'[u] = input'[u].blocks
  BY <1>0, <1>1, <1>4 DEF LaterRounds
<1> QED BY <1>0, <1>4, <1>5, <1>6 DEF LaterRounds

\* The threads of every version keep small files in their one round.
LEMMA SmallThread ==
  ASSUME SmallState, NEW t \in Threads, DraftThread(t)
  PROVE  SmallInOrder'
<1>1. SmallWaits'
  BY SmallWaitsNext
<1>2. CASE output = << >>
  <2>1. CASE WriteChunk(t) \/ WriteLastChunk(t)
    BY <1>1, <1>2, <2>1, FirstWrite DEF SmallInOrder, SmallWaits
  <2>2. CASE XorChunk(t)
    <3>1. mainPc # "failed"
      BY DEF DraftThread
    <3> QED BY <1>1, <1>2, <2>2, <3>1, FirstXor DEF SmallInOrder, SmallWaits
  <2>3. CASE ~ XorChunk(t) /\ ~ WriteChunk(t) /\ ~ WriteLastChunk(t)
    BY <1>1, <1>2, <2>3, FirstMoves DEF SmallInOrder, SmallWaits
  <2> QED BY <2>1, <2>2, <2>3
<1>3. CASE output # << >>
  <2>1. CASE WriteChunk(t) \/ WriteLastChunk(t)
    BY <1>1, <1>3, <2>1, LaterWrite DEF SmallInOrder, SmallWaits
  <2>2. CASE ~ WriteChunk(t) /\ ~ WriteLastChunk(t)
    BY <1>1, <1>3, <2>2, LaterMoves DEF SmallInOrder, SmallWaits
  <2> QED BY <2>1, <2>2
<1> QED BY <1>2, <1>3

\* main starts threads that have neither read nor XORed.
LEMMA SmallMain ==
  ASSUME SmallState, DraftMain
  PROVE  SmallInOrder'
<1>1. /\ UNCHANGED <<given, blocksRead, mutex, sharedVars, versionVars, fileEnded>>
      /\ \A t \in Threads : pc'[t] = pc[t] \/ (pc[t] = "unborn" /\ pc'[t] = "open")
      /\ \/ stillRunning' = stillRunning
         \/ /\ stillRunning' = [t \in Threads |-> version # "tester"]
            /\ \A t \in Threads : pc'[t] = "unborn"
  BY DraftMainChanges DEF SmallState
<1>2. /\ SmallInOrder /\ ThreadsSafe /\ SmallFiles
      /\ UNCHANGED <<input, chunk, sizeOfChunk, finishedXoring, sizeOfFile, output, blocksRead,
                     version, WaitForWriteToBeFinished, fileEnded>>
  BY <1>1 DEF SmallState, given, sharedVars, versionVars
<1>3. \A t \in Threads : HasXored(t)' <=> HasXored(t)
  BY <1>1 DEF HasXored
<1>4. SmallWaits'
  BY <1>1, <1>2 DEF SmallInOrder, SmallWaits
<1>5. ASSUME output = << >> PROVE FirstRound'
  <2>1. FirstRound
    BY <1>2, <1>5 DEF SmallInOrder
  <2>2. Buffered' = Buffered
    BY <1>2, <1>3 DEF Buffered
  <2>3. \A u \in Threads : BlockSize(input, u, 1)' = BlockSize(input, u, 1)
    BY <1>2 DEF BlockSize
  <2>4. /\ chunk' = {<<u, 1>> : u \in Buffered'}
        /\ \A u \in Buffered' : BlockSize(input, u, 1)' <= sizeOfChunk'
        /\ sizeOfChunk' = 0 \/ \E u \in Buffered' : sizeOfChunk' = BlockSize(input, u, 1)'
        /\ sizeOfFile' = 0
    BY <1>2, <2>1, <2>2, <2>3 DEF FirstRound, Buffered
  <2>5. (\A u \in Threads : HasXored(u)') => \E u \in Threads : pc'[u] = "decide"
    BY <1>1, <1>3, <2>1 DEF FirstRound
  <2>6. \A u \in Threads : stillRunning[u] => stillRunning'[u] \/ version = "tester"
    <3>1. CASE stillRunning' = stillRunning
      BY <3>1
    <3>2. CASE stillRunning' = [t \in Threads |-> version # "tester"]
      <4>1. \A u \in Threads : stillRunning'[u] = (version # "tester")
        BY <3>2, Zenon
      <4> QED BY <4>1
    <3> QED BY <1>1, <3>1, <3>2
  <2>7. \A u \in Threads :
         /\ finishedXoring'[u] <=> HasXored(u)'
         /\ HasXored(u)' \/ stillRunning'[u] \/ version' = "tester"
         /\ blocksRead'[u] = IF pc'[u] \in {"unborn", "open", "read"}
                             THEN 0 ELSE input'[u].blocks
         /\ pc'[u] = "lockEmpty" => input'[u].blocks = 0
         /\ version' # "WithoutPrints" /\ pc'[u] \in {"lock", "lockEmpty", "decide", "flag"}
              => fileEnded'[u]
    BY <1>1, <1>2, <1>3, <2>1, <2>6 DEF FirstRound
  <2> QED BY <2>4, <2>5, <2>7 DEF FirstRound
<1>6. ASSUME output # << >> PROVE LaterRounds'
  <2>1. LaterRounds
    BY <1>2, <1>6 DEF SmallInOrder
  <2>2. \A t \in Threads : pc'[t] = pc[t]
    BY <1>1, <2>1 DEF LaterRounds
  <2>3. IsOutputSize(input, sizeOfFile)' /\ RoundData(input, 1)' = RoundData(input, 1)
    <3>1. \A s : IsOutputSize(input', s) <=> IsOutputSize(input, s)
      BY <1>2
    <3> QED BY <1>2, <2>1, <3>1 DEF LaterRounds
  <2> QED BY <1>2, <2>1, <2>2, <2>3 DEF LaterRounds
<1> QED BY <1>2, <1>4, <1>5, <1>6 DEF SmallInOrder, SmallWaits

LEMMA SmallNext ==
  ASSUME DraftInOrder, SmallInOrder, [DraftNext]_draftVars
  PROVE  SmallInOrder'
<1> SUFFICES ASSUME ThreadsSafe', SmallFiles'
             PROVE  SmallInOrder'
  BY DEF SmallInOrder
<1>1. UNCHANGED given
  <2>1. ASSUME NEW t \in Threads, DraftThread(t) PROVE UNCHANGED given
    BY <2>1, DraftOthers
  <2>2. CASE DraftMain
    BY <2>2, DraftMainChanges
  <2>3. CASE UNCHANGED draftVars
    BY <2>3 DEF draftVars, vars
  <2> QED BY <2>1, <2>2, <2>3 DEF DraftNext
<1>2. SmallState
  BY <1>1 DEF SmallState, ThreadsSafe, UnambiguousNames, SmallFiles, FileSize, given
<1>3. ASSUME NEW t \in Threads, DraftThread(t) PROVE SmallInOrder'
  BY <1>2, <1>3, SmallThread
<1>4. CASE DraftMain
  BY <1>2, <1>4, SmallMain
<1>5. CASE UNCHANGED draftVars
  <2> USE DEF draftVars, vars, given
  <2>1. \A t \in Threads : HasXored(t)' <=> HasXored(t)
    BY <1>5 DEF HasXored
  <2>2. Buffered' = Buffered
    BY <1>5, <2>1 DEF Buffered
  <2>3. FirstRound' <=> FirstRound
    BY <1>5, <2>1, <2>2 DEF FirstRound, BlockSize, Buffered
  <2>4. LaterRounds' <=> LaterRounds
    BY <1>5 DEF LaterRounds, RoundData, Holders, IsOutputSize, FileSize
  <2> QED BY <1>2, <1>5, <2>3, <2>4 DEF SmallInOrder, SmallState
<1> QED BY <1>3, <1>4, <1>5 DEF DraftNext

\* Before main has started anybody nothing is XORed or written.
LEMMA DraftInvInit == DraftInit => DraftInv
<1> SUFFICES ASSUME DraftInit PROVE DraftInv
  OBVIOUS
<1>1. DraftInOrder
  BY DraftInOrderInit
<1>2. /\ mainPc = "check" /\ pc = [t \in Threads |-> "unborn"]
      /\ blocksRead = [t \in Threads |-> 0] /\ chunk = {} /\ sizeOfChunk = 0
      /\ sizeOfFile = 0 /\ output = << >>
      /\ WaitForWriteToBeFinished = (version = "WithoutPrints")
  BY DEF DraftInit, Init
<1>3. \A t \in Threads : stillRunning[t] /\ ~ finishedXoring[t] /\ ~ fileEnded[t]
  BY DEF DraftInit, Init
<1>4. JoinedExited /\ OldInOrder
  BY <1>2, <1>3 DEF JoinedExited, OldInOrder
<1>5. Buffered = {} /\ \A t \in Threads : ~ HasXored(t)
  BY <1>2 DEF Buffered, HasXored
<1>6. 1 \in Threads
  BY NAssumption DEF Threads
<1>7. FirstRound
  BY <1>2, <1>3, <1>5, <1>6 DEF FirstRound
<1>8. WaitForWriteToBeFinished <=> version = "WithoutPrints" /\ output = << >>
  BY <1>2
<1>9. SmallInOrder
  BY <1>2, <1>7, <1>8 DEF SmallInOrder
<1> QED BY <1>1, <1>4, <1>9 DEF DraftInv

LEMMA DraftInvNext == DraftInv /\ EachBlockOnce /\ [DraftNext]_draftVars => DraftInv'
BY DraftBlocksNext, JoinedNext, OldNext, SmallNext DEF DraftInv

-----------------------------------------------------------------------------
(* Theorems about what the drafts write.                                   *)

\* The drafts' threads, main and buffer stay in order, for every input, names and
\* faults: joined threads have exited, each thread of hw4Old.c brings down its
\* own flag and no other, and small files go through one round of all of them.
THEOREM DraftInvariance == DraftSpec => []DraftInv
<1>1. DraftInit => EachBlockOnce
  BY DEF DraftInit, Init, EachBlockOnce, BlocksXored, Places, IsIn
<1>2. DraftInv => DraftInOrder
  BY DEF DraftInv
<1> QED BY <1>1, <1>2, DraftInvInit, DraftInvNext, DraftBlocksNext, PTL DEF DraftSpec

\* Once every thread has exited somebody has written, and so the one round that
\* has everything.
LEMMA SmallAtEnd == DraftInv => SmallFilesExact
<1> SUFFICES ASSUME DraftInv, ThreadsSafe, SmallFiles, mainPc = "done"
             PROVE  /\ output[1].data = RoundData(input, 1)
                    /\ \A k \in 2 .. Len(output) : output[k].data = {} /\ output[k].size = 0
                    /\ IsOutputSize(input, sizeOfFile)
  BY DEF SmallFilesExact
<1>1. \A t \in Threads : pc[t] = "exited"
  BY DEF DraftInv, JoinedExited, Threads
<1>2. ~ FirstRound
  BY <1>1 DEF FirstRound, HasXored
<1> QED BY <1>2 DEF DraftInv, SmallInOrder, LaterRounds

\* Files smaller than a chunk come out right in every version, however the
\* threads take turns and whichever of them finds the round complete.
THEOREM SmallFilesAlwaysExact == DraftSpec => []SmallFilesExact
BY DraftInvariance, SmallAtEnd, PTL

LEMMA OldAtEnd == DraftInv => AllWritten
<1> SUFFICES ASSUME DraftInv, version = "Old", ThreadsSafe, mainPc = "done"
             PROVE  chunk = {} /\ \A t \in Threads : BlocksXored(t) = input[t].blocks
  BY DEF AllWritten
<1>1. \A t \in Threads : pc[t] = "exited"
  BY DEF DraftInv, JoinedExited, Threads
<1>2. /\ \A t \in Threads :
           /\ fileEnded[t] => blocksRead[t] = input[t].blocks
           /\ pc[t] = "exited" => fileEnded[t]
           /\ pc[t] \in {"decide", "exited"} => (stillRunning[t] <=> ~ fileEnded[t])
      /\ chunk # {} => \E t \in Threads : stillRunning[t] \/ pc[t] = "decide"
  BY DEF DraftInv, OldInOrder
<1>3. \A t \in Threads : BlocksXored(t) = input[t].blocks
  BY <1>1, <1>2 DEF BlocksXored
<1>4. chunk = {}
  BY <1>1, <1>2
<1> QED BY <1>3, <1>4

\* hw4Old.c writes every block it read by the time main is done, for every input
\* and however the threads take turns, unless one of their calls fails.
THEOREM OldWritesAll == DraftSpec => []AllWritten
BY DraftInvariance, OldAtEnd, PTL
===============================================================================
