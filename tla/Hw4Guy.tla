-------------------------------- MODULE Hw4Guy --------------------------------
(***************************************************************************)
(* ex4/hw4Guy.c: the XOR of files by threads that wait for each other at   *)
(* the end of each round.  A thread that finds all others done with the    *)
(* round, or finished, writes it and wakes them.  allSizes and hasFinished *)
(* are written without the mutex.                                          *)
(*                                                                         *)
(* A thread XORs, looks and writes in one step, and clears and unlocks in  *)
(* a second one: in between the others still reach allSizes, of which they *)
(* write at most one element each.  hasFinished only goes up.  Threads are *)
(* 1 .. N, the C index plus one.  pthread_cond_wait is taken to return     *)
(* only after a broadcast.  Faults:                                        *)
(*   "start"  main cannot open a file or create a thread                   *)
(*   "read"   read fails      "write"  write fails                         *)
(***************************************************************************)
EXTENDS XorRounds

CONSTANTS InputFiles, Faults,
          Byte   \* values of a byte, 256

ASSUME InputFilesAssumption == InputFiles \subseteq Inputs
ASSUME FaultsAssumption == Faults \subseteq {"start", "read", "write"}
ASSUME ByteAssumption == Byte \in Nat /\ Byte >= 2

VARIABLES
  input,
  mainPc,       \* "create", "join", "done" or "failed"
  mainI,        \* threads created, then joined
  pc,           \* where each thread is
  reads,        \* reads each thread has made
  allSizes,
  hasFinished,
  hasXored,
  chunk,        \* blocks XORed into BUFFER
  output        \* what write() was given

mainVars == <<input, mainPc, mainI>>
roundVars == <<allSizes, hasFinished, hasXored, chunk, output>>
vars == <<mainVars, pc, reads, roundVars>>

TypeOK ==
  /\ input \in InputFiles
  /\ mainPc \in {"create", "join", "done", "failed"}
  /\ mainI \in 0 .. N
  /\ pc \in [Threads -> {"unborn", "first", "size", "lock", "clear", "waiting",
                         "woken", "read", "exited"}]
  /\ reads \in [Threads -> Nat]
  /\ \A t \in Threads : reads[t] <= input[t].blocks + 1
  /\ allSizes \in [Threads -> 0 .. ChunkSize]
  /\ hasFinished \in [Threads -> BOOLEAN]
  /\ hasXored \in [Threads -> BOOLEAN]
  /\ chunk \in SUBSET (Threads \X (Nat \ {0}))
  /\ output \in Seq([data : SUBSET (Threads \X (Nat \ {0})), size : 0 .. ChunkSize])

Init ==
  /\ input \in InputFiles
  /\ mainPc = "create"
  /\ mainI = 0
  /\ pc = [t \in Threads |-> "unborn"]
  /\ reads = [t \in Threads |-> 0]
  /\ allSizes = [t \in Threads |-> 0]
  /\ hasFinished = [t \in Threads |-> FALSE]
  /\ hasXored = [t \in Threads |-> FALSE]
  /\ chunk = {}
  /\ output = << >>

-----------------------------------------------------------------------------
(* main.                                                                   *)

\* Each input file is opened just before its thread is created.
CreateThread ==
  /\ mainPc = "create"
  /\ pc' = [pc EXCEPT ![mainI + 1] = "first"]
  /\ IF mainI + 1 = N
     THEN mainPc' = "join" /\ mainI' = 0
     ELSE mainI' = mainI + 1 /\ UNCHANGED mainPc
  /\ UNCHANGED <<input, reads, roundVars>>

\* main returns or a thread calls exit: the process ends.
ProcessFails ==
  /\ mainPc' = "failed"
  /\ UNCHANGED <<input, mainI, pc, reads, roundVars>>

StartFails ==
  /\ mainPc = "create"
  /\ "start" \in Faults
  /\ ProcessFails

\* Mutant: the last thread is not joined.
LastJoin == N - 1

Joins == N

\* After the last join main announces the size of the output file.
JoinThread ==
  /\ mainPc = "join"
  /\ IF mainI < Joins
     THEN pc[mainI + 1] = "exited" /\ mainI' = mainI + 1 /\ UNCHANGED mainPc
     ELSE mainPc' = "done" /\ UNCHANGED mainI
  /\ UNCHANGED <<input, pc, reads, roundVars>>

Main == CreateThread \/ StartFails \/ JoinThread

-----------------------------------------------------------------------------
(* func, the body of thread t.                                             *)

\* Bytes of t's k-th read; after the last block of its file there are none.
BytesRead(t, k) ==
  IF k <= input[t].blocks THEN BlockSize(input, t, k) ELSE 0

AfterRead(t) ==
  [pc EXCEPT ![t] = IF BytesRead(t, reads[t] + 1) = 0 THEN "exited" ELSE "size"]

\* The first read never marks the file as finished, not even an empty one.
FirstRead(t) ==
  /\ pc[t] = "first"
  /\ reads' = [reads EXCEPT ![t] = 1]
  /\ pc' = AfterRead(t)
  /\ UNCHANGED <<mainVars, roundVars>>

\* A short read marks the file as finished before its block is XORed.
NextRead(t) ==
  /\ pc[t] = "read"
  /\ reads' = [reads EXCEPT ![t] = @ + 1]
  /\ hasFinished' =
       [hasFinished EXCEPT ![t] = @ \/ BytesRead(t, reads[t] + 1) < ChunkSize]
  /\ pc' = AfterRead(t)
  /\ UNCHANGED <<mainVars, allSizes, hasXored, chunk, output>>

ReadFails(t) ==
  /\ pc[t] \in {"first", "read"}
  /\ "read" \in Faults
  /\ ProcessFails

\* Mutant: the sizes of a thread's blocks are added up.
SizeAdded(t) == allSizes[t] + BytesRead(t, reads[t])

SizeSet(t) == BytesRead(t, reads[t])

SetSize(t) ==
  /\ pc[t] = "size"
  /\ allSizes' = [allSizes EXCEPT ![t] = SizeSet(t)]
  /\ pc' = [pc EXCEPT ![t] = "lock"]
  /\ UNCHANGED <<mainVars, reads, hasFinished, hasXored, chunk, output>>

\* Nobody has the mutex.
Unlocked == \A t \in Threads : pc[t] # "clear"

\* xorWithBuffer: XORing a block again would take it out.
Xored(t) ==
  LET block == <<t, reads[t]>>
  IN  IF block \in chunk THEN chunk \ {block} ELSE chunk \cup {block}

\* Mutant: the last thread is not looked at.
AllButLastDone(t) ==
  \A u \in Threads \ {t, N} : hasXored[u] \/ hasFinished[u]

\* All threads are done with the round once t is.
AllDone(t) ==
  \A u \in Threads \ {t} : hasXored[u] \/ hasFinished[u]

MaxSize == Max({allSizes[t] : t \in Threads})

XorAndWait(t) ==
  /\ pc[t] = "lock" /\ Unlocked
  /\ ~ AllDone(t)
  /\ chunk' = Xored(t)
  /\ hasXored' = [hasXored EXCEPT ![t] = TRUE]
  /\ pc' = [pc EXCEPT ![t] = "waiting"]
  /\ UNCHANGED <<mainVars, reads, allSizes, hasFinished, output>>

XorAndWrite(t) ==
  /\ pc[t] = "lock" /\ Unlocked
  /\ AllDone(t)
  /\ chunk' = Xored(t)
  /\ hasXored' = [hasXored EXCEPT ![t] = TRUE]
  /\ output' = Append(output, [data |-> Xored(t), size |-> MaxSize])
  /\ pc' = [pc EXCEPT ![t] = "clear"]
  /\ UNCHANGED <<mainVars, reads, allSizes, hasFinished>>

WriteFails(t) ==
  /\ pc[t] = "lock" /\ Unlocked
  /\ AllDone(t)
  /\ "write" \in Faults
  /\ ProcessFails

\* Bytes of thread t's size, an int of 4, among the first N of allSizes.
BytesCleared(t) ==
  IF N < 4 * (t - 1) THEN 0 ELSE IF N < 4 * t THEN N - 4 * (t - 1) ELSE 4

\* How many values that many bytes have.
Values(bytes) ==
  <<1, Byte, Byte * Byte, Byte * Byte * Byte, Byte * Byte * Byte * Byte>>[bytes + 1]

\* memset(allSizes, 0, inputs_amount) clears N bytes, not N ints: the low bytes
\* of the first sizes.
SizesCleared ==
  [t \in Threads |-> allSizes[t] - (allSizes[t] % Values(BytesCleared(t)))]

\* Mutant: the buffer is not cleared.
BufferKept == chunk

BufferCleared == {}

\* Mutant: nobody is woken.
NobodyWoken == pc

Woken == [t \in Threads |-> IF pc[t] = "waiting" THEN "woken" ELSE pc[t]]

\* Threads that have finished count as done with the next round.
HandelXorArr == hasFinished

\* The sizes, the buffer and the flags are reset, then the broadcast and the
\* unlock.
Clear(t) ==
  /\ pc[t] = "clear"
  /\ allSizes' = SizesCleared
  /\ chunk' = BufferCleared
  /\ hasXored' = HandelXorArr
  /\ pc' = [Woken EXCEPT ![t] = "read"]
  /\ UNCHANGED <<mainVars, reads, hasFinished, output>>

\* pthread_cond_wait has the mutex again, and the thread unlocks it.
Reacquire(t) ==
  /\ pc[t] = "woken" /\ Unlocked
  /\ pc' = [pc EXCEPT ![t] = "read"]
  /\ UNCHANGED <<mainVars, reads, roundVars>>

Thread(t) ==
  \/ FirstRead(t)   \/ NextRead(t)    \/ ReadFails(t)  \/ SetSize(t)
  \/ XorAndWait(t)  \/ XorAndWrite(t) \/ WriteFails(t) \/ Clear(t)
  \/ Reacquire(t)

Next ==
  \/ Main
  \/ \E t \in Threads : mainPc # "failed" /\ Thread(t)

Spec == Init /\ [][Next]_vars

\* The scheduler runs main and every thread that can run.
FairSpec ==
  /\ Spec
  /\ WF_vars(Main)
  /\ \A t \in Threads : WF_vars(mainPc # "failed" /\ Thread(t))

-----------------------------------------------------------------------------
(* Properties.                                                             *)

\* Blocks of file t that have been XORed into some round.
BlocksXored(t) ==
  IF pc[t] \in {"size", "lock"} \/ reads[t] > input[t].blocks
  THEN Max({0, reads[t] - 1}) ELSE reads[t]

\* Whatever the sizes and the order of the threads, every block that was XORed
\* is in exactly one round, written or in the buffer: none is cleared before it
\* is written, although a finished thread comes with its last block when the
\* round may have gone without it.  (The sizes of the rounds may be wrong.)
EachBlockOnce ==
  \A t \in Threads : \A k \in 1 .. input[t].blocks :
    LET written == {r \in 1 .. Len(output) : <<t, k>> \in output[r].data}
    IN  IF k <= BlocksXored(t)
        THEN Cardinality(written) = IF <<t, k>> \in chunk /\ Unlocked THEN 0 ELSE 1
        ELSE <<t, k>> \notin chunk /\ written = {}

\* The files are whole numbers of chunks.
Whole == \A t \in Threads : input[t].blocks > 0 => input[t].last = ChunkSize

\* Whole files are XORed round by round, however the threads run: nothing but
\* a last block that is short makes a round wrong, neither the sizes that are
\* written without the mutex nor those that are not cleared.
WholeExact ==
  Whole => \A k \in 1 .. Len(output) : ExactRound(input, k, output[k])

\* What main announces of whole files is complete.
WholeComplete == Whole /\ mainPc = "done" => IsLastRound(input, Len(output))

\* Whole files of the same number of chunks are always finished: nobody is left
\* waiting for a broadcast.  (A thread that finishes earlier than another wakes
\* nobody.)
WholeEnds ==
  Whole /\ (\A t, u \in Threads : input[t].blocks = input[u].blocks)
    => <>(mainPc \in {"done", "failed"})

-----------------------------------------------------------------------------
(* Why the safety properties hold: the inductive invariant of the proofs.  *)

\* What a thread has read where it is; main has yet to create the others.
ReadsInOrder ==
  /\ \A t \in Threads :
       /\ pc[t] \in {"unborn", "first"} => reads[t] = 0
       /\ pc[t] \in {"size", "lock", "clear", "waiting", "woken", "read"} =>
            reads[t] \in 1 .. input[t].blocks
  /\ mainPc = "create" =>
       mainI < N /\ \A t \in mainI + 1 .. N : pc[t] = "unborn"

\* Threads that main has joined have exited.
JoinedExited ==
  /\ mainPc \in {"join", "done"} => \A t \in 1 .. mainI : pc[t] = "exited"
  /\ mainPc = "done" => mainI = N

\* Nobody else has the mutex that t writes with.
OneWriter == \A t, u \in Threads : pc[t] = "clear" /\ pc[u] = "clear" => t = u

\* Where a thread is and what it has read: the block of the next round, or that of
\* the one written last, until its writer clears the buffer or after that.
InItsRound(t) ==
  /\ pc[t] \in {"unborn", "first"} => Len(output) = 0
  /\ pc[t] \in {"size", "lock"} => reads[t] = Len(output) + 1
  /\ pc[t] = "waiting" => reads[t] = IF Unlocked THEN Len(output) + 1 ELSE Len(output)
  /\ pc[t] \in {"clear", "woken", "read"} => reads[t] = Len(output)
  /\ pc[t] = "lock" => allSizes[t] = ChunkSize
  /\ hasXored[t] => pc[t] \in {"waiting", "clear"} \/ hasFinished[t]
  /\ hasFinished[t] => pc[t] = "exited" /\ input[t].blocks <= Len(output)
  /\ pc[t] = "exited" => hasFinished[t] \/ (input[t].blocks = 0 /\ Len(output) = 0)
  /\ ~ Unlocked => pc[t] \in {"waiting", "clear"} \/ hasFinished[t]

Waiting == {t \in Threads : pc[t] = "waiting"}

\* Threads of whole files are all in the same round, or have finished before it,
\* and the buffer has the blocks of those that wait.
WholeInOrder ==
  Whole =>
    /\ \A t \in Threads : InItsRound(t)
    /\ Unlocked => chunk = {<<t, Len(output) + 1>> : t \in Waiting}

\* The last thread that comes finds the others done and does not wait: a thread
\* that waits is done with the round, and some thread is not.
NotAllWaiting ==
  /\ \A t \in Threads : pc[t] = "waiting" => hasXored[t]
  /\ \E t \in Threads : pc[t] # "waiting"

\* Threads, main and the rounds stay in order (func and main), as far as the
\* files are whole, and somebody always comes after those that wait.
IInv ==
  /\ TypeOK /\ ReadsInOrder /\ JoinedExited /\ OneWriter /\ WholeInOrder
  /\ NotAllWaiting

\* Who waits when nobody else runs any more waits for a thread that has exited,
\* and of whole files that one's was shorter: the safety half of WholeEnds.
LeftBehindByShorter ==
  (\A t \in Threads : pc[t] \in {"waiting", "exited"}) =>
    \A t \in Waiting : \E u \in Threads :
      pc[u] = "exited" /\ (Whole => input[u].blocks < input[t].blocks)
=============================================================================
