------------------------------- MODULE Hw4Drafts -------------------------------
(***************************************************************************)
(* The programs that hw4.c grew out of: main and its checks are those of   *)
(* Hw4, the threads differ.  No thread ever sleeps on wakeUp (the flag     *)
(* needToDoCondWait is never set): a thread XORs its chunk and goes on     *)
(* reading, and whoever finds that every thread has XORed something since  *)
(* the last write writes the buffer.                                       *)
(*                                                                         *)
(*   "tester"         tzur_tester_hw4/hw4.c: stillRunning is down at first,*)
(*                    and threads that ended must XOR again for a round    *)
(*   "Old"            hw4Old.c: stillRunning is set before findNextStep    *)
(*   "Old2"           hw4Old2.c, and hw4Sorten.c with a chunk of 216 bytes:*)
(*                    stillRunning is set after the mutex is released      *)
(*   "WithoutPrints"  hw4WithoutPrints.c: only an empty read ends a file,  *)
(*                    and nobody goes on before the first write            *)
(***************************************************************************)
EXTENDS Hw4

CONSTANT Versions   \* the versions considered

ASSUME VersionsAssumption ==
  Versions \subseteq {"tester", "Old", "Old2", "WithoutPrints"}

VARIABLES
  version,
  fileEnded,                  \* each thread's own flag
  WaitForWriteToBeFinished    \* nothing is written yet, in "WithoutPrints"

draftVars == <<vars, version, fileEnded, WaitForWriteToBeFinished>>
versionVars == <<version, WaitForWriteToBeFinished>>

DraftPcStates == {"unborn", "open", "read", "lock", "lockEmpty", "decide", "flag",
                  "spin", "exited"}

DraftTypeOK ==
  /\ version \in Versions
  /\ fileEnded \in [Threads -> BOOLEAN]
  /\ WaitForWriteToBeFinished \in BOOLEAN
  /\ pc \in [Threads -> DraftPcStates]
  /\ mutex \in Threads \cup {NoThread}
  /\ chunk \subseteq Threads \X Nat
  /\ sizeOfChunk \in 0 .. ChunkSize
  /\ stillRunning \in [Threads -> BOOLEAN]
  /\ finishedXoring \in [Threads -> BOOLEAN]

DraftInit ==
  /\ Init
  /\ version \in Versions
  /\ fileEnded = [t \in Threads |-> FALSE]
  /\ WaitForWriteToBeFinished = (version = "WithoutPrints")

\* The checks of main, and its arrays: the tester's stay as calloc left them.
SetFlags ==
  /\ mainPc = "check"
  /\ mainPc' = "create"
  /\ stillRunning' = [t \in Threads |-> version # "tester"]
  /\ UNCHANGED <<given, mainI, pc, blocksRead, mutex, sharedVars>>

DraftMain ==
  /\ \/ SetFlags     \/ CheckInputsFails
     \/ CreateThread \/ CreateThreadFails
     \/ JoinThread   \/ ReportSize
  /\ UNCHANGED <<versionVars, fileEnded>>

-----------------------------------------------------------------------------
(* xor(), the body of thread t.                                            *)

\* A read of n bytes is taken for the last.
EndsFile(n) == IF version = "WithoutPrints" THEN n = 0 ELSE n < ChunkSize

ReadChunk(t) ==
  /\ ReadBlock(t)
  /\ fileEnded' =
       [fileEnded EXCEPT ![t] = EndsFile(BlockSize(input, t, blocksRead[t] + 1))]
  /\ UNCHANGED versionVars

\* read() returns 0; the thread goes on to XOR nothing.
ReadNothing(t) ==
  /\ pc[t] = "read"
  /\ blocksRead[t] = input[t].blocks
  /\ fileEnded' = [fileEnded EXCEPT ![t] = TRUE]
  /\ pc' = [pc EXCEPT ![t] = "lockEmpty"]
  /\ UNCHANGED <<mainVars, blocksRead, mutex, stillRunning, sharedVars, versionVars>>

OpenOrFail(t) ==
  /\ OpenFile(t) \/ OpenFileFails(t) \/ ReadFails(t)
  /\ UNCHANGED <<versionVars, fileEnded>>

\* Takes the mutex and XORs what was read.
XorChunk(t) ==
  /\ pc[t] \in {"lock", "lockEmpty"}
  /\ mutex = NoThread
  /\ mutex' = t
  /\ IF pc[t] = "lock"
     THEN /\ chunk' = SymDiff(chunk, {<<t, blocksRead[t]>>})
          /\ sizeOfChunk' = ChunkGrownTo(BlockSize(input, t, blocksRead[t]))
     ELSE UNCHANGED <<chunk, sizeOfChunk>>
  /\ finishedXoring' = [finishedXoring EXCEPT ![FindMyIndex(t)] = TRUE]
  /\ IF version \in {"tester", "Old"}
     THEN stillRunning' = [stillRunning EXCEPT ![FindMyIndex(t)] = ~ fileEnded[t]]
     ELSE UNCHANGED stillRunning
  /\ pc' = [pc EXCEPT ![t] = "decide"]
  /\ UNCHANGED <<mainVars, blocksRead, sizeOfFile, output, versionVars, fileEnded>>

\* Mutant: the loop stops one thread short.
AllXoredShort == \A i \in 1 .. N - 1 : stillRunning[i] => finishedXoring[i]

\* findNextStep finds nobody to XOR; the tester's asks it of ended threads too.
AllXored ==
  \A i \in Threads : stillRunning[i] \/ version = "tester" => finishedXoring[i]

\* Mutant: the last thread is forgotten.
MostEnded == \A i \in 1 .. N - 1 : ~ stillRunning[i]

\* findNextStep returns -2 rather than -1.
AllEnded == \A i \in Threads : ~ stillRunning[i]

\* Mutant: the buffer is not cleared.
WriteBufferNoClear ==
  /\ output' = Append(output, [data |-> chunk, size |-> sizeOfChunk])
  /\ sizeOfFile' = sizeOfFile + sizeOfChunk
  /\ sizeOfChunk' = 0
  /\ finishedXoring' = [i \in Threads |-> FALSE]
  /\ WaitForWriteToBeFinished' = FALSE
  /\ UNCHANGED chunk

\* writeToOutputFile: every flag is reset, those of ended threads too.
WriteBuffer ==
  /\ output' = Append(output, [data |-> chunk, size |-> sizeOfChunk])
  /\ sizeOfFile' = sizeOfFile + sizeOfChunk
  /\ sizeOfChunk' = 0
  /\ chunk' = {}
  /\ finishedXoring' = [i \in Threads |-> FALSE]
  /\ WaitForWriteToBeFinished' = FALSE

\* The loop's test.
Loop(t) == [pc EXCEPT ![t] = IF fileEnded[t] THEN "exited" ELSE "read"]

\* Broadcasts, to nobody, and unlocks; where stillRunning is set on the way.
Release(t) ==
  /\ mutex' = NoThread
  /\ IF version = "WithoutPrints"
     THEN stillRunning' = [stillRunning EXCEPT ![FindMyIndex(t)] = ~ fileEnded[t]]
     ELSE UNCHANGED stillRunning
  /\ pc' = CASE version = "Old2"          -> [pc EXCEPT ![t] = "flag"]
             [] version = "WithoutPrints" -> [pc EXCEPT ![t] = "spin"]
             [] OTHER                     -> Loop(t)

\* Somebody is still to XOR.
LeaveChunk(t) ==
  /\ pc[t] = "decide"
  /\ ~ AllXored
  /\ Release(t)
  /\ UNCHANGED <<mainVars, blocksRead, sharedVars, versionVars, fileEnded>>

WriteChunk(t) ==
  /\ pc[t] = "decide"
  /\ AllXored /\ ~ AllEnded
  /\ WriteBuffer
  /\ Release(t)
  /\ UNCHANGED <<mainVars, blocksRead, version, fileEnded>>

\* The last thread of all writes and exits with the mutex: in "tester" and "Old",
\* for in the others its own flag is still up.
WriteLastChunk(t) ==
  /\ pc[t] = "decide"
  /\ AllXored /\ AllEnded
  /\ WriteBuffer
  /\ pc' = [pc EXCEPT ![t] = "exited"]
  /\ UNCHANGED <<mainVars, blocksRead, mutex, stillRunning, version, fileEnded>>

\* pthread_exit with the mutex held.
WriteChunkFails(t) ==
  /\ pc[t] = "decide"
  /\ AllXored
  /\ "write" \in faults
  /\ pc' = [pc EXCEPT ![t] = "exited"]
  /\ UNCHANGED <<mainVars, blocksRead, mutex, stillRunning, sharedVars,
                 versionVars, fileEnded>>

\* "Old2": the flag is set without the mutex.
SetStillRunning(t) ==
  /\ pc[t] = "flag"
  /\ stillRunning' = [stillRunning EXCEPT ![FindMyIndex(t)] = ~ fileEnded[t]]
  /\ pc' = Loop(t)
  /\ UNCHANGED <<mainVars, blocksRead, mutex, sharedVars, versionVars, fileEnded>>

\* "WithoutPrints": the busy wait sees the first write.
StopWaiting(t) ==
  /\ pc[t] = "spin"
  /\ ~ WaitForWriteToBeFinished
  /\ pc' = Loop(t)
  /\ UNCHANGED <<mainVars, blocksRead, mutex, stillRunning, sharedVars,
                 versionVars, fileEnded>>

DraftThread(t) ==
  /\ mainPc # "failed"
  /\ \/ OpenOrFail(t) \/ ReadChunk(t)  \/ ReadNothing(t) \/ XorChunk(t)
     \/ LeaveChunk(t) \/ WriteChunk(t) \/ WriteLastChunk(t)
     \/ WriteChunkFails(t) \/ SetStillRunning(t) \/ StopWaiting(t)

DraftNext == DraftMain \/ \E t \in Threads : DraftThread(t)

\* The scheduler runs main and every thread that can run; a thread in the busy
\* wait runs too, without changing anything.
DraftSpec == /\ DraftInit /\ [][DraftNext]_draftVars
             /\ WF_draftVars(DraftMain)
             /\ \A t \in Threads : WF_draftVars(DraftThread(t))

-----------------------------------------------------------------------------
(* Properties.  EachBlockOnce, of Hw4, is one of the drafts too.           *)

\* No thread's call can fail, and each has a name of its own.
ThreadsSafe == UnambiguousNames /\ faults \cap {"open", "read", "write"} = {}

SmallFiles == \A t \in Threads : FileSize(input, t) < ChunkSize

\* Files smaller than a chunk come out right in every version: one round has
\* all of them, whatever is written after it is empty, and the size is that of
\* the largest.  It takes that the round waits for every thread, and that a
\* thread that ended does not stand for one that did not.
SmallFilesExact ==
  ThreadsSafe /\ SmallFiles /\ mainPc = "done" =>
    /\ output[1].data = RoundData(input, 1)
    /\ \A k \in 2 .. Len(output) : output[k].data = {} /\ output[k].size = 0
    /\ IsOutputSize(input, sizeOfFile)

\* hw4Old.c writes every block it read, if often not in its round: the last
\* thread to end finds nobody else and writes what is left.
AllWritten ==
  version = "Old" /\ ThreadsSafe /\ mainPc = "done" =>
    chunk = {} /\ \A t \in Threads : BlocksXored(t) = input[t].blocks

\* Every version comes to its end, with whatever output, unless a write fails:
\* nobody wants the mutex that the last thread kept, and the busy wait of
\* hw4WithoutPrints.c is over once every thread has XORed its first chunk, so
\* that it takes all of them, each with its own index.
Ends ==
  "write" \notin faults /\ (version = "WithoutPrints" => UnambiguousNames) =>
    <>(\/ mainPc \in {"done", "failed"}
       \/ version = "WithoutPrints" /\ ThreadFailed)

-----------------------------------------------------------------------------
(* Why the safety properties hold: the inductive invariant of the proofs.  *)

\* Types that EachBlockOnce takes, and a thread that main has yet to create
\* has done nothing.
DraftInOrder ==
  /\ DraftTypeOK
  /\ input \in InputFiles /\ nameMatches \in Namings
  /\ mainI \in 0 .. N
  /\ blocksRead \in [Threads -> Nat]
  /\ output \in Seq([data : SUBSET (Threads \X Nat), size : 0 .. ChunkSize])
  /\ LockAfterRead
  /\ mainPc \in {"check", "create"} =>
       mainI < N /\ \A t \in mainI + 1 .. N : pc[t] = "unborn"
  /\ mainPc = "check" => mainI = 0

\* Threads that main has joined have exited.
JoinedExited ==
  /\ mainPc \in {"join", "done"} => \A t \in 1 .. mainI : pc[t] = "exited"
  /\ mainPc = "done" => mainI = N

\* hw4Old.c: a flag is down from the XOR of the last chunk on, and whoever has the
\* mutex, or a thread with its flag up, will write what is in the buffer.
OldInOrder ==
  version = "Old" /\ ThreadsSafe =>
    /\ \A t \in Threads :
         /\ pc[t] \notin {"flag", "spin"}
         /\ fileEnded[t] => blocksRead[t] = input[t].blocks
         /\ pc[t] = "exited" => fileEnded[t]
         /\ pc[t] \in {"decide", "exited"} => (stillRunning[t] <=> ~ fileEnded[t])
         /\ ~ stillRunning[t] => pc[t] \in {"decide", "exited"}
    /\ chunk # {} => \E t \in Threads : stillRunning[t] \/ pc[t] = "decide"

\* Thread t has XORed its only chunk, or nothing, as long as nothing is written.
HasXored(t) == pc[t] \in {"decide", "flag", "spin", "exited"}

\* Whose chunk is in the buffer by then.
Buffered == {t \in Threads : HasXored(t) /\ input[t].blocks = 1}

\* Until the first write no thread comes to a second XOR, and nobody finds all
\* flags in order before the last one has XORed.
FirstRound ==
  /\ chunk = {<<t, 1>> : t \in Buffered}
  /\ \A t \in Buffered : BlockSize(input, t, 1) <= sizeOfChunk
  /\ sizeOfChunk = 0 \/ \E t \in Buffered : sizeOfChunk = BlockSize(input, t, 1)
  /\ sizeOfFile = 0
  /\ \A t \in Threads :
       /\ finishedXoring[t] <=> HasXored(t)
       /\ HasXored(t) \/ stillRunning[t] \/ version = "tester"
       /\ blocksRead[t] = IF pc[t] \in {"unborn", "open", "read"} THEN 0 ELSE input[t].blocks
       /\ pc[t] = "lockEmpty" => input[t].blocks = 0
       /\ version # "WithoutPrints" /\ pc[t] \in {"lock", "lockEmpty", "decide", "flag"}
            => fileEnded[t]
  /\ (\A t \in Threads : HasXored(t)) => \E t \in Threads : pc[t] = "decide"

\* After it there is nothing left to XOR.
LaterRounds ==
  /\ output[1].data = RoundData(input, 1)
  /\ \A k \in 2 .. Len(output) : output[k].data = {} /\ output[k].size = 0
  /\ IsOutputSize(input, sizeOfFile)
  /\ chunk = {} /\ sizeOfChunk = 0
  /\ \A t \in Threads :
       pc[t] \notin {"unborn", "open", "lock"} /\ blocksRead[t] = input[t].blocks

SmallInOrder ==
  ThreadsSafe /\ SmallFiles =>
    /\ WaitForWriteToBeFinished <=> version = "WithoutPrints" /\ output = << >>
    /\ \A t \in Threads : /\ pc[t] = "flag" => version = "Old2"
                          /\ pc[t] = "spin" => version = "WithoutPrints"
    /\ IF output = << >> THEN FirstRound ELSE LaterRounds

\* The drafts' threads, main and buffer stay in order (xor() and main).
DraftInv == DraftInOrder /\ JoinedExited /\ OldInOrder /\ SmallInOrder
===============================================================================
