--------------------------------- MODULE Hw4 ---------------------------------
(***************************************************************************)
(* ex4/hw4.c: one thread per input file XORs its file, chunk by chunk,     *)
(* into a shared buffer.  The thread that completes a round writes it to   *)
(* the output file and wakes the others, which sleep on the condition      *)
(* variable wakeUp; mutex writeToBuffer protects the buffer.               *)
(*                                                                         *)
(* Thread t is the thread of argv[t+1]; the C index is t - 1.  Everything  *)
(* between two accesses to state that other threads see is one step.       *)
(* stillRunning is written outside the mutex, so every step under the      *)
(* mutex that reads it is separate from the one that took the mutex.       *)
(*                                                                         *)
(* A run is given its input files, the files' names and the faults that    *)
(* may happen:                                                             *)
(*   "access"    main may not read an input or cannot open the output      *)
(*   "create"    pthread_create fails                                      *)
(*   "open"      open of an input file fails after access allowed it       *)
(*   "read"      read of an input file fails                               *)
(*   "write"     write of the output file fails                            *)
(*   "spurious"  pthread_cond_wait returns with nobody having signalled    *)
(*                                                                         *)
(* main of hw4WithPrints.c is the same, with prints.  Its threads differ   *)
(* in one place: a first read that finds nothing leaves stillRunning up,   *)
(* as ReadFails does here, so that no round is ever complete.              *)
(***************************************************************************)
EXTENDS XorRounds

CONSTANTS InputFiles,   \* the inputs considered, a subset of Inputs
          Namings,      \* the ways names may occur in each other
          FaultSets     \* the sets of faults considered

AllFaults == {"access", "create", "open", "read", "write", "spurious"}

ASSUME InputFilesAssumption == InputFiles \subseteq Inputs
ASSUME NamingsAssumption ==
  \A m \in Namings : /\ m \subseteq Threads \X Threads
                     /\ \A t \in Threads : <<t, t>> \in m
ASSUME FaultSetsAssumption == FaultSets \subseteq SUBSET AllFaults

NoThread == 0

VARIABLES
  input,          \* the input files
  nameMatches,    \* <<i, t>>: file name t occurs in file name i (strstr)
  faults,         \* what may go wrong
  mainPc,         \* main: "check", "create", "join", "done", "failed"
  mainI,          \* main's loop variable i: threads created, then joined
  pc,             \* where each thread is
  blocksRead,     \* blocks each thread has read, its file offset
  mutex,          \* holder of writeToBuffer
  chunk,          \* blocks XORed into the buffer
  sizeOfChunk,
  stillRunning,
  finishedXoring,
  sizeOfFile,
  output          \* what write() was given, round by round

sharedVars == <<chunk, sizeOfChunk, finishedXoring, sizeOfFile, output>>
given      == <<input, nameMatches, faults>>    \* these never change
mainVars   == <<given, mainPc, mainI>>
vars == <<given, mainPc, mainI, pc, blocksRead, mutex, chunk, sizeOfChunk,
          stillRunning, finishedXoring, sizeOfFile, output>>

PcStates == {"unborn", "open", "read", "lock", "decide", "waiting", "woken",
             "unlock", "exited"}

TypeOK ==
  /\ input \in InputFiles
  /\ nameMatches \in Namings
  /\ faults \in FaultSets
  /\ mainPc \in {"check", "create", "join", "done", "failed"}
  /\ mainI \in 0 .. N
  /\ pc \in [Threads -> PcStates]
  /\ blocksRead \in [Threads -> Nat]
  /\ mutex \in Threads \cup {NoThread}
  /\ chunk \in SUBSET (Threads \X (Nat \ {0}))
  /\ sizeOfChunk \in 0 .. ChunkSize
  /\ stillRunning \in [Threads -> BOOLEAN]
  /\ finishedXoring \in [Threads -> BOOLEAN]
  /\ sizeOfFile \in Nat
  /\ output \in Seq([data : SUBSET (Threads \X (Nat \ {0})),
                     size : 0 .. ChunkSize])

Init ==
  /\ input \in InputFiles
  /\ nameMatches \in Namings
  /\ faults \in FaultSets
  /\ mainPc = "check"
  /\ mainI = 0
  /\ pc = [t \in Threads |-> "unborn"]
  /\ blocksRead = [t \in Threads |-> 0]
  /\ mutex = NoThread
  /\ chunk = {}
  /\ sizeOfChunk = 0
  /\ stillRunning = [t \in Threads |-> TRUE]
  /\ finishedXoring = [t \in Threads |-> FALSE]
  /\ sizeOfFile = 0
  /\ output = << >>

-----------------------------------------------------------------------------
(* main.                                                                   *)

\* Every input file passes access(), the output file opens, the flags are set.
CheckInputs ==
  /\ mainPc = "check"
  /\ mainPc' = "create"
  /\ UNCHANGED <<given, mainI, pc, blocksRead, mutex, stillRunning, sharedVars>>

CheckInputsFails ==
  /\ mainPc = "check"
  /\ "access" \in faults
  /\ mainPc' = "failed"
  /\ UNCHANGED <<given, mainI, pc, blocksRead, mutex, stillRunning, sharedVars>>

\* pthread_create; after the last one main sleeps a second and starts to join.
CreateThread ==
  /\ mainPc = "create"
  /\ mainI < N
  /\ pc' = [pc EXCEPT ![mainI + 1] = "open"]
  /\ IF mainI + 1 = N
     THEN mainPc' = "join" /\ mainI' = 0
     ELSE mainPc' = "create" /\ mainI' = mainI + 1
  /\ UNCHANGED <<given, blocksRead, mutex, stillRunning, sharedVars>>

\* exit() ends the process with whatever threads it has.
CreateThreadFails ==
  /\ mainPc = "create"
  /\ "create" \in faults
  /\ mainPc' = "failed"
  /\ UNCHANGED <<given, mainI, pc, blocksRead, mutex, stillRunning, sharedVars>>

JoinThread ==
  /\ mainPc = "join"
  /\ mainI < N
  /\ pc[mainI + 1] = "exited"
  /\ mainI' = mainI + 1
  /\ UNCHANGED <<given, mainPc, pc, blocksRead, mutex, stillRunning, sharedVars>>

\* Mutant: main announces the size with one thread still to join.
ReportSizeEarly ==
  /\ mainPc = "join"
  /\ mainI = N - 1
  /\ mainPc' = "done"
  /\ UNCHANGED <<given, mainI, pc, blocksRead, mutex, stillRunning, sharedVars>>

\* Announces sizeOfFile and closes the output file.
ReportSize ==
  /\ mainPc = "join"
  /\ mainI = N
  /\ mainPc' = "done"
  /\ UNCHANGED <<given, mainI, pc, blocksRead, mutex, stillRunning, sharedVars>>

Main == \/ CheckInputs  \/ CheckInputsFails
        \/ CreateThread \/ CreateThreadFails
        \/ JoinThread   \/ ReportSize

-----------------------------------------------------------------------------
(* xor(), the body of thread t.                                            *)

\* The first file whose name contains t's: its own, unless a longer name
\* precedes it on the command line.
FindMyIndex(t) ==
  CHOOSE i \in Threads : /\ <<i, t>> \in nameMatches
                         /\ \A j \in 1 .. i - 1 : <<j, t>> \notin nameMatches

\* Mutant: the loop stops one thread short.
RoundCompleteShort ==
  \A t \in 1 .. N - 1 : stillRunning[t] => finishedXoring[t]

\* findNextStep returns some thread's index unless this holds.
RoundComplete ==
  \A t \in Threads : stillRunning[t] => finishedXoring[t]

\* Mutant: sizes are added up.
ChunkGrownBy(n) == sizeOfChunk + n

\* sizeOfChunk once a block of n bytes is XORed in.
ChunkGrownTo(n) == IF sizeOfChunk < n THEN n ELSE sizeOfChunk

\* Mutant: the writer wakes nobody.
NoBroadcast(t) == [pc EXCEPT ![t] = "unlock"]

\* Where every thread is once t has broadcast wakeUp.
AfterBroadcast(t) ==
  [u \in Threads |-> CASE u = t               -> "unlock"
                      [] pc[u] = "waiting" -> "woken"
                      [] OTHER             -> pc[u]]

OpenFile(t) ==
  /\ pc[t] = "open"
  /\ pc' = [pc EXCEPT ![t] = "read"]
  /\ UNCHANGED <<mainVars, blocksRead, mutex, stillRunning, sharedVars>>

\* pthread_exit; stillRunning[t] stays true.
OpenFileFails(t) ==
  /\ pc[t] = "open"
  /\ "open" \in faults
  /\ pc' = [pc EXCEPT ![t] = "exited"]
  /\ UNCHANGED <<mainVars, blocksRead, mutex, stillRunning, sharedVars>>

ReadBlock(t) ==
  /\ pc[t] = "read"
  /\ blocksRead[t] < input[t].blocks
  /\ blocksRead' = [blocksRead EXCEPT ![t] = @ + 1]
  /\ pc' = [pc EXCEPT ![t] = "lock"]
  /\ UNCHANGED <<mainVars, mutex, stillRunning, sharedVars>>

\* read() returns 0: the flag is cleared without the mutex and without waking
\* anybody, and the thread exits.
ReadEof(t) ==
  /\ pc[t] = "read"
  /\ blocksRead[t] = input[t].blocks
  /\ stillRunning' = [stillRunning EXCEPT ![FindMyIndex(t)] = FALSE]
  /\ pc' = [pc EXCEPT ![t] = "exited"]
  /\ UNCHANGED <<mainVars, blocksRead, mutex, sharedVars>>

\* pthread_exit; stillRunning[t] stays true.
ReadFails(t) ==
  /\ pc[t] = "read"
  /\ "read" \in faults
  /\ pc' = [pc EXCEPT ![t] = "exited"]
  /\ UNCHANGED <<mainVars, blocksRead, mutex, stillRunning, sharedVars>>

\* Takes the mutex and XORs the block that was read into the buffer.
XorBlock(t) ==
  /\ pc[t] = "lock"
  /\ mutex = NoThread
  /\ mutex' = t
  /\ chunk' = SymDiff(chunk, {<<t, blocksRead[t]>>})
  /\ sizeOfChunk' = ChunkGrownTo(BlockSize(input, t, blocksRead[t]))
  /\ finishedXoring' = [finishedXoring EXCEPT ![FindMyIndex(t)] = TRUE]
  /\ pc' = [pc EXCEPT ![t] = "decide"]
  /\ UNCHANGED <<mainVars, blocksRead, stillRunning, sizeOfFile, output>>

\* pthread_cond_wait, which no loop surrounds.
WaitForOthers(t) ==
  /\ pc[t] = "decide"
  /\ ~ RoundComplete
  /\ mutex' = NoThread
  /\ pc' = [pc EXCEPT ![t] = "waiting"]
  /\ UNCHANGED <<mainVars, blocksRead, stillRunning, sharedVars>>

\* Mutant: the size of the buffer is not reset.
WriteToOutputFileNoSize ==
  /\ output' = Append(output, [data |-> chunk, size |-> sizeOfChunk])
  /\ sizeOfFile' = sizeOfFile + sizeOfChunk
  /\ chunk' = {}
  /\ finishedXoring' =
       [u \in Threads |-> IF stillRunning[u] THEN FALSE ELSE finishedXoring[u]]
  /\ UNCHANGED sizeOfChunk

\* Mutant: the buffer is not cleared.
WriteToOutputFileNoClear ==
  /\ output' = Append(output, [data |-> chunk, size |-> sizeOfChunk])
  /\ sizeOfFile' = sizeOfFile + sizeOfChunk
  /\ sizeOfChunk' = 0
  /\ finishedXoring' =
       [u \in Threads |-> IF stillRunning[u] THEN FALSE ELSE finishedXoring[u]]
  /\ UNCHANGED chunk

\* Appends the buffer to the output file and clears it for the next round.
WriteToOutputFile ==
  /\ output' = Append(output, [data |-> chunk, size |-> sizeOfChunk])
  /\ sizeOfFile' = sizeOfFile + sizeOfChunk
  /\ sizeOfChunk' = 0
  /\ chunk' = {}
  /\ finishedXoring' =
       [u \in Threads |-> IF stillRunning[u] THEN FALSE ELSE finishedXoring[u]]

\* The thread that completes the round writes it and broadcasts.
WriteRound(t) ==
  /\ pc[t] = "decide"
  /\ RoundComplete
  /\ WriteToOutputFile
  /\ stillRunning' = [stillRunning EXCEPT ![FindMyIndex(t)] = TRUE]
  /\ pc' = AfterBroadcast(t)
  /\ UNCHANGED <<mainVars, blocksRead, mutex>>

\* pthread_exit with the mutex held and the buffer as it was.
WriteFails(t) ==
  /\ pc[t] = "decide"
  /\ RoundComplete
  /\ "write" \in faults
  /\ pc' = [pc EXCEPT ![t] = "exited"]
  /\ UNCHANGED <<mainVars, blocksRead, mutex, stillRunning, sharedVars>>

SpuriousWakeup(t) ==
  /\ pc[t] = "waiting"
  /\ "spurious" \in faults
  /\ pc' = [pc EXCEPT ![t] = "woken"]
  /\ UNCHANGED <<mainVars, blocksRead, mutex, stillRunning, sharedVars>>

\* pthread_cond_wait returns once it has the mutex again.
Reacquire(t) ==
  /\ pc[t] = "woken"
  /\ mutex = NoThread
  /\ mutex' = t
  /\ pc' = [pc EXCEPT ![t] = "unlock"]
  /\ UNCHANGED <<mainVars, blocksRead, stillRunning, sharedVars>>

Unlock(t) ==
  /\ pc[t] = "unlock"
  /\ mutex' = NoThread
  /\ pc' = [pc EXCEPT ![t] = "read"]
  /\ UNCHANGED <<mainVars, blocksRead, stillRunning, sharedVars>>

Thread(t) ==
  /\ mainPc # "failed"
  /\ \/ OpenFile(t)      \/ OpenFileFails(t)
     \/ ReadBlock(t)     \/ ReadEof(t)        \/ ReadFails(t)
     \/ XorBlock(t)      \/ WaitForOthers(t)
     \/ WriteRound(t)    \/ WriteFails(t)
     \/ SpuriousWakeup(t) \/ Reacquire(t)     \/ Unlock(t)

Next == Main \/ \E t \in Threads : Thread(t)

Spec == Init /\ [][Next]_vars

\* The scheduler runs main and every thread that can run.
Fairness == WF_vars(Main) /\ \A t \in Threads : WF_vars(Thread(t))

FairSpec == Spec /\ Fairness

-----------------------------------------------------------------------------
(* Properties.                                                             *)

\* No file's name occurs in the name of an earlier one.
UnambiguousNames ==
  \A t \in Threads : \A i \in 1 .. t - 1 : <<i, t>> \notin nameMatches

NoSpuriousWakeups == "spurious" \notin faults

\* A thread that ended for another reason than the end of its file: its flag is
\* still up.
ThreadFailed == \E t \in Threads : pc[t] = "exited" /\ stillRunning[t]

\* Every round the program wrote is the XOR of the same round of every file
\* long enough to have it, at its full size: no thread overtakes another, no
\* block is missing from its round, none lands in a later one.  It is about
\* findNextStep, cond_wait and writeToOutputFile together, and survives every
\* I/O fault and any names; it needs that nothing wakes spuriously.
OutputExact ==
  NoSpuriousWakeups => \A k \in 1 .. Len(output) : ExactRound(input, k, output[k])

\* When main announces the output file and no thread failed, the file is
\* complete and the size it prints is that of the largest input.
CreatedComplete ==
  NoSpuriousWakeups /\ mainPc = "done" /\ ~ ThreadFailed =>
    /\ IsLastRound(input, Len(output))
    /\ IsOutputSize(input, sizeOfFile)

\* Blocks of file t that have been XORed into some round.
BlocksXored(t) == IF pc[t] = "lock" THEN blocksRead[t] - 1 ELSE blocksRead[t]

\* The places of blocks: the buffer, 0, and the rounds written.
Places == 0 .. Len(output)
IsIn(block, place) ==
  IF place = 0 THEN block \in chunk ELSE block \in output[place].data

\* Whatever goes wrong, spurious wakeups included, every block that was XORed
\* is in exactly one round, written or in the buffer, and no other block is in
\* any: none is lost when the buffer is cleared and none is used twice.
EachBlockOnce ==
  \A t \in Threads : \A k \in 1 .. input[t].blocks :
    IF k <= BlocksXored(t)
    THEN \E place \in Places :
           \A other \in Places : IsIn(<<t, k>>, other) <=> other = place
    ELSE \A place \in Places : ~ IsIn(<<t, k>>, place)

\* Every thread that has not exited sleeps on wakeUp, and one does.
AllAsleep ==
  /\ mainPc = "join"
  /\ \E t \in Threads : pc[t] = "waiting"
  /\ \A t \in Threads : pc[t] \in {"waiting", "exited"}

\* The threads never all sleep with nobody left to wake them.
NeverAllAsleep == ~ AllAsleep

\* If they do, though the names are unambiguous and no thread failed, it is for
\* one reason only: the last file the round was waiting for ended after the
\* others fell asleep, and its thread cleared its flag without waking them.
\* The round is complete and nobody writes it; files of the same number of
\* chunks never come to this.
AsleepOnlyInCompleteRound ==
  AllAsleep /\ NoSpuriousWakeups /\ UnambiguousNames /\ ~ ThreadFailed =>
    /\ RoundComplete
    /\ \E t, u \in Threads : /\ pc[t] = "waiting" /\ ~ stillRunning[u]
                            /\ input[u].blocks < input[t].blocks

\* Files with the same number of chunks never lose a wakeup: main announces
\* the output file in the end, unless something fails.  Between files of
\* different lengths the threads may come to sleep for ever, see NeverAllAsleep.
EventuallyCreated ==
  (/\ NoSpuriousWakeups /\ UnambiguousNames
   /\ \A t, u \in Threads : input[t].blocks = input[u].blocks)
    => <>(mainPc \in {"done", "failed"} \/ ThreadFailed)

Xored == INSTANCE XorFile
           WITH NotReported <- -1,
                output <- IF NoSpuriousWakeups THEN output ELSE << >>,
                report <- IF NoSpuriousWakeups /\ mainPc = "done" /\ ~ ThreadFailed
                          THEN sizeOfFile ELSE -1

\* Unless something wakes spuriously, the program implements the round-by-round
\* XOR whatever its files are called and whatever I/O fails: it writes exact
\* rounds, one at a time, and when it announces a size with no thread failed,
\* it is that of the complete file.
ImplementsXorFile == Xored!Spec
-----------------------------------------------------------------------------
(* Why OutputExact and CreatedComplete hold.                               *)

RoundsWritten == Len(output)

\* A thread that XORed its block of the current round is one block ahead of
\* the output; finishedXoring says exactly that.
InRound(t) == BlocksXored(t) = RoundsWritten + 1

\* A thread waiting for the mutex has read a block, and none reads more than
\* there are.
LockAfterRead ==
  \A t \in Threads : /\ pc[t] = "lock" => blocksRead[t] >= 1
                     /\ blocksRead[t] <= input[t].blocks

\* The only places where a thread is ahead, and a thread is always on its own
\* side of the mutex.
Lockstep ==
  \A t \in Threads :
    /\ pc[t] \in {"decide", "unlock"} => mutex = t
    /\ stillRunning[t] =>
         /\ BlocksXored(t) \in {RoundsWritten, RoundsWritten + 1}
         /\ finishedXoring[t] <=> InRound(t)
    /\ pc[t] \in {"decide", "waiting"} => InRound(t)
    /\ pc[t] \in {"unborn", "open", "read", "lock", "woken", "unlock"} =>
         BlocksXored(t) = RoundsWritten
    /\ pc[t] # "exited" => stillRunning[t]
    /\ ~ stillRunning[t] =>
         /\ BlocksXored(t) = input[t].blocks
         /\ input[t].blocks <= RoundsWritten

\* The buffer holds the blocks of the current round that were XORed so far,
\* and sizeOfChunk is the size of the largest of them.
BufferExact ==
  /\ chunk = {<<t, RoundsWritten + 1>> : t \in {u \in Threads : InRound(u)}}
  /\ \A t \in Threads :
       InRound(t) => BlockSize(input, t, RoundsWritten + 1) <= sizeOfChunk
  /\ \/ sizeOfChunk = 0
     \/ \E t \in Threads :
          InRound(t) /\ sizeOfChunk = BlockSize(input, t, RoundsWritten + 1)

\* Every round but the last is full.
FileSizeExact ==
  /\ RoundsWritten = 0 => sizeOfFile = 0
  /\ RoundsWritten > 0 =>
       sizeOfFile =
         (RoundsWritten - 1) * ChunkSize + output[RoundsWritten].size

\* A round that all files have does not stay behind: when every thread has XORed
\* its block, one of them is about to look at the flags, or failed to write.
SomebodyWrites ==
  (\A t \in Threads : stillRunning[t] /\ finishedXoring[t]) =>
    \E t \in Threads : pc[t] = "decide" \/ (pc[t] = "exited" /\ stillRunning[t])

\* main creates and joins the threads in order.
MainInOrder ==
  /\ mainPc = "check" => mainI = 0
  /\ mainPc \in {"check", "create"} =>
       mainI < N /\ \A t \in mainI + 1 .. N : pc[t] = "unborn"
  /\ mainPc = "join" => \A t \in 1 .. mainI : pc[t] = "exited"
  /\ mainPc = "done" => \A t \in Threads : pc[t] = "exited"

\* The flags of an index that no thread takes for its own stay as main set them,
\* so with ambiguous names no round is ever complete.
UnclaimedFlags ==
  /\ \A i \in Threads : (\A t \in Threads : FindMyIndex(t) # i) =>
       stillRunning[i] /\ ~ finishedXoring[i]
  /\ ~ UnambiguousNames => output = << >>

\* The inductive invariant.  Lockstep alone is not enough: that the buffer is
\* the round takes BufferExact, and both take OutputExact one round further.
IInv ==
  /\ TypeOK
  /\ LockAfterRead
  /\ OutputExact
  /\ MainInOrder
  /\ UnclaimedFlags
  /\ NoSpuriousWakeups /\ UnambiguousNames =>
       Lockstep /\ BufferExact /\ FileSizeExact /\ SomebodyWrites
=============================================================================
