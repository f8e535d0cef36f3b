------------------------------- MODULE Hw4Lian -------------------------------
(***************************************************************************)
(* ex4/hw4Lian.c: the XOR of files by threads that take turns.  A thread   *)
(* reads a block, waits until it is its turn (shouldRun), XORs the block   *)
(* into the buffer, writes the buffer if it is the last of the round, and  *)
(* passes the turn to the next thread that is not excluded.  Each thread   *)
(* sleeps on a condition variable of its own.                              *)
(*                                                                         *)
(* Everything a thread does with the lock held is one step: the flags      *)
(* excluded are the only thing read there that others write without the    *)
(* lock, they only go up, and nextThread's scan returns what it would at   *)
(* the moment it reads the last of them.  Threads are 1 .. N, the C index  *)
(* plus one.  Faults:                                                      *)
(*   "start"     main cannot open a file or create a thread                *)
(*   "read"      read fails          "write"  write fails                  *)
(*   "spurious"  pthread_cond_wait returns with nobody having signalled    *)
(***************************************************************************)
EXTENDS XorRounds

CONSTANTS InputFiles, Faults

ASSUME InputFilesAssumption == InputFiles \subseteq Inputs
ASSUME FaultsAssumption == Faults \subseteq {"start", "read", "write", "spurious"}

NoThread == 0

VARIABLES
  input,
  mainPc,      \* "open", "create", "signal", "join", "done" or "failed"
  mainI,       \* threads created, then joined
  pc,          \* where each thread is; "failed" threads have exited too
  reads,       \* reads each thread has made
  nextT,       \* its nextT
  shouldRun,   \* whose turn it is
  excluded,
  deadHolder,  \* a thread exited with the lock
  chunk,       \* blocks XORed into buffer
  bufferUsed,
  output,      \* what write() was given
  fileSize     \* st_size of the output file

vars == <<input, mainPc, mainI, pc, reads, nextT, shouldRun, excluded,
          deadHolder, chunk, bufferUsed, output, fileSize>>
mainVars == <<input, mainPc, mainI>>
turnVars ==
  <<shouldRun, excluded, deadHolder, chunk, bufferUsed, output, fileSize>>

TypeOK ==
  /\ input \in InputFiles
  /\ mainPc \in {"open", "create", "signal", "join", "done", "failed"}
  /\ mainI \in 0 .. N
  /\ pc \in [Threads -> {"unborn", "read", "lock", "waiting", "woken", "exclude",
                         "signal", "exited", "failed"}]
  /\ reads \in [Threads -> Nat]
  /\ \A t \in Threads : reads[t] <= input[t].blocks + 1
  /\ nextT \in [Threads -> Threads \cup {NoThread}]
  /\ shouldRun \in Threads
  /\ excluded \in [Threads -> BOOLEAN]
  /\ deadHolder \in BOOLEAN
  /\ chunk \in SUBSET (Threads \X (Nat \ {0}))
  /\ bufferUsed \in 0 .. ChunkSize
  /\ output \in Seq([data : SUBSET (Threads \X (Nat \ {0})), size : 1 .. ChunkSize])
  /\ fileSize \in Nat

Init ==
  /\ input \in InputFiles
  /\ mainPc = "open"
  /\ mainI = 0
  /\ pc = [t \in Threads |-> "unborn"]
  /\ reads = [t \in Threads |-> 0]
  /\ nextT = [t \in Threads |-> NoThread]
  /\ shouldRun = 1
  /\ excluded = [t \in Threads |-> FALSE]
  /\ deadHolder = FALSE
  /\ chunk = {}
  /\ bufferUsed = 0
  /\ output = << >>
  /\ fileSize = 0

-----------------------------------------------------------------------------
(* main.                                                                   *)

OpenFiles ==
  /\ mainPc = "open"
  /\ mainPc' = "create"
  /\ UNCHANGED <<input, mainI, pc, reads, nextT, turnVars>>

\* exit() ends the process with whatever threads it has.
StartFails ==
  /\ mainPc \in {"open", "create"}
  /\ "start" \in Faults
  /\ mainPc' = "failed"
  /\ UNCHANGED <<input, mainI, pc, reads, nextT, turnVars>>

CreateThread ==
  /\ mainPc = "create"
  /\ pc' = [pc EXCEPT ![mainI + 1] = "read"]
  /\ IF mainI + 1 = N
     THEN mainPc' = "signal" /\ mainI' = 0
     ELSE mainPc' = "create" /\ mainI' = mainI + 1
  /\ UNCHANGED <<input, reads, nextT, turnVars>>

\* Where every thread is once conds[t] was signalled.
Signalled(places, t) ==
  [places EXCEPT ![t] = IF @ = "waiting" THEN "woken" ELSE @]

\* After a second main signals the first thread.
SignalFirst ==
  /\ mainPc = "signal"
  /\ mainPc' = "join"
  /\ pc' = Signalled(pc, 1)
  /\ UNCHANGED <<input, mainI, reads, nextT, turnVars>>

\* After the last join main announces the size of the output file.
JoinThread ==
  /\ mainPc = "join"
  /\ pc[mainI + 1] \in {"exited", "failed"}
  /\ mainI' = mainI + 1
  /\ mainPc' = IF mainI + 1 = N THEN "done" ELSE "join"
  /\ UNCHANGED <<input, pc, reads, nextT, turnVars>>

Main == OpenFiles \/ StartFails \/ CreateThread \/ SignalFirst \/ JoinThread

-----------------------------------------------------------------------------
(* threadReader, the body of thread t.                                     *)

\* Threads behind t, in the order of the turns, and t itself as the last.
Distance(t, u) == IF u > t THEN u - t ELSE u - t + N

\* The next thread that is not excluded.  A thread that asks is not excluded.
NextThread(t) ==
  CHOOSE u \in Threads :
    /\ ~ excluded[u]
    /\ \A v \in Threads : ~ excluded[v] => Distance(t, u) <= Distance(t, v)

\* Bytes of t's last read; after the last block of its file there are none.
BytesRead(t) ==
  IF reads[t] <= input[t].blocks THEN BlockSize(input, t, reads[t]) ELSE 0

\* What t has read.
BlockRead(t) ==
  IF reads[t] <= input[t].blocks THEN {<<t, reads[t]>>} ELSE {}

Read(t) ==
  /\ pc[t] = "read"
  /\ reads' = [reads EXCEPT ![t] = @ + 1]
  /\ pc' = [pc EXCEPT ![t] = "lock"]
  /\ UNCHANGED <<mainVars, nextT, turnVars>>

\* pthread_exit; the thread is not excluded.
ReadFails(t) ==
  /\ pc[t] = "read"
  /\ "read" \in Faults
  /\ pc' = [pc EXCEPT ![t] = "failed"]
  /\ UNCHANGED <<mainVars, reads, nextT, turnVars>>

\* A thread that found itself to be the next does not look at shouldRun when
\* it takes the lock; one that slept does.
MyTurn(t) ==
  /\ ~ deadHolder
  /\ \/ pc[t] \in {"lock", "woken"} /\ shouldRun = t
     \/ pc[t] = "lock" /\ nextT[t] = t

\* Not t's turn: it signals the next thread and sleeps.
WaitForTurn(t) ==
  /\ pc[t] \in {"lock", "woken"}
  /\ ~ deadHolder
  /\ ~ MyTurn(t)
  /\ nextT' = [nextT EXCEPT ![t] = NextThread(t)]
  /\ pc' = [Signalled(pc, NextThread(t)) EXCEPT ![t] = "waiting"]
  /\ UNCHANGED <<mainVars, reads, turnVars>>

\* Mutant: the sizes of the blocks are added up.
BufferUsedAdded(t) == bufferUsed + BytesRead(t)

\* The size of the buffer with t's block in it.
BufferUsedWith(t) == IF bufferUsed < BytesRead(t) THEN BytesRead(t) ELSE bufferUsed

\* The block goes into the buffer, and the turn to the next thread.
TakeTurn(t) ==
  /\ MyTurn(t)
  /\ nextT' = [nextT EXCEPT ![t] = NextThread(t)]
  /\ shouldRun' = NextThread(t)
  /\ pc' = [pc EXCEPT ![t] = IF BytesRead(t) < ChunkSize THEN "exclude" ELSE "signal"]

\* Mutant: the size of the buffer is not reset.
EmptyBufferNoSize == chunk' = {} /\ UNCHANGED bufferUsed

EmptyBuffer == chunk' = {} /\ bufferUsed' = 0

\* Another thread is to add to the round.
Xor(t) ==
  /\ TakeTurn(t)
  /\ NextThread(t) > t
  /\ chunk' = chunk \cup BlockRead(t)
  /\ bufferUsed' = BufferUsedWith(t)
  /\ UNCHANGED <<mainVars, reads, excluded, deadHolder, output, fileSize>>

\* t is the last of the round and writes the buffer; 0 bytes leave the file as
\* it is.
XorAndWrite(t) ==
  /\ TakeTurn(t)
  /\ NextThread(t) <= t
  /\ LET size == BufferUsedWith(t) IN
       /\ output' = IF size = 0 THEN output
                    ELSE Append(output, [data |-> chunk \cup BlockRead(t), size |-> size])
       /\ fileSize' = fileSize + size
  /\ EmptyBuffer
  /\ UNCHANGED <<mainVars, reads, excluded, deadHolder>>

\* pthread_exit with the lock.
WriteFails(t) ==
  /\ MyTurn(t)
  /\ NextThread(t) <= t
  /\ "write" \in Faults
  /\ pc' = [pc EXCEPT ![t] = "failed"]
  /\ deadHolder' = TRUE
  /\ chunk' = chunk \cup BlockRead(t)
  /\ bufferUsed' = BufferUsedWith(t)
  /\ nextT' = [nextT EXCEPT ![t] = NextThread(t)]
  /\ UNCHANGED <<mainVars, reads, shouldRun, excluded, output, fileSize>>

\* The end of t's file: the flag is set without the lock.
Exclude(t) ==
  /\ pc[t] = "exclude"
  /\ excluded' = [excluded EXCEPT ![t] = TRUE]
  /\ pc' = [pc EXCEPT ![t] = "signal"]
  /\ UNCHANGED <<mainVars, reads, nextT, shouldRun, deadHolder, chunk, bufferUsed,
                 output, fileSize>>

\* Mutant: nobody is signalled.
SignalNobody(t) == pc

\* Where the threads are once t has signalled the next one.
SignalNext(t) == Signalled(pc, nextT[t])

Signal(t) ==
  /\ pc[t] = "signal"
  /\ pc' = [SignalNext(t) EXCEPT ![t] = IF excluded[t] THEN "exited" ELSE "read"]
  /\ UNCHANGED <<mainVars, reads, nextT, turnVars>>

SpuriousWakeup(t) ==
  /\ pc[t] = "waiting"
  /\ mainPc # "failed"
  /\ "spurious" \in Faults
  /\ pc' = [pc EXCEPT ![t] = "woken"]
  /\ UNCHANGED <<mainVars, reads, nextT, turnVars>>

Thread(t) ==
  /\ mainPc # "failed"
  /\ \/ Read(t)        \/ ReadFails(t)  \/ WaitForTurn(t)
     \/ Xor(t)         \/ XorAndWrite(t) \/ WriteFails(t)
     \/ Exclude(t)     \/ Signal(t)

Next == Main \/ \E t \in Threads : Thread(t) \/ SpuriousWakeup(t)

Spec == Init /\ [][Next]_vars

\* The scheduler runs main and every thread that can run.
FairSpec == Spec /\ WF_vars(Main) /\ \A t \in Threads : WF_vars(Thread(t))

-----------------------------------------------------------------------------
(* Properties.                                                             *)

\* Nothing went wrong and nothing is left in the buffer.
NothingLeft == chunk = {} /\ \A t \in Threads : pc[t] # "failed"

Xored == INSTANCE XorFile
           WITH NotReported <- -1,
                report <- IF mainPc = "done" /\ NothingLeft
                          THEN fileSize ELSE -1

\* The threads take turns: whatever fails, whoever wakes spuriously and
\* however late a thread is excluded, every round written is the XOR of that
\* round of all files long enough, and the file main announces is complete
\* unless a thread failed or a last round was left in the buffer.  (A round is
\* left there when its last thread hands the turn to one that has set no flag
\* yet but has no turn to take any more.)
ImplementsXorFile == Xored!Spec

\* The turn is with a thread that will not take it: one that has ended, or any
\* if the lock went with another.
TurnLost == deadHolder \/ pc[shouldRun] \in {"exited", "failed"}

\* The program ends, unless the turn is lost: as long as the thread whose turn
\* it is lives, the signals that pass between the threads wake it, and no
\* signal is sent before its thread sleeps and missed.
EndsOrTurnLost == <>(mainPc \in {"done", "failed"} \/ TurnLost)

-----------------------------------------------------------------------------
(* Why ImplementsXorFile holds.                                            *)

\* The turns t has taken.
Taken(t) ==
  IF pc[t] \in {"lock", "waiting", "woken"} THEN reads[t] - 1 ELSE reads[t]

\* The round that is in the buffer.
Round == Len(output) + 1

\* t has had its last turn, whether the others know or not.
AtEnd(t) == excluded[t] \/ pc[t] = "exclude"

\* Who has had its last turn has no block left, and only who has reads at the
\* end of its file.
EndOfFile(t) ==
  /\ AtEnd(t) => input[t].blocks <= reads[t]
  /\ excluded[t] => pc[t] \in {"signal", "exited"}
  /\ pc[t] = "exited" => excluded[t]
  /\ pc[t] \in {"lock", "waiting", "woken"} => reads[t] >= 1
  /\ Taken(t) > input[t].blocks => AtEnd(t) \/ (deadHolder /\ pc[t] = "failed")

\* A thread that takes the lock as its own next is the last one.
OwnNext ==
  \A t \in Threads :
    nextT[t] = t /\ pc[t] \in {"unborn", "exclude", "signal", "read", "lock"} =>
      shouldRun = t /\ \A u \in Threads \ {t} : excluded[u]

\* The threads before shouldRun have had their turn in this round and the others
\* have not, as long as there is a thread that may take it.
TurnsInOrder ==
  ~ deadHolder /\ (\E t \in Threads : ~ AtEnd(t)) =>
    \A t \in Threads : ~ excluded[t] =>
      Taken(t) = IF t < shouldRun THEN Round ELSE Round - 1

\* The buffer is what was read for this round so far.
BufferExact ==
  /\ \A t \in Threads : Taken(t) <= Round
  /\ LET in == {t \in Threads : Taken(t) = Round /\ Round <= input[t].blocks}
     IN  /\ chunk = {<<t, Round>> : t \in in}
         /\ \A t \in in : BlockSize(input, t, Round) <= bufferUsed
         /\ bufferUsed = 0 \/ \E t \in in : bufferUsed = BlockSize(input, t, Round)

\* Every round written is exact, and every one but the last is full.
OutputExact == ExactRounds(input, output) /\ fileSize = RoundsSize(output)

\* main creates and joins the threads in order.
MainInOrder ==
  /\ mainPc \in {"open", "create"} =>
       mainI < N /\ \A t \in mainI + 1 .. N : pc[t] = "unborn"
  /\ mainPc \in {"open", "signal"} => mainI = 0
  /\ mainPc = "join" => mainI < N /\ \A t \in 1 .. mainI : pc[t] \in {"exited", "failed"}
  /\ mainPc = "done" => \A t \in Threads : pc[t] \in {"exited", "failed"}

\* The invariant of the rounds: what is written is a whole round because whoever
\* finds nobody behind it in the turns is the last of TurnsInOrder.
RoundsInv ==
  /\ TypeOK /\ OwnNext /\ TurnsInOrder /\ BufferExact /\ OutputExact /\ MainInOrder
  /\ \A t \in Threads : EndOfFile(t)

\* If the thread whose turn it is sleeps, its signal is on its way: from the
\* thread that gave it the turn, which excludes itself first, or from main.
NoSignalMissed ==
  ~ deadHolder /\ pc[shouldRun] = "waiting" =>
    \/ \E t \in Threads : pc[t] \in {"exclude", "signal"} /\ nextT[t] = shouldRun
    \/ mainPc \in {"open", "create", "signal", "failed"} /\ shouldRun = 1

\* main creates the threads in order, and signals when it has created them all.
AllCreated ==
  \A t \in Threads :
    pc[t] = "unborn" => mainPc \in {"open", "create", "failed"} /\ t > mainI

\* The inductive invariant.
IInv == RoundsInv /\ NoSignalMissed /\ AllCreated

\* While main waits for the threads and the turn is not lost, a thread can run:
\* the safety half of EndsOrTurnLost.
SomebodyRuns ==
  mainPc = "join" /\ ~ TurnLost =>
    \E t \in Threads : pc[t] \in {"read", "exclude", "signal"} \/ MyTurn(t)
=============================================================================
