-------------------------------- MODULE SymMng --------------------------------
(***************************************************************************)
(* ex1/sym_mng.c: the manager forks a child for each symbol of the         *)
(* pattern, takes their pids from ps, and waits for them in turn; a child  *)
(* that stopped is continued, or terminated when it has stopped            *)
(* terminationBound times.  A fork that fails ("fork" in Faults) is counted*)
(* as a child: a slot of PIDs stays 0, and so the manager waits for, and   *)
(* signals, its whole process group.                                       *)
(*                                                                         *)
(* ps lists the shell that popen started as well.  Its pid follows the     *)
(* children's unless pids wrapped around ("wrap" in Faults).  One row more *)
(* than PIDs has slots is so written, behind it.                           *)
(***************************************************************************)
EXTENDS SymCount

CONSTANT TerminationBound

ASSUME BoundAssumption == TerminationBound \in Nat

\* The 4 * Len(Pattern) bytes that malloc was asked for, in glibc of 64 bits, have
\* at least 4 more behind them, where the row too many does no harm.  With 6, 10,
\* 14... symbols they have not: it overwrites the size of the next chunk, and the
\* free at the end may abort.
ASSUME RoomForShell == Len(Pattern) <= 2 \/ Len(Pattern) % 4 # 2

Shell == Len(Pattern) + 1
None == 0

VARIABLES
  mpc,            \* "fork", "list", "wait", "done", "failed" or "killed"
  PIDs,           \* the processes waited for
  stopedCounter,  \* how often each has stopped
  PIDsPointer,
  PIDsSize,
  shellReaped

managerVars == <<mpc, PIDs, stopedCounter, PIDsPointer, PIDsSize, shellReaped>>
vars == <<childVars, managerVars>>

Slots == 0 .. Len(Pattern) - 1
Used == 0 .. PIDsSize - 1

TypeOK ==
  /\ ChildTypeOK
  /\ mpc \in {"fork", "list", "wait", "done", "failed", "killed"}
  /\ PIDs \in [Slots -> Children \cup {Shell, None}]
  /\ stopedCounter \in [Slots -> Nat]
  /\ PIDsSize \in 0 .. Len(Pattern)
  /\ PIDsPointer \in Slots \cup {0}
  /\ mpc = "wait" /\ PIDsSize > 0 => PIDsPointer < PIDsSize
  /\ shellReaped \in BOOLEAN

\* PIDs and stopedCounter come from malloc and nobody clears them: they are 0
\* because the heap is fresh, main having freed nothing before.
Init ==
  /\ ChildInit
  /\ mpc = IF Pattern = << >> THEN "list" ELSE "fork"
  /\ PIDs = [s \in Slots |-> None]
  /\ stopedCounter = [s \in Slots |-> 0]
  /\ PIDsPointer = 0
  /\ PIDsSize = 0
  /\ shellReaped = FALSE

\* A child, or -1, is counted.
Fork ==
  /\ mpc = "fork"
  /\ \/ cpc' = [cpc EXCEPT ![PIDsSize + 1] = "running"]
     \/ "fork" \in Faults /\ UNCHANGED cpc
  /\ PIDsSize' = PIDsSize + 1
  /\ mpc' = IF PIDsSize + 1 = Len(Pattern) THEN "list" ELSE "fork"
  /\ UNCHANGED <<file, news, offset, eof, buffer, pointer, occurance, PIDs,
                 stopedCounter, PIDsPointer, shellReaped>>

\* The manager's processes.
Started == {p \in 1 .. Shell : p = Shell \/ cpc[p] # "unborn"}

\* The row of process p in ps, in the order of the pids: the processes started
\* since `first` got lower pids than those before.
Row(p, first) ==
  Cardinality({q \in Started : IF p >= first THEN first <= q /\ q <= p
                                             ELSE first <= q \/ q <= p})

\* The array as it is filled row by row.
FirstRows(first) ==
  [s \in Slots |-> LET found == {p \in Started : Row(p, first) = s + 1}
                   IN  IF found = {} THEN None ELSE CHOOSE p \in found : TRUE]

InsertChildsToAnArray ==
  /\ mpc = "list"
  /\ \E first \in IF "wrap" \in Faults THEN Started ELSE {1} :
       PIDs' = FirstRows(first)
  /\ mpc' = IF PIDsSize = 0 THEN "done" ELSE "wait"
  /\ UNCHANGED <<childVars, stopedCounter, PIDsPointer, PIDsSize, shellReaped>>

\* Mutant: the counter does not move with its process.
CounterStays == stopedCounter

Last == PIDsSize - 1

\* stopedCounter when the process at PIDsPointer leaves the list.
CounterMoved ==
  [stopedCounter EXCEPT ![PIDsPointer] = stopedCounter[Last], ![Last] = 0]

\* Mutant: PIDsPointer stays where it is.
TakeOutKeepsPointer ==
  /\ PIDs' = [PIDs EXCEPT ![PIDsPointer] = PIDs[Last], ![Last] = None]
  /\ PIDsSize' = Last
  /\ UNCHANGED PIDsPointer
  /\ mpc' = IF Last = 0 THEN "done" ELSE "wait"

\* The last process takes the place of the one at PIDsPointer.
TakeOut ==
  /\ PIDs' = [PIDs EXCEPT ![PIDsPointer] = PIDs[Last], ![Last] = None]
  /\ PIDsSize' = Last
  /\ PIDsPointer' = 0
  /\ mpc' = IF Last = 0 THEN "done" ELSE "wait"

Waited == PIDs[PIDsPointer]

\* The processes that waitpid may report: any one if the pid is 0.
Reportable == IF Waited = None THEN Children \cup {Shell} ELSE {Waited}

WaitExited ==
  /\ mpc = "wait"
  /\ \/ \E c \in Reportable \cap Children :
          /\ cpc[c] \in {"exited", "notStarted"}
          /\ cpc' = [cpc EXCEPT ![c] = IF @ = "exited" THEN "reaped" ELSE "buried"]
          /\ UNCHANGED shellReaped
     \/ /\ Shell \in Reportable /\ ~ shellReaped
        /\ shellReaped' = TRUE
        /\ UNCHANGED cpc
  /\ TakeOut
  /\ stopedCounter' = CounterMoved
  /\ UNCHANGED <<file, news, offset, eof, buffer, pointer, occurance>>

StoppedAgain == stopedCounter[PIDsPointer] + 1

\* waitpid reports that child c stopped.
WaitStopped(c) ==
  /\ mpc = "wait"
  /\ c \in Reportable
  /\ news[c] = "stopped"

\* Mutant: SIGTERM alone, which a stopped process does not handle.
AfterSIGTERM == "stopped"

\* What a stopped child does after SIGTERM and SIGCONT.
AfterSIGTERMAndSIGCONT == "terminating"

\* The child is not waited for again.
TerminateChild ==
  /\ Waited \in Children /\ WaitStopped(Waited)
  /\ StoppedAgain = TerminationBound
  /\ cpc' = [cpc EXCEPT ![Waited] = AfterSIGTERMAndSIGCONT]
  /\ news' = [news EXCEPT ![Waited] = "continued"]
  /\ TakeOut
  /\ stopedCounter' = CounterMoved
  /\ UNCHANGED <<file, offset, eof, buffer, pointer, occurance, shellReaped>>

\* kill(0, SIGTERM) reaches the manager itself; a stopped child does not handle it.
TerminateGroup ==
  /\ Waited = None /\ \E c \in Children : WaitStopped(c)
  /\ StoppedAgain = TerminationBound
  /\ mpc' = "killed"
  /\ cpc' = [c \in Children |-> IF cpc[c] = "running" THEN "terminating" ELSE cpc[c]]
  /\ UNCHANGED <<file, news, offset, eof, buffer, pointer, occurance, PIDs,
                 stopedCounter, PIDsPointer, PIDsSize, shellReaped>>

ContinueChild ==
  /\ StoppedAgain # TerminationBound
  /\ \E c \in Children :
       /\ WaitStopped(c)
       /\ LET continued == IF Waited = None THEN {d \in Children : cpc[d] = "stopped"}
                                            ELSE {c}
          IN  /\ cpc' = [d \in Children |->
                           IF d \in continued THEN "running" ELSE cpc[d]]
              /\ news' = [d \in Children |->
                            IF d \in continued THEN "continued" ELSE news[d]]
  /\ stopedCounter' = [stopedCounter EXCEPT ![PIDsPointer] = StoppedAgain]
  /\ PIDsPointer' = (PIDsPointer + 1) % PIDsSize
  /\ UNCHANGED <<file, offset, eof, buffer, pointer, occurance, mpc, PIDs,
                 PIDsSize, shellReaped>>

\* waitpid reports that a child continues; nothing is done about it.
WaitContinued ==
  /\ mpc = "wait"
  /\ \E c \in Reportable \cap Children :
       /\ news[c] = "continued"
       /\ cpc[c] \in {"running", "terminating"}
       /\ news' = [news EXCEPT ![c] = "none"]
  /\ UNCHANGED <<file, cpc, offset, eof, buffer, pointer, occurance, managerVars>>

\* A child that a signal killed is reaped without leaving the list ...
WaitSignaled ==
  /\ mpc = "wait"
  /\ \E c \in Reportable \cap Children :
       /\ cpc[c] = "killed"
       /\ cpc' = [cpc EXCEPT ![c] = "buried"]
  /\ UNCHANGED <<file, news, offset, eof, buffer, pointer, occurance, managerVars>>

\* ... so that the next waitpid fails and ends the manager.
WaitFails ==
  /\ mpc = "wait"
  /\ \A c \in Reportable \cap Children : cpc[c] \in {"unborn", "reaped", "buried"}
  /\ Shell \in Reportable => shellReaped
  /\ mpc' = "failed"
  /\ UNCHANGED <<childVars, PIDs, stopedCounter, PIDsPointer, PIDsSize, shellReaped>>

Manager ==
  \/ Fork \/ InsertChildsToAnArray
  \/ WaitExited \/ TerminateChild \/ TerminateGroup \/ ContinueChild \/ WaitContinued
  \/ WaitSignaled \/ WaitFails

Next ==
  \/ Manager
  \/ \E c \in Children : Child(c) /\ UNCHANGED managerVars

Spec == Init /\ [][Next]_vars

\* The scheduler runs the manager and every child that can run.
FairSpec ==
  /\ Spec
  /\ WF_vars(Manager)
  /\ \A c \in Children : WF_vars((Fread(c) \/ StopAtInstance(c) \/ Handler(c))
                                 /\ UNCHANGED managerVars)

-----------------------------------------------------------------------------
(* Properties.                                                             *)

\* A fork failed.
Missing == mpc # "fork" /\ \E c \in Children : cpc[c] = "unborn"

\* What a child that ends has counted does not depend on the turns: each instance
\* of its symbol in the file once, those that the last, short read left in the
\* buffer once more, up to a 0 in each buffer and up to the bound at which the
\* manager terminates it (none if it is 0); none has counted more, even if the
\* manager signals its whole group.  The 'Instances %d' printed of a file longer
\* than a buffer may so be more than the file has: this says exactly by which
\* instances, not that they should be counted.
InstancesCounted ==
  \A c \in Children : cpc[c] \in {"exited", "reaped"} =>
    LET all == Instances(Searched, Pattern[c])
    IN  /\ occurance[c] <= all
        /\ ~ Missing => occurance[c] = IF TerminationBound = 0 THEN all
                                       ELSE Min({TerminationBound, all})

\* The stops of c that the manager has seen.
Seen(c) == occurance[c] - IF news[c] = "stopped" THEN 1 ELSE 0

\* While the manager waits no child is in two slots, and one that is in a
\* slot has there the number of its stops that the manager has seen, through
\* all the moves of TakeOut, if every fork succeeded.
SlotsExact ==
  mpc = "wait" =>
    \A s \in Used : PIDs[s] \in Children =>
      /\ \A t \in Used \ {s} : PIDs[t] # PIDs[s]
      /\ ~ Missing => stopedCounter[s] = Seen(PIDs[s])

\* A child whose stop waitpid has not reported is in the manager's list, which ps
\* guarantees unless pids wrap around, no fork failed and no child died of a
\* signal; one may have failed to start.
Undisturbed ==
  /\ ~ Missing
  /\ \A c \in Children :
       /\ cpc[c] # "killed"
       /\ mpc \in {"wait", "done"} /\ news[c] = "stopped" => \E s \in Used : PIDs[s] = c

\* Then the manager ends, and so does every child ("Else: continue the process
\* and move on to the next process in the list"): the turns never come to a
\* stop at a child that waits for the manager while the manager waits for it,
\* and no child is terminated or left stopped with nobody to continue it.
\* The manager ends whatever happens, if not with success.
AllEnd ==
  /\ []Undisturbed =>
       <>(mpc = "done" /\ \A c \in Children : cpc[c] \in {"exited", "reaped", "notStarted", "buried"})
  /\ <>(mpc \in {"done", "failed", "killed"})

-----------------------------------------------------------------------------
(* Why they hold.                                                          *)

\* A child is stopped as long as the manager has not seen that it is.
ChildNews == \A c \in Children : cpc[c] = "stopped" <=> news[c] = "stopped"

\* Until it waits the manager counts its forks, and has seen nothing.
BeforeWait ==
  /\ mpc = "fork" =>
       /\ PIDsSize < Len(Pattern)
       /\ \A c \in Children : c > PIDsSize => cpc[c] = "unborn"
  /\ mpc = "list" => PIDsSize = Len(Pattern)
  /\ mpc \in {"fork", "list"} =>
       /\ PIDsPointer = 0
       /\ \A s \in Slots : stopedCounter[s] = 0
       /\ \A c \in Children : Seen(c) = 0
  /\ mpc = "wait" => PIDsSize > 0

\* ps had a row for each slot, if every fork succeeded.
AllFound == mpc = "wait" /\ ~ Missing => \A s \in Used : PIDs[s] # None

\* The part for the manager: without AllFound waitpid could report, and kill
\* continue, a child of another slot.
ManagerInv == TypeOK /\ ChildNews /\ BeforeWait /\ AllFound /\ SlotsExact

\* Nothing has been read.
Unread(c) == offset[c] = 0 /\ ~ eof[c]

\* The bytes of Searched before those in the buffer.
Begin(c) ==
  IF Unread(c) THEN 0 ELSE IF eof[c] THEN Full(file) ELSE offset[c] - BufferSize

\* The buffer holds the bytes of Searched that follow.
BufferExact(c) ==
  /\ Begin(c) \in Nat /\ Begin(c) % BufferSize = 0
  /\ eof[c] => offset[c] = Len(file)
  /\ \A k \in 1 .. BufferSize :
       buffer[c][k] = IF Unread(c) \/ Begin(c) + k > Len(Searched) THEN Nul
                                                      ELSE Searched[Begin(c) + k]

\* The instances that a child has passed.
Passed(c) == {k \in Visible(Searched, Pattern[c]) : k <= Begin(c) + pointer[c]}

Counted(c) ==
  /\ BufferExact(c)
  /\ \A k \in 1 .. pointer[c] : buffer[c][k] # Nul
  /\ occurance[c] = Cardinality(Passed(c))

\* If every fork succeeded no child runs that has reached the bound.
BoundKept ==
  ~ Missing =>
    \A c \in Children :
      /\ cpc[c] = "terminating" => TerminationBound # 0 /\ occurance[c] = TerminationBound
      /\ TerminationBound # 0 =>
           /\ cpc[c] = "running" => occurance[c] < TerminationBound
           /\ cpc[c] = "stopped" => occurance[c] <= TerminationBound

\* The inductive invariant.
IInv == ManagerInv /\ (\A c \in Children : Counted(c)) /\ BoundKept /\ InstancesCounted

\* Without faults but children that fail to start: nothing disturbs the manager.
\* It ends, if it does, with success, and no child is left running or stopped.
NobodyLeft ==
  /\ Undisturbed
  /\ mpc \notin {"failed", "killed"}
  /\ mpc = "done" =>
       \A c \in Children : cpc[c] \in {"terminating", "exited", "reaped", "buried"}

\* Because the children that the manager still has to wait for are those in its
\* list, and everybody in the list is a child that waitpid can report.
ListComplete ==
  /\ mpc \notin {"failed", "killed"}
  /\ \A c \in Children :
       /\ cpc[c] # "killed"
       /\ mpc # "fork" \/ c <= PIDsSize => cpc[c] # "unborn"
       /\ mpc \in {"wait", "done"} /\ cpc[c] \in {"running", "stopped", "notStarted"} =>
            \E s \in Used : PIDs[s] = c
       /\ mpc \in {"fork", "list"} => cpc[c] \notin {"terminating", "reaped", "buried"}
  /\ mpc = "done" => PIDsSize = 0
  /\ mpc = "wait" =>
       \A s \in Used :
         /\ PIDs[s] \in Children
         /\ cpc[PIDs[s]] \in {"running", "stopped", "exited", "notStarted"}
=============================================================================
