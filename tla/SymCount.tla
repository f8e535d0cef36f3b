------------------------------- MODULE SymCount -------------------------------
(***************************************************************************)
(* ex1/sym_count.c: a child looks for one symbol in the file, in buffers   *)
(* of BufferSize bytes, and stops itself after each instance; at the end   *)
(* it sends itself SIGTERM, whose handler prints the number of instances   *)
(* and exits.  The byte after the buffer is 0 in what calloc returns, so   *)
(* strchr never leaves it.                                                 *)
(*                                                                         *)
(* A child is named by the place of its symbol in the pattern.             *)
(***************************************************************************)
EXTENDS Integers, Sequences, FiniteSetsExt

CONSTANTS Pattern,      \* the symbols looked for
          Files,        \* the contents the file may have
          BufferSize,   \* 64
          Faults

ASSUME BufferSizeAssumption == BufferSize \in Nat \ {0}
ASSUME FilesAssumption == Files \subseteq Seq(Nat)

Nul == 0              \* the byte 0; others are any other numbers

ASSUME PatternAssumption == Pattern \in Seq(Nat \ {Nul})

Children == 1 .. Len(Pattern)

VARIABLES
  file,       \* the file's bytes
  cpc,        \* what each child is doing
  news,       \* a change of its state that waitpid has not reported
  offset,     \* bytes it has read
  eof,        \* feof(openedFile)
  buffer,     \* its currentBuffer
  pointer,    \* where in the buffer it is
  occurance   \* instances found so far

childVars == <<file, cpc, news, offset, eof, buffer, pointer, occurance>>

ChildTypeOK ==
  /\ file \in Files
  /\ cpc \in [Children -> {"unborn", "running", "stopped", "terminating",
                           "exited", "reaped", "notStarted", "killed", "buried"}]
  /\ news \in [Children -> {"none", "stopped", "continued"}]
  /\ offset \in [Children -> 0 .. Len(file)]
  /\ eof \in [Children -> BOOLEAN]
  /\ buffer \in [Children -> [1 .. BufferSize -> Nat]]
  /\ pointer \in [Children -> 0 .. BufferSize]
  /\ occurance \in [Children -> Nat]

ChildInit ==
  /\ file \in Files
  /\ cpc = [c \in Children |-> "unborn"]
  /\ news = [c \in Children |-> "none"]
  /\ offset = [c \in Children |-> 0]
  /\ eof = [c \in Children |-> FALSE]
  /\ buffer = [c \in Children |-> [k \in 1 .. BufferSize |-> Nul]]
  /\ pointer = [c \in Children |-> 0]
  /\ occurance = [c \in Children |-> 0]

\* Mutant: the search goes on at the instance itself, not behind it.
HitsAgain(c) ==
  {k \in Max({1, pointer[c]}) .. BufferSize :
     /\ buffer[c][k] = Pattern[c]
     /\ \A j \in Max({1, pointer[c]}) .. k : buffer[c][j] # Nul}

\* Places of the symbol behind pointer and before the next 0: strchr.
Hits(c) ==
  {k \in pointer[c] + 1 .. BufferSize :
     /\ buffer[c][k] = Pattern[c]
     /\ \A j \in pointer[c] + 1 .. k : buffer[c][j] # Nul}

\* The buffer after fread got n bytes: the rest of it stays.
BufferFilled(c, n) ==
  [k \in 1 .. BufferSize |-> IF k <= n THEN file[offset[c] + k] ELSE buffer[c][k]]

\* The buffer holds no more instances: read the next bytes.
Fread(c) ==
  /\ cpc[c] = "running"
  /\ Hits(c) = {}
  /\ ~ eof[c]
  /\ LET n == Min({BufferSize, Len(file) - offset[c]}) IN
       /\ buffer' = [buffer EXCEPT ![c] = BufferFilled(c, n)]
       /\ offset' = [offset EXCEPT ![c] = @ + n]
       /\ eof' = [eof EXCEPT ![c] = n < BufferSize]
  /\ pointer' = [pointer EXCEPT ![c] = 0]
  /\ UNCHANGED <<file, cpc, news, occurance>>

\* An instance: occurance++ and kill(getpid(), SIGSTOP).
StopAtInstance(c) ==
  /\ cpc[c] = "running"
  /\ Hits(c) # {}
  /\ pointer' = [pointer EXCEPT ![c] = Min(Hits(c))]
  /\ occurance' = [occurance EXCEPT ![c] = @ + 1]
  /\ cpc' = [cpc EXCEPT ![c] = "stopped"]
  /\ news' = [news EXCEPT ![c] = "stopped"]
  /\ UNCHANGED <<file, offset, eof, buffer>>

\* The end of the file, or a SIGTERM of the manager: the handler exits.
Handler(c) ==
  /\ \/ cpc[c] = "running" /\ Hits(c) = {} /\ eof[c]
     \/ cpc[c] = "terminating"
  /\ cpc' = [cpc EXCEPT ![c] = "exited"]
  /\ news' = [news EXCEPT ![c] = "none"]
  /\ UNCHANGED <<file, offset, eof, buffer, pointer, occurance>>

\* fopen failed and nobody looked: feof(NULL) is a segmentation fault.
Crash(c) ==
  /\ "fopen" \in Faults
  /\ cpc[c] = "running"
  /\ offset[c] = 0 /\ ~ eof[c]
  /\ cpc' = [cpc EXCEPT ![c] = "killed"]
  /\ UNCHANGED <<file, news, offset, eof, buffer, pointer, occurance>>

\* execvp fails, or the file may no longer be read: exit(EXIT_FAILURE).
StartFails(c) ==
  /\ "start" \in Faults
  /\ cpc[c] = "running"
  /\ offset[c] = 0 /\ ~ eof[c]
  /\ cpc' = [cpc EXCEPT ![c] = "notStarted"]
  /\ UNCHANGED <<file, news, offset, eof, buffer, pointer, occurance>>

Child(c) == StartFails(c) \/ Fread(c) \/ StopAtInstance(c) \/ Handler(c) \/ Crash(c)

-----------------------------------------------------------------------------
(* What is to be counted.                                                  *)

\* The bytes before the buffer with the k-th byte.
Block(k) == ((k - 1) \div BufferSize) * BufferSize

\* The instances of s that strchr finds: up to the first 0 in each buffer.
Visible(bytes, s) ==
  {k \in 1 .. Len(bytes) :
     bytes[k] = s /\ \A j \in Block(k) + 1 .. k : bytes[j] # Nul}

Instances(bytes, s) == Cardinality(Visible(bytes, s))

\* The bytes of the full buffers.
Full(bytes) == (Len(bytes) \div BufferSize) * BufferSize

\* What the last, short read leaves in the buffer of the read before.
LeftOver(bytes) ==
  SubSeq(bytes, Max({1, Len(bytes) - BufferSize + 1}), Full(bytes))

\* What a child looks at.
Searched == file \o LeftOver(file)
=============================================================================
