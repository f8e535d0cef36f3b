------------------------------- MODULE SymFifo -------------------------------
(***************************************************************************)
(* ex2's sym_mng.c and sym_count.c: the manager makes a FIFO for each      *)
(* symbol of the pattern and forks a child that counts it and writes one   *)
(* line to the FIFO; the manager goes round the FIFOs until all children   *)
(* have reported.  Faults:                                                 *)
(*   "child"    a child finds that it cannot use the file                  *)
(*   "exec"     a child is not executed                                    *)
(*   "fork"     fork fails                                                 *)
(*   "sigpipe"  SIGPIPE is sent to a process, by whomever                  *)
(*   "other"    other managers run: they remove all FIFOs, make FIFOs of   *)
(*              the same names, and open, with their children, whatever    *)
(*              FIFO has the name of their symbol                          *)
(*                                                                         *)
(* Opening a FIFO blocks until its other end is opened.  A name is its     *)
(* symbol.  A child is the place of its symbol in the pattern, and so is   *)
(* the FIFO that was made for it.  The FIFOs of other managers are not     *)
(* told apart, and nobody has to meet anybody at one.                      *)
(***************************************************************************)
EXTENDS Integers, Sequences, SequencesExt, Functions

CONSTANTS Pattern, Faults

ASSUME FaultsAssumption ==
  Faults \subseteq {"child", "exec", "fork", "sigpipe", "other"}

Children == 1 .. Len(Pattern)
Symbols == {Pattern[c] : c \in Children}
Nothing == "nothing"
None == 0
OtherFifo == -1
Fifos == Children \cup {OtherFifo}

ASSUME PatternAssumption == Pattern \in Seq(Symbols)

VARIABLES
  mpc,      \* "fork", "open", "opening", "read", "done" or "failed"
  forked,   \* children forked
  query,    \* charArraySearchQuery, as far as patternSize
  fifo,     \* the FIFO that has the name of each symbol
  mfd,      \* the FIFO that the manager opens or reads
  held,     \* FIFOs of its own that it read to the end and did not close
  pipe,     \* the first line in each FIFO
  cpc,      \* what each child is doing
  cfd,      \* the FIFO that each child opens or has open
  reported  \* what the manager read of each symbol

childVars == <<cpc, cfd>>
vars == <<mpc, forked, query, fifo, mfd, held, pipe, childVars, reported>>

OwnLines == {"finished", "ERROR"}

TypeOK ==
  /\ mpc \in {"fork", "open", "opening", "read", "done", "failed"}
  /\ forked \in 0 .. Len(Pattern)
  /\ query \in Seq(Symbols)
  /\ mpc \in {"open", "opening", "read"} => query # << >>
  /\ fifo \in [Symbols -> Fifos \cup {None}]
  /\ mfd \in Fifos \cup {None}
  /\ mpc \in {"opening", "read"} => mfd # None
  /\ held \subseteq Children
  /\ pipe \in [Fifos -> OwnLines \cup {Nothing}]
  /\ cpc \in [Children -> {"unborn", "start", "opening", "counting", "ended"}]
  /\ cfd \in [Children -> Fifos \cup {None}]
  /\ reported \in [Symbols -> OwnLines \cup {"other's", Nothing}]

NoFifos == [s \in Symbols |-> None]

Init ==
  /\ mpc = IF Pattern = << >> THEN "done" ELSE "fork"
  /\ forked = 0
  /\ query = Pattern
  /\ fifo = NoFifos
  /\ mfd = None
  /\ held = {}
  /\ pipe = [f \in Fifos |-> Nothing]
  /\ cpc = [c \in Children |-> "unborn"]
  /\ cfd = [c \in Children |-> None]
  /\ reported = [s \in Symbols |-> Nothing]

-----------------------------------------------------------------------------
(* The manager.                                                            *)

\* exitWithError: the FIFOs are removed, the children are not told.
ExitWithError ==
  /\ mpc' = "failed"
  /\ fifo' = NoFifos
  /\ UNCHANGED <<forked, query, mfd, held, pipe, childVars, reported>>

\* mkfifo and fork.
Fork ==
  /\ mpc = "fork"
  /\ fifo[Pattern[forked + 1]] = None
  /\ fifo' = [fifo EXCEPT ![Pattern[forked + 1]] = forked + 1]
  /\ cpc' = [cpc EXCEPT ![forked + 1] = "start"]
  /\ forked' = forked + 1
  /\ mpc' = IF forked + 1 = Len(Pattern) THEN "open" ELSE "fork"
  /\ UNCHANGED <<query, mfd, held, pipe, cfd, reported>>

\* The name is taken: the pattern has the symbol twice, or another manager's.
MkfifoFails ==
  /\ mpc = "fork"
  /\ fifo[Pattern[forked + 1]] # None
  /\ ExitWithError

ForkFails ==
  /\ mpc = "fork"
  /\ "fork" \in Faults
  /\ fifo[Pattern[forked + 1]] = None
  /\ ExitWithError

\* pointer is always 0: whatever is read from a FIFO takes its symbol from the
\* list, and the branch that increments pointer is never taken.
Symbol == Head(query)

\* Whoever made the FIFO that has the name.
OpenFifo ==
  /\ mpc = "open"
  /\ fifo[Symbol] # None
  /\ mfd' = fifo[Symbol]
  /\ mpc' = "opening"
  /\ UNCHANGED <<forked, query, fifo, held, pipe, childVars, reported>>

\* There is no such FIFO.  The result of read is compared before it is
\* assigned, so that the failure is not seen: the loop goes round again.
OpenFifoFails ==
  /\ mpc = "open"
  /\ fifo[Symbol] = None
  /\ UNCHANGED vars

\* A child of another manager has opened the FIFO.
OpenedByOther ==
  /\ mpc = "opening"
  /\ "other" \in Faults
  /\ mpc' = "read"
  /\ UNCHANGED <<forked, query, fifo, mfd, held, pipe, childVars, reported>>

\* Mutant: the symbol read is left in the list and the last one is lost.
LastLost == Front(query)

\* The list without the symbol read: the last one takes its place.
LastMoved == Front([query EXCEPT ![1] = Last(query)])

\* Mutant: one more line is waited for.
NothingLeft == query = << >>

\* The line just read was the last.
LastLine == Len(query) = 1

\* A line was read: the FIFO is closed, its name, whichever FIFO has it now, is
\* removed, and the child taken from the list.
TakeOut(line) ==
  /\ reported' = [reported EXCEPT ![Symbol] = line]
  /\ pipe' = [pipe EXCEPT ![mfd] = Nothing]
  /\ mfd' = None
  /\ query' = LastMoved
  /\ IF LastLine
     THEN mpc' = "done" /\ fifo' = NoFifos
     ELSE mpc' = "open" /\ fifo' = [fifo EXCEPT ![Symbol] = None]
  /\ UNCHANGED <<forked, held, childVars>>

ReadLine ==
  /\ mpc = "read"
  /\ pipe[mfd] # Nothing
  /\ TakeOut(pipe[mfd])

\* The line is that of a child of another manager, or is in its FIFO: nothing
\* in a line that is looked at tells them from this manager's.
ReadOtherLine ==
  /\ mpc = "read"
  /\ "other" \in Faults
  /\ TakeOut("other's")

\* The children went without a word: 0 bytes, and the FIFO is opened again
\* without having been closed.
ReadEof ==
  /\ mpc = "read"
  /\ pipe[mfd] = Nothing
  /\ \A c \in Children : ~ (cpc[c] = "counting" /\ cfd[c] = mfd)
  /\ mpc' = "open"
  /\ held' = held \cup ({mfd} \ {OtherFifo})
  /\ mfd' = None
  /\ UNCHANGED <<forked, query, fifo, pipe, childVars, reported>>

\* SIGPIPE: the manager kills its children, removes the FIFOs and exits.
ManagerHandler ==
  /\ "sigpipe" \in Faults
  /\ mpc \in {"fork", "open", "opening", "read"}
  /\ mpc' = "failed"
  /\ cpc' = [c \in Children |-> IF cpc[c] = "unborn" THEN "unborn" ELSE "ended"]
  /\ fifo' = NoFifos
  /\ UNCHANGED <<forked, query, mfd, held, pipe, cfd, reported>>

Manager ==
  \/ Fork \/ MkfifoFails \/ ForkFails
  \/ OpenFifo \/ OpenFifoFails \/ OpenedByOther
  \/ ReadLine \/ ReadOtherLine \/ ReadEof

-----------------------------------------------------------------------------
(* Child c.                                                                *)

\* access, open and mmap of the file, and the call that opens the FIFO.
Start(c) ==
  /\ cpc[c] = "start"
  /\ IF fifo[Pattern[c]] = None
     THEN cpc' = [cpc EXCEPT ![c] = "ended"] /\ UNCHANGED cfd
     ELSE /\ cpc' = [cpc EXCEPT ![c] = "opening"]
          /\ cfd' = [cfd EXCEPT ![c] = fifo[Pattern[c]]]
  /\ UNCHANGED <<mpc, forked, query, fifo, mfd, held, pipe, reported>>

\* The child gives up before it opens the FIFO.
StartFails(c) ==
  /\ cpc[c] = "start"
  /\ "child" \in Faults
  /\ cpc' = [cpc EXCEPT ![c] = "ended"]
  /\ UNCHANGED <<mpc, forked, query, fifo, mfd, held, pipe, cfd, reported>>

\* execvp fails, and the child runs the manager's exitWithError.
ExecFails(c) ==
  /\ cpc[c] = "start"
  /\ "exec" \in Faults
  /\ cpc' = [cpc EXCEPT ![c] = "ended"]
  /\ fifo' = NoFifos
  /\ UNCHANGED <<mpc, forked, query, mfd, held, pipe, cfd, reported>>

\* The child and the manager, which waits in its open, have the same FIFO open.
FifoOpened(c) ==
  /\ mpc = "opening"
  /\ cpc[c] \in {"opening", "counting"}
  /\ cfd[c] = mfd /\ mfd # OtherFifo
  /\ mpc' = "read"
  /\ cpc' = [cpc EXCEPT ![c] = "counting"]
  /\ UNCHANGED <<forked, query, fifo, mfd, held, pipe, cfd, reported>>

\* The manager has the FIFO open already.
ManagerThere(c) ==
  /\ cpc[c] = "opening"
  /\ \/ cfd[c] \in held
     \/ mpc = "read" /\ cfd[c] = mfd /\ mfd # OtherFifo
  /\ cpc' = [cpc EXCEPT ![c] = "counting"]
  /\ UNCHANGED <<mpc, forked, query, fifo, mfd, held, pipe, cfd, reported>>

\* Another manager reads from the FIFO.
OtherThere(c) ==
  /\ cpc[c] = "opening"
  /\ "other" \in Faults
  /\ cpc' = [cpc EXCEPT ![c] = "counting"]
  /\ UNCHANGED <<mpc, forked, query, fifo, mfd, held, pipe, cfd, reported>>

\* A line that is not the first is read with it, or lost.  What is written to
\* the FIFO of another manager is its line.
Write(c, line) ==
  pipe' = IF cfd[c] # OtherFifo /\ pipe[cfd[c]] = Nothing
          THEN [pipe EXCEPT ![cfd[c]] = line] ELSE pipe

Line == "finished"

\* The child counts, writes its line, closes the FIFO and exits.
WriteLine(c) ==
  /\ cpc[c] = "counting"
  /\ Write(c, Line)
  /\ cpc' = [cpc EXCEPT ![c] = "ended"]
  /\ UNCHANGED <<mpc, forked, query, fifo, mfd, held, cfd, reported>>

\* mmap failed and nobody looked: the first byte is a segmentation fault.
CountFails(c) ==
  /\ cpc[c] = "counting"
  /\ "child" \in Faults
  /\ cpc' = [cpc EXCEPT ![c] = "ended"]
  /\ UNCHANGED <<mpc, forked, query, fifo, mfd, held, pipe, cfd, reported>>

\* SIGPIPE: the child writes ERROR, to the FIFO if it has opened it, and before
\* execvp it runs the manager's handler, which removes the FIFOs.
ChildHandler(c) ==
  /\ "sigpipe" \in Faults
  /\ cpc[c] \in {"start", "opening", "counting"}
  /\ IF cpc[c] = "counting" THEN Write(c, "ERROR") ELSE UNCHANGED pipe
  /\ fifo' \in IF cpc[c] = "start" THEN {fifo, NoFifos} ELSE {fifo}
  /\ cpc' = [cpc EXCEPT ![c] = "ended"]
  /\ UNCHANGED <<mpc, forked, query, mfd, held, cfd, reported>>

\* SIGPIPE because the other manager that read from the FIFO has closed it.
OtherGone(c) ==
  /\ cpc[c] = "counting"
  /\ "other" \in Faults
  /\ cpc' = [cpc EXCEPT ![c] = "ended"]
  /\ UNCHANGED <<mpc, forked, query, fifo, mfd, held, pipe, cfd, reported>>

Child(c) ==
  \/ Start(c) \/ StartFails(c) \/ ExecFails(c)
  \/ FifoOpened(c) \/ ManagerThere(c) \/ OtherThere(c)
  \/ WriteLine(c) \/ CountFails(c) \/ ChildHandler(c) \/ OtherGone(c)

-----------------------------------------------------------------------------
(* Other managers.                                                         *)

\* rm -f /tmp/abcde*, mkfifo, and the unlink and the read of a line.
OtherManager ==
  /\ "other" \in Faults
  /\ \/ fifo' = NoFifos /\ UNCHANGED pipe
     \/ \E s \in Symbols : /\ fifo[s] = None
                           /\ fifo' = [fifo EXCEPT ![s] = OtherFifo]
                           /\ UNCHANGED pipe
     \/ \E s \in Symbols : fifo' = [fifo EXCEPT ![s] = None] /\ UNCHANGED pipe
     \/ \E f \in Fifos : pipe' = [pipe EXCEPT ![f] = Nothing] /\ UNCHANGED fifo
  /\ UNCHANGED <<mpc, forked, query, mfd, held, childVars, reported>>

Next ==
  \/ Manager \/ ManagerHandler \/ OtherManager
  \/ \E c \in Children : Child(c)

Spec == Init /\ [][Next]_vars

\* The scheduler runs the manager and the children; nothing says when a
\* signal comes, a call fails or another manager does something.
FairSpec ==
  /\ Spec
  /\ WF_vars(Fork \/ MkfifoFails \/ OpenFifo \/ ReadLine \/ ReadEof)
  /\ \A c \in Children :
       /\ WF_vars(Start(c) \/ WriteLine(c))
       /\ WF_vars(FifoOpened(c) \/ ManagerThere(c))

-----------------------------------------------------------------------------
(* Properties.                                                             *)

\* Through all the moves of the list, and whatever fails, the symbols in it are
\* those for which no line was read, each once, and when the manager ends with
\* success there is none.  Its own child has ended for each of the others, unless
\* the line was another manager's: then its own child may wait for ever at a FIFO
\* that has lost its name, and nothing in the program tells.  (A symbol twice in
\* the pattern gets past mkfifo when somebody removes the FIFO of the first, and
\* is in the list twice.)
ListExact ==
  IsInjective(Pattern) /\ mpc \in {"open", "opening", "read", "done"} =>
    /\ IsInjective(query)
    /\ Range(query) = {s \in Symbols : reported[s] = Nothing}
    /\ mpc = "done" => query = << >>
    /\ \A c \in Children : reported[Pattern[c]] \in OwnLines => cpc[c] = "ended"

\* While it forks, the manager has not touched the list.
Forking ==
  mpc = "fork" => /\ query = Pattern /\ forked < Len(Pattern)
                  /\ \A s \in Symbols : reported[s] = Nothing

Unborn == \A c \in Children : c > forked => cpc[c] = "unborn"

\* A child of symbol s has ended.
Ended(s) == \E c \in Children : Pattern[c] = s /\ cpc[c] = "ended"

\* A FIFO of this manager is opened for its own symbol only, and a line of its
\* children is that of a child of that symbol, which has ended.
LinesInOrder ==
  /\ \A s \in Symbols : fifo[s] \in Children => Pattern[fifo[s]] = s
  /\ mpc \in {"opening", "read"} /\ mfd \in Children => Pattern[mfd] = Symbol
  /\ \A c \in Children : cfd[c] \in Children => Pattern[cfd[c]] = Pattern[c]
  /\ pipe[OtherFifo] = Nothing
  /\ \A f \in Children : pipe[f] # Nothing => Ended(Pattern[f])
  /\ \A s \in Symbols : reported[s] \in OwnLines => Ended(s)

\* The list is exact in every step that can follow: the manager begins to open
\* with the whole pattern, and every line that it reads takes its own symbol.
IInv == TypeOK /\ ListExact /\ Forking /\ Unborn /\ LinesInOrder

\* Every child that was forked has the FIFO made for it until a line was read for
\* it, none ended but with its line before the manager, and no failure made the
\* manager exit.
Undisturbed ==
  /\ mpc # "failed"
  /\ \A c \in 1 .. forked :
       reported[Pattern[c]] = Nothing =>
         /\ fifo[Pattern[c]] = c
         /\ cpc[c] = "ended" => mpc = "read" /\ mfd = c /\ pipe[c] # Nothing

\* Then the manager ends with success ("exit the program successfuly"), in
\* whatever order the children come to their FIFOs: it never waits at the FIFO
\* of a child that has reported, nor forgets one that has not.
ManagerEnds == []Undisturbed => <>(mpc = "done")

\* If no symbol is in the pattern twice and nothing fails: nobody waits at a FIFO
\* to which nobody comes, the manager never goes round its loop in vain, and in
\* the end it has a line from every child.
AllMeet ==
  /\ Undisturbed
  /\ mpc = "open" => fifo[Symbol] # None
  /\ mpc = "opening" =>
       \E c \in Children : /\ Pattern[c] = Symbol /\ mfd = c
                          /\ \/ cpc[c] = "start"
                             \/ cpc[c] = "opening" /\ cfd[c] = c
  /\ mpc = "read" =>
       \/ pipe[mfd] # Nothing
       \/ \E c \in Children : mfd = c /\ cfd[c] = c /\ cpc[c] = "counting"
  /\ mpc = "done" =>
       \A c \in Children : cpc[c] = "ended" /\ reported[Pattern[c]] = "finished"

\* Because a child's FIFO, its line and the manager's turn to read it go together.
InTouch(c) ==
  /\ cpc[c] = "unborn" <=> c > forked
  /\ cpc[c] = "ended" <=> pipe[c] # Nothing \/ reported[Pattern[c]] # Nothing
  /\ {pipe[c], reported[Pattern[c]]} \subseteq {Nothing, "finished"}
  /\ c <= forked /\ reported[Pattern[c]] = Nothing => fifo[Pattern[c]] = c
  /\ cpc[c] \in {"opening", "counting"} => cfd[c] = c
  /\ cpc[c] = "counting" \/ pipe[c] # Nothing <=> mpc = "read" /\ mfd = c

Meeting ==
  /\ mpc # "failed"
  /\ mpc # "fork" => forked = Len(Pattern)
  /\ held = {}
  /\ \A s \in Symbols : fifo[s] \in 0 .. forked
  /\ mpc \in {"opening", "read"} => mfd # OtherFifo
  /\ \A c \in Children : InTouch(c)
=============================================================================
