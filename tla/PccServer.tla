------------------------------ MODULE PccServer ------------------------------
(***************************************************************************)
(* ex5's pcc_server.c: main accepts connections and starts a thread for    *)
(* each; the thread reads a length N and N bytes, adds its counts to the   *)
(* totals under a mutex and answers the number of printable bytes.  SIGINT *)
(* makes main join the threads and print the totals.                       *)
(*                                                                         *)
(* pcc_total is abstracted to the set of threads whose counts were added   *)
(* to it.  A thread gets a pointer to connectionSocketfd, a variable of    *)
(* main's stack that main overwrites in its next round: fdCell.            *)
(*                                                                         *)
(* ExitAfterConnection distinguishes the two versions of the file, which   *)
(* differ in nothing else: in ex5_new a thread ends with exit(0).          *)
(***************************************************************************)
EXTENDS PccSockets

CONSTANT ExitAfterConnection

ASSUME ExitAssumption == ExitAfterConnection \in BOOLEAN

NoFd == 0
NoHandler == 0

VARIABLES
  server,          \* the process: "running", "exited" (0) or "failed"
  mainPc,          \* "start", "check", "call", "accept", "join" or "done"
  receivedSIGINT,
  online,          \* numOfConnectionsOnline, also the threads started
  joined,          \* threads finishMain has joined, its num
  fdCell,          \* main's connectionSocketfd, as the threads see it
  sock,            \* the connection each descriptor refers to
  hpc,             \* where each thread is
  fd,              \* its connfd
  got,             \* the bytes it has read of what it is reading now
  need,            \* its N, as a word
  seen,            \* the totals it loaded
  lock,            \* holder of the mutex
  total            \* threads whose counts are in pcc_total

server_main == <<server, mainPc, receivedSIGINT, online, joined, fdCell>>
handler     == <<hpc, fd, got, need, seen>>
serverVars  == <<server, mainPc, receivedSIGINT, online, joined, fdCell, sock,
                 hpc, fd, got, need, seen, lock, total>>

Handlers == 1 .. Cardinality(Clients)
Fds == 1 .. Cardinality(Clients)

ServerTypeOK ==
  /\ server \in {"running", "exited", "failed"}
  /\ mainPc \in {"start", "check", "call", "accept", "join", "done"}
  /\ receivedSIGINT \in BOOLEAN
  /\ online \in 0 .. Cardinality(Clients)
  /\ joined \in 0 .. Cardinality(Clients)
  /\ fdCell \in Fds \cup {NoFd}
  /\ sock \in [Fds -> Clients \cup {NoClient}]
  /\ hpc \in [Handlers -> {"none", "start", "length", "data", "lock", "store",
                           "answer", "close", "exit", "ended"}]
  /\ fd \in [Handlers -> Fds \cup {NoFd}]
  /\ got \in [Handlers -> Seq(Bytes)]
  /\ need \in [Handlers -> Words]
  /\ seen \in [Handlers -> SUBSET Handlers]
  /\ \A h \in Handlers :
       /\ hpc[h] = "length" => Len(got[h]) < WordBytes
       /\ hpc[h] # "length" => Len(got[h]) <= Value(need[h])
  /\ lock \in Handlers \cup {NoHandler}
  /\ total \in SUBSET Handlers

\* pcc_total comes from malloc and memset clears 95 of its 380 bytes: it is empty
\* here because the pages of a fresh heap are, nothing having been freed before.
ServerInit ==
  /\ server = "running"
  /\ mainPc = "start"
  /\ receivedSIGINT = FALSE
  /\ online = 0
  /\ joined = 0
  /\ fdCell = NoFd
  /\ sock = [f \in Fds |-> NoClient]
  /\ hpc = [h \in Handlers |-> "none"]
  /\ fd = [h \in Handlers |-> NoFd]
  /\ got = [h \in Handlers |-> << >>]
  /\ need = [h \in Handlers |-> [k \in 1 .. WordBytes |-> 0]]
  /\ seen = [h \in Handlers |-> {}]
  /\ lock = NoHandler
  /\ total = {}

\* exit(): the process ends, and every thread of it.
Exit(status) ==
  /\ server' = status
  /\ ServerProcessEnds
  /\ UNCHANGED <<mainPc, receivedSIGINT, online, joined, fdCell, sock, handler,
                 lock, total, backlog, clientEnd, up, down>>

-----------------------------------------------------------------------------
(* main.                                                                   *)

\* initilize and startListen; bad arguments or a port in use end the process.
StartListen ==
  /\ mainPc = "start"
  /\ mainPc' = "check"
  /\ UNCHANGED <<server, receivedSIGINT, online, joined, fdCell, sock, handler,
                 lock, total, sockets>>

StartFails ==
  /\ mainPc = "start"
  /\ "resources" \in Faults
  /\ Exit("failed")

\* The threads have copied the descriptor out of fdCell.  Nothing in the code makes
\* main wait for them: without "slowStart" the schedules are left out in which a
\* thread copies it only after main is in its loop again.
ThreadsStarted ==
  "slowStart" \in Faults \/ \A h \in Handlers : hpc[h] # "start"

\* The loop's test: accept again, or go to finishMain, whose frame may
\* overwrite fdCell.
TestSIGINT ==
  /\ mainPc = "check"
  /\ ThreadsStarted
  /\ IF receivedSIGINT
     THEN mainPc' = "join" /\ fdCell' \in {fdCell, NoFd}
     ELSE mainPc' = "call" /\ UNCHANGED fdCell
  /\ UNCHANGED <<server, receivedSIGINT, online, joined, sock, handler, lock,
                 total, sockets>>

\* accept() blocks from here on; a SIGINT before it is only remembered.
CallAccept ==
  /\ mainPc = "call"
  /\ mainPc' = "accept"
  /\ UNCHANGED <<server, receivedSIGINT, online, joined, fdCell, sock, handler,
                 lock, total, sockets>>

\* The descriptor the kernel gives: the lowest free one.
FreeFd ==
  CHOOSE f \in Fds : sock[f] = NoClient /\ \A g \in 1 .. f - 1 : sock[g] # NoClient

\* accept and pthread_create, getNewConnection's good path.
GetNewConnection ==
  /\ mainPc = "accept"
  /\ backlog # << >>
  /\ LET c == Head(backlog) IN
       /\ serverEnd' = [serverEnd EXCEPT ![c] = "open"]
       /\ sock' = [sock EXCEPT ![FreeFd] = c]
  /\ backlog' = Tail(backlog)
  /\ fdCell' = FreeFd
  /\ online' = online + 1
  /\ hpc' = [hpc EXCEPT ![online + 1] = "start"]
  /\ mainPc' = "check"
  /\ UNCHANGED <<server, receivedSIGINT, joined, fd, got, need, seen, lock,
                 total, clientEnd, up, down>>

\* accept, realloc or pthread_create fails.
GetNewConnectionFails ==
  /\ mainPc = "accept"
  /\ backlog # << >>
  /\ "resources" \in Faults
  /\ Exit("failed")

\* SIGINT is delivered to main.  It interrupts accept, which returns -1 into
\* connectionSocketfd; anywhere else the handler only sets the flag.
SIGINT_handler ==
  /\ "sigint" \in Faults
  /\ receivedSIGINT' = TRUE
  /\ IF mainPc = "accept"
     THEN mainPc' = "check" /\ fdCell' = NoFd
     ELSE UNCHANGED <<mainPc, fdCell>>
  /\ UNCHANGED <<server, online, joined, sock, handler, lock, total, sockets>>

\* finishMain joins the threads in the order they were started ...
FinishMainJoin ==
  /\ mainPc = "join"
  /\ joined < online
  /\ hpc[joined + 1] = "ended"
  /\ joined' = joined + 1
  /\ UNCHANGED <<server, mainPc, receivedSIGINT, online, fdCell, sock, handler,
                 lock, total, sockets>>

\* Mutant: the totals are printed before the last thread is joined.
FinishMainPrintEarly ==
  /\ mainPc = "join"
  /\ joined + 1 >= online
  /\ mainPc' = "done"
  /\ server' = "exited"
  /\ ServerProcessEnds
  /\ UNCHANGED <<receivedSIGINT, online, joined, fdCell, sock, handler, lock,
                 total, backlog, clientEnd, up, down>>

\* ... prints the totals and ends the process.
FinishMainPrint ==
  /\ mainPc = "join"
  /\ joined = online
  /\ mainPc' = "done"
  /\ server' = "exited"
  /\ ServerProcessEnds
  /\ UNCHANGED <<receivedSIGINT, online, joined, fdCell, sock, handler, lock,
                 total, backlog, clientEnd, up, down>>

ServerMain ==
  /\ server = "running"
  /\ \/ StartListen      \/ StartFails     \/ TestSIGINT
     \/ CallAccept       \/ GetNewConnection \/ GetNewConnectionFails
     \/ FinishMainJoin   \/ FinishMainPrint

Signal == server = "running" /\ SIGINT_handler

-----------------------------------------------------------------------------
(* handleConnection, the body of thread h.                                 *)

\* Mutant: the thread of the other version of the file.
AfterCloseOther == IF ExitAfterConnection THEN "ended" ELSE "exit"

\* Where a thread is once it closed its connection.
AfterClose == IF ExitAfterConnection THEN "exit" ELSE "ended"

\* The connection thread h reads and writes, or NoClient if its descriptor
\* refers to none.
Conn(h) == IF fd[h] = NoFd THEN NoClient ELSE sock[fd[h]]

HandlerUnchanged ==
  UNCHANGED <<server_main, sock, lock, total>>

\* connfd = *(int*)connectionSocketfd
StartHandler(h) ==
  /\ hpc[h] = "start"
  /\ fd' = [fd EXCEPT ![h] = fdCell]
  /\ hpc' = [hpc EXCEPT ![h] = "length"]
  /\ UNCHANGED <<got, need, seen, sockets>>
  /\ HandlerUnchanged

\* What a read of at most max bytes may return.
Arrived(h, max) ==
  IF Conn(h) = NoClient THEN {} ELSE Readable(up[Conn(h)], max)

Receive(h, chunk) ==
  /\ up' = [up EXCEPT ![Conn(h)] = After(@, chunk)]
  /\ UNCHANGED <<backlog, clientEnd, serverEnd, down>>

\* read() fails: always if the descriptor is not open, once if the connection
\* was reset.
ReadError(h) ==
  Conn(h) # NoClient => up[Conn(h)] = << >> /\ clientEnd[Conn(h)] = "reset"

ReceiveFails(h) ==
  /\ ReadError(h)
  /\ clientEnd' = IF Conn(h) = NoClient THEN clientEnd
                                        ELSE ReadFailed(clientEnd, Conn(h))
  /\ UNCHANGED <<backlog, serverEnd, up, down>>

\* Mutant: every read asks for a whole length.
LengthLeftAll(h) == WordBytes

\* Bytes of the length still to read.
LengthLeft(h) == WordBytes - Len(got[h])

\* Mutant: the first read is taken to return the whole length.
ReadLengthOnce(h) ==
  /\ hpc[h] = "length"
  /\ \E chunk \in Arrived(h, WordBytes) :
       /\ Receive(h, chunk)
       /\ need' = [need EXCEPT ![h] =
            [k \in 1 .. WordBytes |-> IF k <= Len(chunk) THEN chunk[k] ELSE 0]]
  /\ hpc' = [hpc EXCEPT ![h] = "data"]
  /\ UNCHANGED <<got, fd, seen>>
  /\ HandlerUnchanged

\* Some bytes of the length; the last ones decode it and allocate the buffer.
ReadLength(h) ==
  /\ hpc[h] = "length"
  /\ \E chunk \in Arrived(h, LengthLeft(h)) :
       /\ Receive(h, chunk)
       /\ LET bytes == got[h] \o chunk IN
            IF Len(bytes) = WordBytes
            THEN /\ got' = [got EXCEPT ![h] = << >>]
                 /\ need' = [need EXCEPT ![h] = CharsToUnsignedInt(bytes)]
                 /\ hpc' = [hpc EXCEPT ![h] = "data"]
            ELSE /\ got' = [got EXCEPT ![h] = bytes]
                 /\ UNCHANGED <<hpc, need>>
  /\ UNCHANGED <<fd, seen>>
  /\ HandlerUnchanged

\* A failed read counts as -1 byte: the byte before is overwritten.
ReadLengthFails(h) ==
  /\ hpc[h] = "length"
  /\ got[h] # << >>
  /\ ReceiveFails(h)
  /\ got' = [got EXCEPT ![h] = Front(@)]
  /\ UNCHANGED <<hpc, fd, need, seen>>
  /\ HandlerUnchanged

\* With no byte before it, the process ends.
ReadLengthExits(h) ==
  /\ hpc[h] = "length"
  /\ got[h] = << >>
  /\ ReadError(h)
  /\ Exit("failed")

CallocFails(h) ==
  /\ hpc[h] = "data"
  /\ got[h] = << >>
  /\ "resources" \in Faults
  /\ Exit("failed")

\* Some of the N bytes; a read of 0 bytes returns at once.
ReadData(h) ==
  /\ hpc[h] = "data"
  /\ \E chunk \in IF Value(need[h]) = 0 /\ Conn(h) # NoClient
                  THEN {<< >>}
                  ELSE Arrived(h, Value(need[h]) - Len(got[h])) :
       /\ Receive(h, chunk)
       /\ got' = [got EXCEPT ![h] = @ \o chunk]
       /\ hpc' = [hpc EXCEPT ![h] =
            IF Len(got[h] \o chunk) = Value(need[h]) THEN "lock" ELSE "data"]
  /\ UNCHANGED <<fd, need, seen>>
  /\ HandlerUnchanged

\* bytes_read falls by 1.  As it is compared unsigned, -1 ends the loop: the
\* client gets no answer and the process goes on.
ReadDataFails(h) ==
  /\ hpc[h] = "data"
  /\ ReceiveFails(h)
  /\ IF got[h] = << >>
     THEN hpc' = [hpc EXCEPT ![h] = "close"] /\ UNCHANGED got
     ELSE got' = [got EXCEPT ![h] = Front(@)] /\ UNCHANGED hpc
  /\ UNCHANGED <<fd, need, seen>>
  /\ HandlerUnchanged

\* Mutant: the lock is not taken.
LockTotalsNot(h) ==
  /\ hpc[h] = "lock"
  /\ seen' = [seen EXCEPT ![h] = total]
  /\ hpc' = [hpc EXCEPT ![h] = "store"]
  /\ UNCHANGED <<fd, got, need, server_main, sock, lock, total, sockets>>

\* updatePcc_total: the totals are read under the lock ...
LockTotals(h) ==
  /\ hpc[h] = "lock"
  /\ lock = NoHandler
  /\ lock' = h
  /\ seen' = [seen EXCEPT ![h] = total]
  /\ hpc' = [hpc EXCEPT ![h] = "store"]
  /\ UNCHANGED <<fd, got, need, server_main, sock, total, sockets>>

\* Mutant: the lock is kept.
StoreTotalsLocked(h) ==
  /\ hpc[h] = "store"
  /\ total' = seen[h] \cup {h}
  /\ hpc' = [hpc EXCEPT ![h] = "answer"]
  /\ UNCHANGED <<fd, got, need, seen, server_main, sock, lock, sockets>>

\* ... and written back with this thread's counts.
StoreTotals(h) ==
  /\ hpc[h] = "store"
  /\ total' = seen[h] \cup {h}
  /\ lock' = NoHandler
  /\ hpc' = [hpc EXCEPT ![h] = "answer"]
  /\ UNCHANGED <<fd, got, need, seen, server_main, sock, sockets>>

Answer(h) == UnsignedIntToChars(PrintablesIn(got[h]))

\* The number of printable bytes goes to the client, if it is there to get it.
SendAnswer(h) ==
  /\ hpc[h] = "answer"
  /\ Conn(h) # NoClient
  /\ ~ Broken(clientEnd[Conn(h)])
  /\ IF clientEnd[Conn(h)] = "open"
     THEN down' = [down EXCEPT ![Conn(h)] = @ \o Answer(h)]
     ELSE UNCHANGED down
  /\ clientEnd' = Written(clientEnd, Conn(h))
  /\ hpc' = [hpc EXCEPT ![h] = "close"]
  /\ UNCHANGED <<fd, got, need, seen, backlog, serverEnd, up>>
  /\ HandlerUnchanged

\* write() fails, or raises SIGPIPE, which the server does not handle.
SendAnswerExits(h) ==
  /\ hpc[h] = "answer"
  /\ Conn(h) # NoClient => Broken(clientEnd[Conn(h)])
  /\ Exit("failed")

\* close(connfd), which does nothing if the descriptor is not open.
CloseConnection(h) ==
  /\ hpc[h] = "close"
  /\ IF Conn(h) = NoClient
     THEN UNCHANGED <<serverEnd, sock>>
     ELSE /\ serverEnd' = [serverEnd EXCEPT ![Conn(h)] = Closed(up[Conn(h)])]
          /\ sock' = [sock EXCEPT ![fd[h]] = NoClient]
  /\ hpc' = [hpc EXCEPT ![h] = AfterClose]
  /\ UNCHANGED <<fd, got, need, seen, server_main, lock, total, backlog,
                 clientEnd, up, down>>

\* exit(0) at the end of handleConnection, in ex5_new only.
ExitProcess(h) ==
  /\ hpc[h] = "exit"
  /\ Exit("exited")

Handler(h) ==
  /\ server = "running"
  /\ \/ StartHandler(h)  \/ ReadLength(h)      \/ ReadLengthFails(h)
     \/ ReadLengthExits(h) \/ CallocFails(h)  \/ ReadData(h)
     \/ ReadDataFails(h) \/ LockTotals(h)      \/ StoreTotals(h)
     \/ SendAnswer(h)    \/ SendAnswerExits(h) \/ CloseConnection(h)
     \/ ExitProcess(h)
=============================================================================
