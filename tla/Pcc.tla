--------------------------------- MODULE Pcc ---------------------------------
(***************************************************************************)
(* The printable characters counting system of ex5: pcc_server.c and the   *)
(* clients that talk to it.  Faults names what may happen in a run:        *)
(*   "sigint"     SIGINT is sent to the server, any number of times        *)
(*   "client"     a client is killed                                       *)
(*   "resources"  a call of the server fails for want of resources         *)
(*   "slowStart"  a thread may be slow to copy its descriptor              *)
(***************************************************************************)
EXTENDS PccServer, PccClient

AllFaults == {"sigint", "client", "resources", "slowStart"}

ASSUME FaultsAssumption == Faults \subseteq AllFaults

vars == <<sockets, serverVars, clientVars>>

TypeOK == SocketsTypeOK /\ ServerTypeOK /\ ClientTypeOK

Init == SocketsInit /\ ServerInit /\ ClientInit

Listening == server = "running" /\ mainPc # "start"

Next ==
  \/ ServerMain /\ UNCHANGED clientVars
  \/ Signal /\ UNCHANGED clientVars
  \/ \E h \in Handlers : Handler(h) /\ UNCHANGED clientVars
  \/ \E c \in Clients : (Client(c, Listening) \/ Die(c)) /\ UNCHANGED serverVars

Spec == Init /\ [][Next]_vars

\* The scheduler runs main and every thread and client that can run; nothing
\* says when a signal or the death of a client comes.
Fairness ==
  /\ WF_vars(ServerMain /\ UNCHANGED clientVars)
  /\ \A h \in Handlers : WF_vars(Handler(h) /\ UNCHANGED clientVars)
  /\ \A c \in Clients : WF_vars(Client(c, Listening) /\ UNCHANGED serverVars)

FairSpec == Spec /\ Fairness

-----------------------------------------------------------------------------
(* Properties.                                                             *)

\* A client that prints a number prints how many of the bytes it sent are
\* printable: neither the way the bytes arrive nor the other clients, SIGINT or
\* failures of theirs change the answer (handleConnection's read loops,
\* updatePcc_total, the client's sendToConnection).  Its decoding makes the number
\* larger if a byte of it behind the first is negative as a char, never smaller.
\* It holds only as long as every thread copies its descriptor before main goes on
\* (no "slowStart"): a slow one reads from the connection of another.
AnswerExact ==
  \A c \in Clients :
    cpc[c] \in {"print", "printed"} =>
      LET n      == PrintablesIn(payload[c])
          answer == UnsignedIntToChars(n)
      IN  /\ NumOfPrintables(c) = CharsToUnsignedInt(answer)
          /\ Value(NumOfPrintables(c)) >= n
          /\ SignFree(answer) => Value(NumOfPrintables(c)) = n

\* No client has an answer whose counts are not in the totals, in any
\* interleaving of the threads' updates and whatever fails: there are at least
\* as many counted threads as clients that printed.
AnswersCounted ==
  Cardinality({c \in Clients : cpc[c] = "printed"}) <= Cardinality(total)

\* The totals that finishMain prints are those of every connection that was
\* accepted, and each of them got its answer, but for clients that died: none
\* is missing because SIGINT came while its thread was reading, waiting for the
\* lock or about to store, and no two threads' updates overwrote each other.
TotalsComplete ==
  mainPc = "done" =>
    LET answered == {c \in Clients : Len(reply[c]) + Len(down[c]) = WordBytes}
        dead == {c \in Clients : cpc[c] = "dead"}
    IN  /\ dead = {} => total = 1 .. online
        /\ Cardinality(answered \ dead) <= Cardinality(total)
        /\ Cardinality(total) <= online
        /\ online <= Cardinality(answered \cup dead)

\* Once main accepted a connection it is served, SIGINT or not, and whatever
\* becomes of other clients, unless the client itself dies or the process ends
\* when an answer goes to one that died.
AcceptedServed ==
  \A c \in Clients :
    serverEnd[c] = "open" ~> cpc[c] \in {"printed", "dead"} \/ server = "failed"

\* The process ends on SIGINT, or on the death of a client, and on nothing else.
ExitsOnlyOnSIGINT ==
  server # "running" =>
    \/ receivedSIGINT
    \/ server = "failed" /\ \E c \in Clients : cpc[c] = "dead"

\* A thread reads at the end of what a client sent that died: read returns 0
\* for ever.
Spinning(h) ==
  /\ hpc[h] \in {"length", "data"}
  /\ Conn(h) # NoClient /\ cpc[Conn(h)] = "dead" /\ up[Conn(h)] = << >>

\* After SIGINT the server prints its totals in the end, or an answer to a
\* client that died ends it.  Two things only can keep it: the signal came
\* between the loop's test and accept and no client ever comes to wake it, or
\* finishMain waits for a thread that spins.  No thread is left waiting for the
\* lock or for a client that lives, and all others are joined.
StopsUnlessInAccept ==
  <>receivedSIGINT =>
    \/ <>(server # "running")
    \/ <>[](mainPc = "accept" /\ backlog = << >>)
    \/ <>[](mainPc = "join" /\ joined < online /\ Spinning(joined + 1))
-----------------------------------------------------------------------------
(* What makes answers exact, unless a thread is slow to copy its descriptor  *)
(* (slowStart) and takes another's.                                          *)

\* The descriptor a thread has or will copy.
Own(h) == IF hpc[h] = "start" THEN fdCell ELSE fd[h]

\* The bytes of c's length, and those of its answer.
LengthOf(c) == UnsignedIntToChars(Len(payload[c]))
AnswerOf(c) == UnsignedIntToChars(PrintablesIn(payload[c]))

\* What c has written to its connection.
Sent(c) ==
  CASE cpc[c] \in {"connect", "random", "length"} -> << >>
    [] cpc[c] = "data"                            -> LengthOf(c)
    [] OTHER                                      -> LengthOf(c) \o payload[c]

\* What thread h has read and what is still to read is what its client c wrote.
RequestRead(h, c) ==
  /\ hpc[h] = "start" => up[c] = Sent(c)
  /\ hpc[h] = "length" => got[h] \o up[c] = Sent(c)
  /\ hpc[h] = "data" => /\ need[h] = CharsToUnsignedInt(LengthOf(c))
                        /\ LengthOf(c) \o (got[h] \o up[c]) = Sent(c)
  /\ hpc[h] \in {"lock", "store", "answer"} => got[h] = payload[c]

\* While the server runs no byte of a client that lives is lost, and none gets
\* to a thread that is not its own.
RequestsInOrder ==
  server = "running" =>
    \A c \in Clients : cpc[c] # "dead" =>
      /\ cpc[c] = "connect" \/ serverEnd[c] = "backlog" => up[c] = Sent(c)
      /\ \A h \in Handlers :
           Own(h) \in Fds => (sock[Own(h)] = c => RequestRead(h, c))

\* A client that lives has read a part of its own answer, and the rest is on
\* its way, or nothing of an answer was written.
AnswersInOrder ==
  \A c \in Clients : cpc[c] # "dead" =>
    reply[c] \o down[c] \in {<< >>, AnswerOf(c)}

\* Types and the two orders, under the faults for which answers are exact: what
\* the proof of AnswerExact is by induction on.
IInv ==
  /\ TypeOK
  /\ "slowStart" \notin Faults => RequestsInOrder /\ AnswersInOrder

\* Thread h has something to do: bytes to read, or a lock that is free or will be.
CanGoOn(h) ==
  \/ hpc[h] \in {"start", "store", "answer"}
  \/ hpc[h] \in {"length", "data"} /\ up[sock[Own(h)]] # << >>
  \/ hpc[h] = "lock" /\ (lock = NoHandler \/ hpc[lock] = "store")

\* The safety half of AcceptedServed: while an accepted client waits for its
\* answer, and none is on its way, its thread does not wait for the client,
\* unless a byte of the length behind the first is negative as a char.
NoMutualWait ==
  server = "running" =>
    \A c \in Clients :
      /\ cpc[c] = "answer" /\ serverEnd[c] = "open" /\ down[c] = << >>
      /\ SignFree(LengthOf(c))
      => \E h \in Handlers : Own(h) \in Fds /\ sock[Own(h)] = c /\ CanGoOn(h)
=============================================================================
