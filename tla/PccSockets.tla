----------------------------- MODULE PccSockets ------------------------------
(***************************************************************************)
(* The TCP connections between the clients and the server of ex5, as the   *)
(* programs' calls to connect, accept, read, write and close use them.     *)
(* A connection is named by its client.  write() hands all its bytes over; *)
(* read() returns some of those that arrived, at least one; the kernel     *)
(* completes connections before they are accepted.                         *)
(*                                                                         *)
(* What the peer of an end sees of it:                                     *)
(*   "none"     not connected                                              *)
(*   "backlog"  connected by the kernel, not accepted (server end only)    *)
(*   "open"                                                                *)
(*   "closed"   end of file once the bytes are read; the first write is    *)
(*              lost and answered with a reset                             *)
(*   "reset"    one read fails, then end of file; writing is SIGPIPE       *)
(*   "gone"     the failed read has been reported                          *)
(***************************************************************************)
EXTENDS PccWords, SequencesExt

CONSTANTS Clients, NoClient,
          Faults   \* which faults may happen, see Pcc

ASSUME ClientsAssumption ==
  IsFiniteSet(Clients) /\ Clients # {} /\ NoClient \notin Clients

VARIABLES backlog,     \* clients connected and not yet accepted, in order
          clientEnd,   \* the client's end of each connection
          serverEnd,   \* the server's end
          up,          \* bytes sent to the server and not read
          down         \* bytes sent to the client and not read

sockets == <<backlog, clientEnd, serverEnd, up, down>>

Ends == {"none", "backlog", "open", "closed", "reset", "gone"}

SocketsTypeOK ==
  /\ backlog \in Seq(Clients)
  /\ clientEnd \in [Clients -> Ends]
  /\ serverEnd \in [Clients -> Ends]
  /\ up \in [Clients -> Seq(Bytes)]
  /\ down \in [Clients -> Seq(Bytes)]

SocketsInit ==
  /\ backlog = << >>
  /\ clientEnd = [c \in Clients |-> "none"]
  /\ serverEnd = [c \in Clients |-> "none"]
  /\ up = [c \in Clients |-> << >>]
  /\ down = [c \in Clients |-> << >>]

\* Chunks a read of at most max bytes may return from stream s.
Readable(s, max) == {SubSeq(s, 1, n) : n \in {m \in 1 .. Len(s) : m <= max}}

After(s, chunk) == SubSeq(s, Len(chunk) + 1, Len(s))

\* An end that a process closes with bytes left to read resets the connection.
Closed(unread) == IF unread = << >> THEN "closed" ELSE "reset"

\* A failed read reports a reset once.
ReadFailed(end, c) == [end EXCEPT ![c] = "gone"]

\* The peer of an end that is closed but not reset answers a write with a reset.
Written(end, c) == [end EXCEPT ![c] = IF @ = "closed" THEN "reset" ELSE @]

\* Writing to a connection that was reset raises SIGPIPE.
Broken(end) == end \in {"reset", "gone"}

\* What is left of the server's ends when its process ends.
ServerProcessEnds ==
  serverEnd' = [c \in Clients |->
                  CASE serverEnd[c] = "open"    -> Closed(up[c])
                    [] serverEnd[c] = "backlog" -> "reset"
                    [] OTHER                    -> serverEnd[c]]
=============================================================================
