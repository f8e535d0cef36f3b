------------------------------ MODULE PccClient ------------------------------
(***************************************************************************)
(* ex5's pcc_client.c: connects, sends the length of its data and the      *)
(* data, waits for the number of printable bytes and prints it.            *)
(***************************************************************************)
EXTENDS PccSockets

CONSTANTS Payloads,   \* the data the clients may have drawn from /dev/urandom
          MaxRandom   \* the most bytes one read of /dev/urandom returns

ASSUME PayloadsAssumption == Payloads \subseteq [Clients -> Seq(Bytes) \ {<< >>}]

\* The length is an unsigned int.
ASSUME LengthAssumption ==
  \A p \in Payloads : \A c \in Clients :
    Len(p[c]) < Byte * Byte * Byte * Byte
ASSUME MaxRandomAssumption == MaxRandom \in Nat

VARIABLES payload,    \* what each client sends
          cpc,        \* where each client is
          reply       \* the bytes of the answer it has read

clientVars == <<payload, cpc, reply>>

ClientTypeOK ==
  /\ payload \in Payloads
  /\ cpc \in [Clients -> {"connect", "random", "length", "data", "answer",
                          "print", "printed", "failed", "dead"}]
  /\ reply \in [Clients -> Seq(Bytes)]

ClientInit ==
  /\ payload \in Payloads
  /\ cpc = [c \in Clients |-> "connect"]
  /\ reply = [c \in Clients |-> << >>]

\* The process ends with pc status; the kernel closes its socket.
ClientEnds(c, status) ==
  /\ cpc' = [cpc EXCEPT ![c] = status]
  /\ clientEnd' =
       [clientEnd EXCEPT ![c] = IF @ = "open" THEN Closed(down[c]) ELSE @]

\* getConnection, while a server listens.
GetConnection(c, listening) ==
  /\ cpc[c] = "connect"
  /\ listening
  /\ cpc' = [cpc EXCEPT ![c] = "random"]
  /\ backlog' = Append(backlog, c)
  /\ clientEnd' = [clientEnd EXCEPT ![c] = "open"]
  /\ serverEnd' = [serverEnd EXCEPT ![c] = "backlog"]
  /\ UNCHANGED <<payload, reply, up, down>>

GetConnectionFails(c, listening) ==
  /\ cpc[c] = "connect"
  /\ ~ listening
  /\ ClientEnds(c, "failed")
  /\ UNCHANGED <<payload, reply, backlog, serverEnd, up, down>>

\* getRandomChars.  If one read does not return all the bytes, the next is
\* asked for a negative size; each failure counts as one byte less, until a
\* read of 0 bytes is repeated for ever: the client stays here.
GetRandomChars(c) ==
  /\ cpc[c] = "random"
  /\ Len(payload[c]) <= MaxRandom
  /\ cpc' = [cpc EXCEPT ![c] = "length"]
  /\ UNCHANGED <<payload, reply, sockets>>

\* write() of bytes to the server; SIGPIPE ends the client.
SendToServer(c, bytes, next) ==
  /\ UNCHANGED <<payload, reply, backlog, down>>
  /\ IF Broken(serverEnd[c])
     THEN ClientEnds(c, "failed") /\ UNCHANGED <<serverEnd, up>>
     ELSE /\ cpc' = [cpc EXCEPT ![c] = next]
          /\ up' = [up EXCEPT ![c] = IF serverEnd[c] = "closed"
                                     THEN @ ELSE @ \o bytes]
          /\ serverEnd' = Written(serverEnd, c)
          /\ UNCHANGED clientEnd

SendLengthToServer(c) ==
  /\ cpc[c] = "length"
  /\ SendToServer(c, UnsignedIntToChars(Len(payload[c])), "data")

SendRandomCharsToServer(c) ==
  /\ cpc[c] = "data"
  /\ SendToServer(c, payload[c], "answer")

\* Some bytes of the answer.
ReadAnswer(c) ==
  /\ cpc[c] = "answer"
  /\ \E chunk \in Readable(down[c], WordBytes - Len(reply[c])) :
       /\ reply' = [reply EXCEPT ![c] = @ \o chunk]
       /\ down' = [down EXCEPT ![c] = After(@, chunk)]
       /\ cpc' = [cpc EXCEPT ![c] =
            IF Len(reply[c] \o chunk) = WordBytes THEN "print" ELSE "answer"]
  /\ UNCHANGED <<payload, backlog, clientEnd, serverEnd, up>>

\* The connection was reset: one byte less, or the end of the process.  At end
\* of file the client reads 0 bytes for ever.
ReadAnswerFails(c) ==
  /\ cpc[c] = "answer"
  /\ down[c] = << >>
  /\ serverEnd[c] = "reset"
  /\ serverEnd' = ReadFailed(serverEnd, c)
  /\ IF reply[c] = << >>
     THEN ClientEnds(c, "failed") /\ UNCHANGED reply
     ELSE /\ reply' = [reply EXCEPT ![c] = Front(@)]
          /\ UNCHANGED <<cpc, clientEnd>>
  /\ UNCHANGED <<payload, backlog, up, down>>

\* What the client takes the answer for.
NumOfPrintables(c) == CharsToUnsignedInt(reply[c])

PrintAndExit(c) ==
  /\ cpc[c] = "print"
  /\ ClientEnds(c, "printed")
  /\ UNCHANGED <<payload, reply, backlog, serverEnd, up, down>>

\* The client is killed; what it has sent may not all arrive.
Die(c) ==
  /\ cpc[c] \in {"random", "length", "data", "answer", "print"}
  /\ "client" \in Faults
  /\ cpc' = [cpc EXCEPT ![c] = "dead"]
  /\ \E n \in 0 .. Len(up[c]), end \in {Closed(down[c]), "reset"} :
       /\ up' = [up EXCEPT ![c] = SubSeq(@, 1, n)]
       /\ clientEnd' =
            [clientEnd EXCEPT ![c] = IF @ = "open" THEN end ELSE @]
  /\ UNCHANGED <<payload, reply, backlog, serverEnd, down>>

Client(c, listening) ==
  \/ GetConnection(c, listening) \/ GetConnectionFails(c, listening)
  \/ GetRandomChars(c)           \/ SendLengthToServer(c)
  \/ SendRandomCharsToServer(c)  \/ ReadAnswer(c)
  \/ ReadAnswerFails(c)          \/ PrintAndExit(c)
=============================================================================
