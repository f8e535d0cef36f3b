------------------------------ MODULE SlotUsers ------------------------------
(***************************************************************************)
(* ex3's programs and the device they use: message_sender opens a slot,    *)
(* chooses a channel, writes one message and closes; message_reader does   *)
(* the same with a read of MAX_BUFFER_SIZE bytes and prints them.  Each    *)
(* process runs one program after the other; the module stays loaded and   *)
(* kmalloc does not fail.                                                  *)
(*                                                                         *)
(* sent and disturbed are history variables: they record what happened and *)
(* no step depends on them.                                                *)
(***************************************************************************)
EXTENDS MessageSlot

CONSTANT Jobs   \* the command lines: role, minor, channelID and message

ASSUME JobsAssumption ==
  /\ Jobs # {}
  /\ Jobs \subseteq [role : {"sender", "reader"}, minor : Minors,
                     channel : Params, message : Messages]
\* sizeof(buffer), which has room for a whole channel
ASSUME BufferAssumption == ReadSizes = {MaxBufferSize} /\ BufLen <= MaxBufferSize

VARIABLES
  job,        \* what each process was started with
  ppc,        \* where its program is
  outcome,    \* how its last program ended
  sent,       \* the message of the last write that returned, for each channel
  disturbed   \* a call overlapped one of the program's, or a file of its slot
              \* was closed before its transfer

programVars == <<job, ppc, outcome>>
allVars == <<vars, programVars, sent, disturbed>>

Unknown == << "unknown" >>   \* calls overlapped the write

Steps == {"idle", "open", "ioctl", "transfer", "close", "exit"}
Outcomes == {"none", "success", "failure", "killed"}
Sent == Messages \cup {Garbage, Unknown}

ProgramsTypeOK ==
  /\ job \in [Procs -> Jobs]
  /\ ppc \in [Procs -> Steps]
  /\ outcome \in [Procs -> Outcomes]
  /\ sent \in [Minors -> [Channels -> Sent]]
  /\ disturbed \in [Procs -> BOOLEAN]

UsersTypeOK == TypeOK /\ ProgramsTypeOK

UsersInit ==
  /\ Init
  /\ job = [p \in Procs |-> CHOOSE j \in Jobs : TRUE]
  /\ ppc = [p \in Procs |-> "idle"]
  /\ outcome = [p \in Procs |-> "none"]
  /\ sent = [m \in Minors |-> [c \in Channels |-> Garbage]]
  /\ disturbed = [p \in Procs |-> FALSE]

\* Program counter and job of p change; the rest of what programs have stays.
Goto(p, place) ==
  /\ ppc' = [ppc EXCEPT ![p] = place]
  /\ UNCHANGED <<job, outcome, sent>>

\* A sender refuses a message of more than 128 characters.
TooLong(j) == j.role = "sender" /\ Length[j.message] > MaxBufferSize

Start(p, j) ==
  /\ ppc[p] = "idle"
  /\ job' = [job EXCEPT ![p] = j]
  /\ IF TooLong(j)
     THEN outcome' = [outcome EXCEPT ![p] = "failure"] /\ UNCHANGED ppc
     ELSE /\ outcome' = [outcome EXCEPT ![p] = "none"]
          /\ ppc' = [ppc EXCEPT ![p] = "open"]
  /\ UNCHANGED <<vars, sent>>

OpenSlot(p) ==
  /\ ppc[p] = "open"
  /\ Open(p, job[p].minor)
  /\ Goto(p, "ioctl")

SetChannel(p) ==
  /\ ppc[p] = "ioctl"
  /\ Ioctl(p, job[p].channel)
  /\ Goto(p, IF result'[p] < 0 THEN "close" ELSE "transfer")

Transfer(p) ==
  /\ ppc[p] = "transfer"
  /\ IF job[p].role = "sender" THEN Write(p, job[p].message)
                               ELSE Read(p, MaxBufferSize)
  /\ Goto(p, "close")

\* The program's end closes the file; so does the kernel for one it killed.
CloseSlot(p) ==
  /\ ppc[p] = "close"
  /\ Release(p)
  /\ ppc' = [ppc EXCEPT ![p] = "exit"]
  /\ outcome' = [outcome EXCEPT ![p] =
       CASE pc[p] = "oops"  -> "killed"
         [] result[p] < 0   -> "failure"
         [] OTHER           -> "success"]
  /\ UNCHANGED <<job, sent>>

Exit(p) ==
  /\ ppc[p] = "exit"
  /\ pc[p] = "closed"
  /\ Goto(p, "idle")
  /\ UNCHANGED vars

\* A step of the driver inside a call of p's.
InDriver(p) ==
  /\ \/ OpenExisting(p) \/ OpenInsert(p) \/ OpenPublish(p)
     \/ WriteCheck(p) \/ WriteRefused(p) \/ WriteByte(p)
     \/ ReadCheck(p) \/ ReadRefused(p) \/ ReadByte(p) \/ ReadEnd(p)
  /\ UNCHANGED <<programVars, sent>>

WriteReturns(p) ==
  /\ WriteLength(p)
  /\ sent' = [sent EXCEPT ![minor[p]][channel[p]] =
                IF disturbed[p] THEN Unknown ELSE arg[p]]
  /\ UNCHANGED programVars

FileCloses(p) ==
  /\ ReleaseClose(p)
  /\ UNCHANGED <<programVars, sent>>

Program(p) ==
  \/ \E j \in Jobs : Start(p, j)
  \/ OpenSlot(p) \/ SetChannel(p) \/ Transfer(p) \/ CloseSlot(p) \/ Exit(p)

\* The program of q has opened slot m and not read or written it yet.
Uses(q, m) == minor[q] = m /\ ppc[q] \in {"ioctl", "transfer"}

\* What a step of p does to the history of the others and of itself.
Disturb(p) ==
  disturbed' = [q \in Procs |->
    /\ q = p => ppc[p] # "idle"
    /\ \/ disturbed[q]
       \/ InCall(q)' /\ \E r \in Procs \ {q} : InCall(r)'
       \/ pc[p] = "releaseFound" /\ Uses(q, minor[p])]

UsersNext ==
  \E p \in Procs :
    (Program(p) \/ InDriver(p) \/ WriteReturns(p) \/ FileCloses(p)) /\ Disturb(p)

UsersSpec == UsersInit /\ [][UsersNext]_allVars

-----------------------------------------------------------------------------
(* Properties.  Calls overlap, unless Serial.                              *)

\* A read that is not refused and that no call overlapped returns exactly what
\* is stored of the message of the last sender of that channel, or nothing
\* before the first, however the programs on this slot and on others take
\* turns and whatever overlapped before.
ReadsLastSent ==
  [][\A p \in Procs : pc[p] = "reading" /\ pc'[p] = "ready" /\ ~ disturbed[p] =>
       LET s == sent[minor[p]][channel[p]] IN
         \/ s = Unknown
         \/ s = Garbage /\ got[p] = << >>
         \/ s \in Messages
            /\ got[p] = [k \in 1 .. Stored(s) |-> <<s, minor[p], channel[p]>>]
    ]_allVars

\* A good command line: a channel there is and a message that fits.
GoodJob(j) ==
  /\ j.channel \in Channels
  /\ j.role = "sender" => Length[j.message] \in PointerSize .. MaxBufferSize

\* The only things that make a program with a good command line fail are calls
\* that overlap its own and somebody who closes the slot under it: no slot is
\* left unusable by what was sent, read, refused or closed before, nor by nodes
\* that overlapping opens lost or made twice.
UndisturbedSucceeds ==
  \A p \in Procs :
    outcome[p] # "none" /\ GoodJob(job[p]) /\ ~ disturbed[p] => outcome[p] = "success"

-----------------------------------------------------------------------------
(* Why they hold: the invariant of the proofs.                             *)

\* Who is in a call while another is has that in its history.
OverlapsSeen == \A p, q \in Procs : p # q /\ InCall(p) /\ InCall(q) => disturbed[p]

\* Where the call of a process may be while its program is at each step.
PlacesAt(step) ==
  CASE step \in {"idle", "open"} -> {"closed"}
    [] step = "ioctl"            -> {"openFound", "publish", "ready"}
    [] step = "transfer"         -> {"ready"}
    [] step = "close"            -> {"ready", "writeFound", "writing", "readFound",
                                     "reading", "oops"}
    [] OTHER                     -> {"releaseFound", "closed"}

ProgramInOrder(p) ==
  /\ pc[p] \in PlacesAt(ppc[p])
  /\ ppc[p] \notin {"idle", "exit"} => outcome[p] = "none"
  /\ GoodJob(job[p]) /\ ~ disturbed[p] =>
       /\ ppc[p] = "transfer" => channel[p] = job[p].channel
       /\ ppc[p] = "close" => pc[p] # "oops" /\ (pc[p] = "ready" => result[p] >= 0)
       /\ outcome[p] # "none" => outcome[p] = "success"

\* Minor m has a node that no open under way loses or hides.
Settled(m) ==
  LET n == GetMinorNode(m) IN
    /\ n # Null
    /\ \A q \in Procs :
         /\ pc[q] = "openFound" /\ found[q] = Null => minor[q] # m
         /\ pc[q] = "publish" => minor[q] # m /\ FirstFrom(node[found[q]].next, m) = n

\* An undisturbed program has the node of its slot, open until it is used, and the
\* bytes it copies are not touched by others.
SlotInOrder(p) ==
  ~ disturbed[p] =>
    /\ pc[p] = "openFound" => found[p] = GetMinorNode(minor[p])
    /\ pc[p] = "publish" => node[found[p]].open
    /\ pc[p] = "ready" /\ ppc[p] \in {"ioctl", "transfer"} =>
         Settled(minor[p]) /\ node[GetMinorNode(minor[p])].open
    /\ pc[p] \in {"writeFound", "writing", "readFound", "reading"} =>
         Settled(minor[p]) /\ found[p] = GetMinorNode(minor[p])
    /\ pc[p] \in {"writeFound", "readFound"} => node[found[p]].open
    /\ SerialBytes(p)

\* What channel c of node n has is what is stored of message s.
Holds(n, c, s) ==
  /\ node[n].length[c] = Stored(s)
  /\ \A k \in 1 .. Stored(s) : node[n].cell[c][k] = <<s, node[n].value, c>>

\* Where nothing was written there is nothing; what the last write that nobody
\* disturbed left is there, or somebody is writing.
SentInOrder(m, c) ==
  /\ sent[m][c] = Garbage =>
       \A n \in 1 .. allocated : node[n].value = m => node[n].length[c] = 0
  /\ sent[m][c] \in Messages \ {Unknown} =>
       /\ Settled(m)
       /\ Writing(m, c) # {} \/ Holds(GetMinorNode(m), c, sent[m][c])

\* The programs and the slots they have to themselves stay in order
\* (message_sender.c and message_reader.c on the driver).
UsersInv ==
  /\ IInv /\ ProgramsTypeOK
  /\ OverlapsSeen
  /\ \A p \in Procs : ProgramInOrder(p) /\ SlotInOrder(p)
  /\ \A m \in Minors, c \in Channels : SentInOrder(m, c)
=============================================================================
