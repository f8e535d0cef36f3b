----------------------------- MODULE MessageSlot -----------------------------
(***************************************************************************)
(* ex3/message_slot.c: a character device.  Each minor number has a node   *)
(* in a linked list, with a buffer and a length for each channel; a file   *)
(* remembers its channel in private_data.  The driver takes no lock, so    *)
(* the calls of different processes interleave at every access to a node   *)
(* or to the head of the list.                                             *)
(*                                                                         *)
(* Process p has at most one file open.  Its call is cut at every access   *)
(* to what other processes change: the list (a walk sees the list as it    *)
(* was when it read the head: nodes are only ever added in front of it),   *)
(* the open flag, each byte and the length.  A byte is abstracted to the   *)
(* write that stored it: its message, minor and channel; its place in the  *)
(* message is its place in the buffer.                                     *)
(*                                                                         *)
(* Fops has no owner, so the module may be removed with files open.  A     *)
(* call on such a file runs code that is gone: its process is an orphan,   *)
(* and is killed by whatever it does next.                                 *)
(*                                                                         *)
(* Serial is the assumption under which calls do not overlap.  The array   *)
(* message, which every copied byte increments at its own index, has 80    *)
(* elements and is read nowhere; the increments of channels 1 to 3 fall    *)
(* beyond .bss in the module that is built, which ends 8 bytes after it,   *)
(* and touch nothing of the driver's.                                      *)
(***************************************************************************)
EXTENDS Integers, Sequences, FiniteSets

CONSTANTS Procs, Minors, Messages,
          Params,         \* the arguments given to ioctl
          Length,         \* the length of each message
          ReadSizes,      \* sizes of the buffers given to read
          BufLen,         \* BUF_LEN, 80
          MaxBufferSize,  \* MAX_BUFFER_SIZE, 128
          PointerSize,    \* sizeof(buffer), 4 in the module that is built
          MaxNodes,       \* bound: nodes allocated while the module is loaded
          Serial

ASSUME ProcsAssumption == IsFiniteSet(Procs)
ASSUME MinorsAssumption == Minors # {}
ASSUME SizesAssumption ==
  /\ BufLen \in Nat \ {0} /\ PointerSize \in Nat \ {0} /\ MaxNodes \in Nat
  /\ MaxBufferSize \in Nat /\ PointerSize <= MaxBufferSize
  /\ Length \in [Messages -> Nat]
  /\ ReadSizes \subseteq Nat
ASSUME SerialAssumption == Serial \in BOOLEAN
ASSUME ParamsAssumption == Params \subseteq Nat

Null == 0          \* also the node of a walk that found none
NoChannel == -1
Channels == Params \cap 0 .. 3
EINVAL == -22
NoMessage == CHOOSE m \in Messages : TRUE   \* the argument of no call
NodeIds == 1 .. MaxNodes

VARIABLES
  loaded,     \* the module is
  head,       \* device_info.head
  allocated,  \* nodes allocated so far
  node,       \* the nodes
  pc,         \* where each process is
  minor,      \* the minor of its file
  channel,    \* its private_data
  found,      \* relevantNode, or the node it is inserting
  arg,        \* the message it writes or the size of the buffer it reads to
  i,          \* bytes it has copied
  limit,      \* the length it reads up to
  got,        \* the bytes read
  result      \* what its last call returned

device == <<loaded, head, allocated, node>>
vars ==
  <<device, pc, minor, channel, found, arg, i, limit, got, result>>

\* Mutant: the message is not cut.
StoredUncut(m) == Length[m]

\* Bytes a write of message m stores.
Stored(m) == IF Length[m] < BufLen THEN Length[m] ELSE BufLen

Garbage == << >>   \* what kmalloc left in a byte
Bytes == {Garbage} \cup (Messages \X Minors \X Channels)

ASSUME MessagesAssumption == Messages # {} /\ Garbage \notin Messages

Lengths == 0 .. BufLen

NodeType ==
  [value : Minors, open : BOOLEAN, next : NodeIds \cup {Null},
   length : [Channels -> Lengths],
   cell : [Channels -> [1 .. BufLen -> Bytes]]]

Places == {"closed", "openFound", "publish", "ready", "writeFound", "writing",
           "readFound", "reading", "releaseFound", "oops", "orphan", "crashed"}

Nodes == 0 .. allocated
Results == {EINVAL} \cup Lengths

DeviceTypeOK ==
  /\ loaded \in BOOLEAN
  /\ allocated \in 0 .. MaxNodes
  /\ head \in Nodes
  /\ node \in [1 .. allocated -> NodeType]

CallsTypeOK ==
  /\ pc \in [Procs -> Places]
  /\ minor \in [Procs -> Minors]
  /\ channel \in [Procs -> Channels \cup {NoChannel}]
  /\ arg \in [Procs -> Messages \cup ReadSizes]
  /\ i \in [Procs -> Lengths]
  /\ limit \in [Procs -> Lengths]
  /\ got \in [Procs -> Seq(Bytes)]
  /\ result \in [Procs -> Results]
  /\ found \in [Procs -> Nodes]

TypeOK == DeviceTypeOK /\ CallsTypeOK

Init ==
  /\ loaded = TRUE
  /\ head = Null
  /\ allocated = 0
  /\ node = << >>
  /\ pc = [p \in Procs |-> "closed"]
  /\ minor = [p \in Procs |-> CHOOSE m \in Minors : TRUE]
  /\ channel = [p \in Procs |-> NoChannel]
  /\ found = [p \in Procs |-> Null]
  /\ arg = [p \in Procs |-> NoMessage]
  /\ i = [p \in Procs |-> 0]
  /\ limit = [p \in Procs |-> 0]
  /\ got = [p \in Procs |-> << >>]
  /\ result = [p \in Procs |-> 0]

\* A call of p is being served.
InCall(p) == pc[p] \notin {"closed", "ready", "oops", "orphan", "crashed"}

\* Process p may start a call.
MayCall(p) == Serial => \A q \in Procs \ {p} : ~ InCall(q)

\* The nodes of the list from n on: what is in every set of nodes that has n
\* and the next node of each of its own.
NodesFrom(n) ==
  {k \in 1 .. allocated :
     \A S \in SUBSET (0 .. allocated) :
       n \in S /\ (\A j \in S \ {Null} : node[j].next \in S) => k \in S}

\* The nodes of minor m from n on.
Hits(n, m) == {k \in NodesFrom(n) : node[k].value = m}

\* The first node of minor m from n on, which is the one that comes before all
\* others, or Null.
FirstFrom(n, m) ==
  LET hits == Hits(n, m)
  IN  IF hits = {} THEN Null ELSE CHOOSE k \in hits : hits \subseteq NodesFrom(k)

GetMinorNode(m) == FirstFrom(head, m)

\* The variables of p's call end with it.
LocalsEnd(p) ==
  /\ found' = [found EXCEPT ![p] = Null]
  /\ arg' = [arg EXCEPT ![p] = NoMessage]
  /\ i' = [i EXCEPT ![p] = 0]
  /\ limit' = [limit EXCEPT ![p] = 0]

\* The call of p ends and returns r.
Return(p, r) ==
  /\ pc' = [pc EXCEPT ![p] = "ready"]
  /\ result' = [result EXCEPT ![p] = r]
  /\ LocalsEnd(p)

-----------------------------------------------------------------------------
(* device_open.                                                            *)

\* The bound: a process opens a minor without a node only if there is one left.
Inserting == {q \in Procs : pc[q] = "openFound" /\ found[q] = Null}
NodeLeft == allocated + Cardinality(Inserting) < MaxNodes

Open(p, m) ==
  /\ pc[p] = "closed"
  /\ loaded
  /\ GetMinorNode(m) # Null \/ NodeLeft
  /\ MayCall(p)
  /\ minor' = [minor EXCEPT ![p] = m]
  /\ found' = [found EXCEPT ![p] = GetMinorNode(m)]
  /\ pc' = [pc EXCEPT ![p] = "openFound"]
  /\ UNCHANGED <<device, channel, arg, i, limit, got, result>>

\* Mutant: the node of a minor that was closed stays closed.
OpenStaysClosed(p) ==
  /\ pc[p] = "openFound"
  /\ found[p] # Null
  /\ channel' = [channel EXCEPT ![p] = NoChannel]
  /\ Return(p, 0)
  /\ UNCHANGED <<device, minor, got>>

OpenExisting(p) ==
  /\ pc[p] = "openFound"
  /\ found[p] # Null
  /\ node' = [node EXCEPT ![found[p]].open = TRUE]
  /\ channel' = [channel EXCEPT ![p] = NoChannel]
  /\ Return(p, 0)
  /\ UNCHANGED <<loaded, head, allocated, minor, got>>

\* insertAtTheBeginingOfTheList up to first->nextNode = device_info.head; the
\* buffer is what kmalloc returned.
OpenInsert(p) ==
  /\ pc[p] = "openFound"
  /\ found[p] = Null
  /\ allocated' = allocated + 1
  /\ node' = Append(node,
       [value |-> minor[p], open |-> TRUE, next |-> head,
        length |-> [c \in Channels |-> 0],
        cell |-> [c \in Channels |-> [k \in 1 .. BufLen |-> Garbage]]])
  /\ found' = [found EXCEPT ![p] = allocated + 1]
  /\ pc' = [pc EXCEPT ![p] = "publish"]
  /\ UNCHANGED <<loaded, head, minor, channel, arg, i, limit, got, result>>

\* kmalloc returns NULL, which is dereferenced.
OpenInsertFails(p) ==
  /\ pc[p] = "openFound"
  /\ found[p] = Null
  /\ pc' = [pc EXCEPT ![p] = "crashed"]
  /\ UNCHANGED <<device, minor, channel, found, arg, i, limit, got, result>>

\* Mutant: the node is never linked, as in message_slot_after_changing.c.
HeadNotLinked(p) == head

HeadAfterInsert(p) == found[p]

\* device_info.head = first
OpenPublish(p) ==
  /\ pc[p] = "publish"
  /\ head' = HeadAfterInsert(p)
  /\ channel' = [channel EXCEPT ![p] = NoChannel]
  /\ Return(p, 0)
  /\ UNCHANGED <<loaded, allocated, node, minor, got>>

-----------------------------------------------------------------------------
(* device_ioctl and device_release.                                        *)

Ioctl(p, c) ==
  /\ pc[p] = "ready"
  /\ MayCall(p)
  /\ IF c \in Channels
     THEN channel' = [channel EXCEPT ![p] = c] /\ Return(p, 0)
     ELSE Return(p, EINVAL) /\ UNCHANGED channel
  /\ UNCHANGED <<device, minor, got>>

\* A process killed by an oops releases its file as well.
Release(p) ==
  /\ pc[p] \in {"ready", "oops"}
  /\ MayCall(p)
  /\ found' = [found EXCEPT ![p] = GetMinorNode(minor[p])]
  /\ pc' = [pc EXCEPT ![p] = "releaseFound"]
  /\ UNCHANGED <<device, minor, channel, arg, i, limit, got, result>>

\* The node is marked closed whoever else has the minor open; the process and
\* its buffer end with the file.
ReleaseClose(p) ==
  /\ pc[p] = "releaseFound"
  /\ node' = IF found[p] = Null
             THEN node
             ELSE [node EXCEPT ![found[p]].open = FALSE]
  /\ pc' = [pc EXCEPT ![p] = "closed"]
  /\ channel' = [channel EXCEPT ![p] = NoChannel]
  /\ got' = [got EXCEPT ![p] = << >>]
  /\ result' = [result EXCEPT ![p] = 0]
  /\ LocalsEnd(p)
  /\ UNCHANGED <<loaded, head, allocated, minor>>

-----------------------------------------------------------------------------
(* device_write.                                                           *)

\* The length is compared with the size of the pointer to the bytes.
Writable(p, m) == channel[p] # NoChannel /\ Length[m] >= PointerSize

Write(p, m) ==
  /\ pc[p] = "ready"
  /\ MayCall(p)
  /\ IF Writable(p, m)
     THEN /\ arg' = [arg EXCEPT ![p] = m]
          /\ found' = [found EXCEPT ![p] = GetMinorNode(minor[p])]
          /\ pc' = [pc EXCEPT ![p] = "writeFound"]
          /\ UNCHANGED <<i, limit, result>>
     ELSE Return(p, EINVAL)
  /\ UNCHANGED <<device, minor, channel, got>>

\* The minor has no node: a null pointer is dereferenced and p is killed.
Oops(p) ==
  /\ pc' = [pc EXCEPT ![p] = "oops"]
  /\ UNCHANGED <<found, arg, i, limit, result>>

WriteRefused(p) ==
  /\ pc[p] = "writeFound"
  /\ IF found[p] = Null
     THEN Oops(p)
     ELSE ~ node[found[p]].open /\ Return(p, EINVAL)
  /\ UNCHANGED <<device, minor, channel, got>>

\* Mutant: the length is set before the bytes.
WriteCheckSetsLength(p) ==
  /\ pc[p] = "writeFound"
  /\ found[p] # Null
  /\ node[found[p]].open
  /\ node' = [node EXCEPT ![found[p]].length[channel[p]] = Stored(arg[p])]
  /\ pc' = [pc EXCEPT ![p] = "writing"]
  /\ i' = [i EXCEPT ![p] = 0]
  /\ UNCHANGED <<loaded, head, allocated, minor, channel, found, arg, limit, got, result>>

WriteCheck(p) ==
  /\ pc[p] = "writeFound"
  /\ found[p] # Null
  /\ node[found[p]].open
  /\ pc' = [pc EXCEPT ![p] = "writing"]
  /\ i' = [i EXCEPT ![p] = 0]
  /\ UNCHANGED <<device, minor, channel, found, arg, limit, got, result>>

WriteByte(p) ==
  /\ pc[p] = "writing"
  /\ i[p] < Stored(arg[p])
  /\ node' = [node EXCEPT ![found[p]].cell[channel[p]][i[p] + 1] =
                             <<arg[p], minor[p], channel[p]>>]
  /\ i' = [i EXCEPT ![p] = @ + 1]
  /\ UNCHANGED <<loaded, head, allocated, pc, minor, channel, found, arg, limit, got, result>>

\* Mutant: a shorter message does not shrink the channel.
LengthNeverShrinks(p) ==
  LET old == node[found[p]].length[channel[p]]
  IN  IF i[p] > old THEN i[p] ELSE old

\* The length that a write leaves.
LengthWritten(p) == i[p]

WriteLength(p) ==
  /\ pc[p] = "writing"
  /\ i[p] = Stored(arg[p])
  /\ node' = [node EXCEPT ![found[p]].length[channel[p]] = LengthWritten(p)]
  /\ Return(p, i[p])
  /\ UNCHANGED <<loaded, head, allocated, minor, channel, got>>

-----------------------------------------------------------------------------
(* device_read.                                                            *)

Read(p, size) ==
  /\ pc[p] = "ready"
  /\ MayCall(p)
  /\ IF channel[p] # NoChannel
     THEN /\ arg' = [arg EXCEPT ![p] = size]
          /\ found' = [found EXCEPT ![p] = GetMinorNode(minor[p])]
          /\ pc' = [pc EXCEPT ![p] = "readFound"]
          /\ UNCHANGED <<i, limit, result>>
     ELSE Return(p, EINVAL)
  /\ UNCHANGED <<device, minor, channel, got>>

LengthNow(p) == node[found[p]].length[channel[p]]

Fits(p) == LengthNow(p) <= arg[p]

ReadRefused(p) ==
  /\ pc[p] = "readFound"
  /\ IF found[p] = Null
     THEN Oops(p)
     ELSE ~ (node[found[p]].open /\ Fits(p)) /\ Return(p, EINVAL)
  /\ UNCHANGED <<device, minor, channel, got>>

ReadCheck(p) ==
  /\ pc[p] = "readFound"
  /\ found[p] # Null
  /\ node[found[p]].open /\ Fits(p)
  /\ pc' = [pc EXCEPT ![p] = "reading"]
  /\ i' = [i EXCEPT ![p] = 0]
  /\ limit' = [limit EXCEPT ![p] = LengthNow(p)]
  /\ got' = [got EXCEPT ![p] = << >>]
  /\ UNCHANGED <<device, minor, channel, found, arg, result>>

\* No lock and no barrier: the loop's test may use a length the compiler
\* kept or read it again.
LimitMayBe(p) == {limit[p], LengthNow(p)}

ReadByte(p) ==
  /\ pc[p] = "reading"
  /\ \E n \in LimitMayBe(p) :
       /\ i[p] < n
       /\ limit' = [limit EXCEPT ![p] = n]
  /\ got' = [got EXCEPT ![p] = Append(@, node[found[p]].cell[channel[p]][i[p] + 1])]
  /\ i' = [i EXCEPT ![p] = @ + 1]
  /\ UNCHANGED <<device, pc, minor, channel, found, arg, result>>

ReadEnd(p) ==
  /\ pc[p] = "reading"
  /\ \E n \in LimitMayBe(p) : i[p] >= n
  /\ Return(p, i[p])
  /\ UNCHANGED <<device, minor, channel, got>>

-----------------------------------------------------------------------------
(* The module.                                                             *)

\* Every node is freed.
CleanList == head' = Null /\ allocated' = 0 /\ node' = << >>

\* simple_cleanup, whoever has files open.
Unload ==
  /\ loaded
  /\ \A p \in Procs : MayCall(p)
  /\ loaded' = FALSE
  /\ CleanList
  /\ pc' = [p \in Procs |->
               IF pc[p] \in {"closed", "crashed"} THEN pc[p] ELSE "orphan"]
  /\ channel' = [p \in Procs |-> NoChannel]
  /\ got' = [p \in Procs |-> << >>]
  /\ result' = [p \in Procs |-> 0]
  /\ found' = [p \in Procs |-> Null]
  /\ arg' = [p \in Procs |-> NoMessage]
  /\ i' = [p \in Procs |-> 0]
  /\ limit' = [p \in Procs |-> 0]
  /\ UNCHANGED minor

\* simple_init, if register_chrdev gets the major number.
Load ==
  /\ ~ loaded
  /\ loaded' = TRUE
  /\ head' = Null
  /\ UNCHANGED <<allocated, node, pc, minor, channel, found, arg, i, limit, got, result>>

\* Any call, or the close at the end of the process.
OrphanCalls(p) ==
  /\ pc[p] = "orphan"
  /\ pc' = [pc EXCEPT ![p] = "crashed"]
  /\ UNCHANGED <<device, minor, channel, found, arg, i, limit, got, result>>

\* Another process takes the place of one that was killed without a release.
Replaced(p) ==
  /\ pc[p] = "crashed"
  /\ pc' = [pc EXCEPT ![p] = "closed"]
  /\ UNCHANGED <<device, minor, channel, found, arg, i, limit, got, result>>

-----------------------------------------------------------------------------
Call(p) ==
  \/ \E m \in Minors : Open(p, m)
  \/ OpenExisting(p) \/ OpenInsert(p) \/ OpenInsertFails(p) \/ OpenPublish(p)
  \/ \E c \in Params : Ioctl(p, c)
  \/ Release(p) \/ ReleaseClose(p)
  \/ \E m \in Messages : Write(p, m)
  \/ WriteCheck(p) \/ WriteRefused(p) \/ WriteByte(p) \/ WriteLength(p)
  \/ \E size \in ReadSizes : Read(p, size)
  \/ ReadCheck(p) \/ ReadRefused(p) \/ ReadByte(p) \/ ReadEnd(p)
  \/ OrphanCalls(p) \/ Replaced(p)

Next == Unload \/ Load \/ \E p \in Procs : Call(p)

Spec == Init /\ [][Next]_vars
-----------------------------------------------------------------------------
(* What the device holds.                                                  *)

\* The node that a walk of the list finds for minor m has the channel's bytes
\* up to its length.
Text(m, c) ==
  LET n == GetMinorNode(m)
  IN  IF n = Null THEN << >> ELSE SubSeq(node[n].cell[c], 1, node[n].length[c])

Whole(p) == [k \in 1 .. Stored(arg[p]) |-> <<arg[p], minor[p], channel[p]>>]

\* Those that have changed channel c of minor m and not set its length yet.
Writing(m, c) == {p \in Procs : pc[p] = "writing" /\ minor[p] = m /\ channel[p] = c}

\* A write or a read takes effect when it finds the node open.
files ==
  [p \in Procs |->
     IF pc[p] \in {"closed", "openFound", "publish", "orphan", "crashed"}
     THEN << >> ELSE <<minor[p], channel[p]>>]
liveMinors == {m \in Minors : GetMinorNode(m) # Null /\ node[GetMinorNode(m)].open}
texts ==
  [m \in Minors |-> [c \in Channels |->
     IF Writing(m, c) = {} THEN Text(m, c)
                           ELSE Whole(CHOOSE p \in Writing(m, c) : TRUE)]]
buffers ==
  [p \in Procs |-> IF pc[p] = "reading" THEN Text(minor[p], channel[p]) ELSE got[p]]
results ==
  [p \in Procs |->
     CASE pc[p] = "writing" -> Stored(arg[p])
       [] pc[p] = "reading" -> Len(Text(minor[p], channel[p]))
       [] OTHER -> result[p]]

Register ==
  INSTANCE Slot WITH file <- files, live <- liveMinors, text <- texts,
                     buffer <- buffers, result <- results

-----------------------------------------------------------------------------
(* Properties.                                                             *)

\* Calls that do not overlap make the device a register for each channel of
\* each minor, whatever minors and channels other files use, however long the
\* text that a shorter one replaces, and however files are opened and closed.
\* A process that is killed, because kmalloc failed in its open or the module
\* was removed under its file, changes nothing for the others, and a module that
\* is loaded again has nothing of what it held before.
ImplementsRegister == Register!Spec

\* However calls overlap, a read returns only bytes that a write to the same
\* minor and channel stored: none of another channel or minor, and none of
\* what kmalloc left in the node (the loops of device_read and device_write).
ReadsOwnChannel ==
  \A p \in Procs : pc[p] = "reading" =>
    \A k \in 1 .. Len(got[p]) :
      got[p][k] \in Messages \X {minor[p]} \X {channel[p]}

\* Every call on an open file finds a node for its minor; otherwise it
\* dereferences a null pointer ("a process which has already opened the device
\* file attempts to read from it", the comment above device_read).
NoOops == \A p \in Procs : pc[p] # "oops"

-----------------------------------------------------------------------------
(* Why they hold: the inductive invariant of the proofs.                   *)

\* A node is linked to one that was there before it, and a module that is not
\* loaded has no nodes and serves no calls.
ListInOrder ==
  /\ \A n \in 1 .. allocated : node[n].next < n
  /\ ~ loaded => /\ allocated = 0
                 /\ \A p \in Procs : pc[p] \in {"closed", "orphan", "crashed"}
  /\ allocated + Cardinality(Inserting) <= MaxNodes

\* What the call of a process works on.
CallInOrder(p) ==
  /\ found[p] # Null => node[found[p]].value = minor[p]
  /\ pc[p] \in {"publish", "writing", "reading"} => found[p] # Null
  /\ pc[p] \in {"writeFound", "writing", "readFound", "reading"} =>
       channel[p] \in Channels
  /\ pc[p] \in {"writeFound", "writing"} => arg[p] \in Messages
  /\ pc[p] \in {"readFound", "reading"} => arg[p] \in ReadSizes
  /\ pc[p] = "writeFound" => Length[arg[p]] >= PointerSize
  /\ pc[p] = "writing" => i[p] <= Stored(arg[p])
  /\ pc[p] = "reading" => Len(got[p]) = i[p]

CallsInOrder == \A p \in Procs : CallInOrder(p)

\* The first k bytes of channel c of node n were written.
Filled(n, c, k) == \A j \in 1 .. k : node[n].cell[c][j] # Garbage

\* The bytes of channel c of node n are its own, and none is garbage up to the
\* channel's length.
ChannelInOrder(n, c) ==
  /\ \A k \in 1 .. BufLen :
       node[n].cell[c][k] \in {Garbage} \cup (Messages \X {node[n].value} \X {c})
  /\ Filled(n, c, node[n].length[c])

\* ... nor up to a length that was or will be the channel's.
LengthsInOrder(p) ==
  /\ pc[p] = "writing" => Filled(found[p], channel[p], i[p])
  /\ pc[p] = "reading" => Filled(found[p], channel[p], limit[p])

BytesInOrder ==
  /\ \A n \in 1 .. allocated : \A c \in Channels : ChannelInOrder(n, c)
  /\ \A p \in Procs : LengthsInOrder(p)

IInv ==
  /\ TypeOK /\ ListInOrder /\ CallsInOrder /\ BytesInOrder
  /\ ReadsOwnChannel

\* What the list and the files are while calls do not overlap: no node is lost ...
OneCall == \A p, q \in Procs : InCall(p) /\ InCall(q) => p = q

NoNodeLost ==
  /\ \A n \in 1 .. allocated : node[n].next = n - 1
  /\ \/ head = allocated /\ \A p \in Procs : pc[p] # "publish"
     \/ /\ head = allocated - 1
        /\ \E p \in Procs : pc[p] = "publish" /\ found[p] = allocated

\* ... every open file has one, and a call works on the first of its minor ...
SerialFile(p) ==
  /\ pc[p] # "oops"
  /\ pc[p] \in {"ready", "writeFound", "writing", "readFound", "reading", "releaseFound"}
       => GetMinorNode(minor[p]) # Null
  /\ InCall(p) /\ pc[p] # "publish" => found[p] = GetMinorNode(minor[p])
  /\ pc[p] = "publish" => /\ GetMinorNode(minor[p]) = Null /\ node[found[p]].open
                          /\ \A c \in Channels : node[found[p]].length[c] = 0

\* ... a write stores its message and nothing else, and a read takes what is there.
SerialBytes(p) ==
  /\ pc[p] = "writing" =>
       \A k \in 1 .. i[p] :
         node[found[p]].cell[channel[p]][k] = <<arg[p], minor[p], channel[p]>>
  /\ pc[p] = "reading" =>
       /\ limit[p] = LengthNow(p) /\ i[p] <= limit[p]
       /\ \A k \in 1 .. i[p] : got[p][k] = node[found[p]].cell[channel[p]][k]

\* Calls that do not overlap keep the list, the files and the bytes in order; in
\* particular each finds a node for its file (insertAtTheBeginingOfTheList,
\* getMinorNode and the loops of device_write and device_read).
SerialInv ==
  /\ IInv
  /\ Serial => OneCall /\ NoNodeLost /\ \A p \in Procs : SerialFile(p) /\ SerialBytes(p)
=============================================================================
