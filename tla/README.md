# Verification of MarachotEX1

The repository holds five operating-systems exercises in C. All of them are
concurrent systems: processes that stop and continue each other with signals
(ex1), processes that report through FIFOs (ex2), a kernel driver without a lock
and its two user programs (ex3), threads that XOR files together (ex4, in several
solutions and drafts), and a multi-threaded TCP server with its client (ex5). This
directory models all of them in TLA+, checks small instances with TLC, and proves
with TLAPS, for all instances, the main safety results about each of the five.

    tlc -workers 2 -config MCHw4.cfg MCHw4     # one run; PROJECT.json lists them all
    tlapm Hw4Proofs.tla                        # the proofs of one module

`PROJECT.json` lists components, runs, the lines of the source that each
definition models, the mutants (for every checked property a plausible bug of the
code that makes the run fail), the hazards and the theorems.

## 1. Inventory

### ex4: XOR of files by threads (`src/ex4`)

`hw4 output in1 in2 ...` starts one thread per input. Every thread reads its file
in chunks of 1 MiB, XORs each into one shared buffer, and the buffer is appended to
the output once all threads that still have data are done with the round.

| program | state shared by the threads | how they agree |
|---|---|---|
| `hw4.c` (`hw4WithPrints.c`, but for its first read) | buffer, its size, `stillRunning`, `finishedXoring`, `sizeOfFile`, the mutex, one condition variable | whoever completes the round writes it and broadcasts; the others `pthread_cond_wait` once, without a loop |
| `hw4Lian.c` | buffer, `bufferUsed`, `shouldRun`, `excluded`, the lock, one condition variable for each thread | strict turns; the last of the round writes |
| `hw4Guy.c` | `BUFFER`, `allSizes`, `hasFinished`, `hasXored`, the mutex, one condition variable | like `hw4.c`, with sizes and flags written outside the mutex |
| `hw4Old.c`, `hw4Old2.c` (`hw4Sorten.c`), `hw4WithoutPrints.c`, `tzur_tester_hw4/hw4.c` | as `hw4.c`, and in one of them `WaitForWriteToBeFinished` | drafts: nobody sleeps (the flag that asks for it is never set), whoever finds that all have XORed writes; one draft spins until the first write |

Hard: which round a chunk goes to under every interleaving; flags changed without
the mutex (lost wakeups); threads that come to the end of their file while others
wait; I/O that fails with the mutex held; spurious wakeups. Correct means: every
round written is the XOR of that round of all files that have it (`OutputExact`,
`ImplementsXorFile`), no chunk is lost or used twice (`EachBlockOnce`), the file
announced is complete (`CreatedComplete`), and the program ends.

### ex5: printable characters (`src/ex5`)

A server accepts connections; for each it starts a thread that reads a length N
and N bytes, adds its counts to `pcc_total` under a mutex and answers the number of
printable bytes. SIGINT sets a flag (and interrupts `accept`); main then joins all
threads and prints the totals. The client sends random bytes and prints the answer.
`ex5_old` and `ex5_new` have the same server but for an `exit(0)` at the end of
`handleConnection` in `ex5_new`.

Hard: partial reads; the descriptor handed to a thread by the address of a variable
of main; SIGINT at any moment; clients that die; errors of one thread that end the
process; sign extension of bytes. Correct means: exact answers, totals that miss no
answered client, clients that were accepted are served, and an end on SIGINT only.

### ex3: message slot (`src/ex3`)

A character device: for every minor a node in a linked list, with four channels of
80 bytes. `message_sender` and `message_reader` open a slot, choose a channel with
`ioctl`, write or read, and close. The driver takes no lock.

Hard: calls of several processes overlap at every access; the length of a message is
checked and used later; shorter messages replace longer ones; any close marks the
minor closed. Correct means: without overlap a register for each channel; with
overlap, reads return only what was written to their own channel.

### ex1: symbol counter with signals (`src/ex1`)

A manager forks a child for each symbol of a pattern and takes their pids from `ps`.
A child stops itself (SIGSTOP) after each instance it finds. The manager waits for
the children in turn, continues a stopped one, and terminates it (SIGTERM, SIGCONT)
when it stopped `terminationBound` times.

Hard: the manager's parallel arrays are compacted while children stop; a child that
is stopped depends on the manager coming round; pids may wrap; the last `fread` is
short. Correct means: counts are what the code's reads make them, each counter
belongs to its child, and all processes end.

### ex2: symbol counter with FIFOs (`src/ex2`)

A manager makes a FIFO for each symbol and forks a child that counts it and writes
one line into its FIFO; the manager opens one FIFO after the other and takes the
symbol from its list when it got a line. Opens block until the other end comes.

Hard: both sides block; failures half way; SIGPIPE; the FIFOs' names are shared by
all managers, so that a manager may read lines of another's children. Correct means: the
list is exactly what no line was read for, every line is that of the right child, and the
manager and its children end.

### Not modelled

- `message_slot_after_changing.c` and `message_slot_working_with2Channels.c`: drafts of
  the driver, with the calls of `message_slot.c`. In the first a new node is never
  linked; that is the mutant `HeadNotLinked` of `MessageSlot`.
- `sym_count_before.c` (ex1, ex2): `sym_count.c` as a program of its own, without a
  manager: one sequential loop with nothing to interleave.
- `ex5_new/pcc_client.c`: the sending is commented out and the file does not link.
- `hw4WithPrints.c` as far as it differs: a first read that finds nothing (128-131) leaves
  `stillRunning` up, so that with an empty input no round is ever complete. `Hw4` has that
  step only as a read that fails (`ReadFails`).
- The tester's script and the launch scripts: they compile, start and compare. What the
  tester expects is used as a statement of what `hw4` does.
- Build products and data.

Within the modelled parts: short writes, reads of pipes and terminals as inputs of ex4
(section 6), host name resolution and argument parsing.

## 2. Modules

| module | models | used by |
|---|---|---|
| `XorRounds` | the data of ex4: files cut into rounds, bytes abstracted to blocks | all of ex4 |
| `XorFile` | abstract specification: one exact round after the other, then the announcement | refined by `Hw4`, `Hw4Lian` |
| `Hw4` | `hw4.c`, its properties and inductive invariant | `MCHw4`, `Hw4Proofs` |
| `Hw4Drafts` | the four earlier barriers, with `Hw4`'s main | `MCHw4Drafts`, `Hw4Proofs` |
| `Hw4Lian`, `Hw4Guy` | the two other solutions | `MCHw4Lian`, `Hw4LianProofs`, `MCHw4Guy`, `Hw4GuyProofs` |
| `XorRoundsProofs` | what the proofs of ex4 share: blocks, sizes, sequences of rounds | `Hw4Proofs`, `Hw4LianProofs`, `Hw4GuyProofs` |
| `PccWords`, `PccSockets` | the protocol's bytes; TCP connections (external) | `PccServer`, `PccClient` |
| `PccServer`, `PccClient`, `Pcc` | the server's threads, the clients, and their composition | `MCPcc`, `PccProofs` |
| `MessageSlot`, `Slot` | the driver, access by access; abstract specification: a register per channel | `MCMessageSlot`, `SlotUsers`, `SlotProofs` |
| `SlotUsers` | the two programs composed with the driver | `MCSlotUsers`, `SlotProofs` |
| `SymCount`, `SymMng` | ex1's child; the manager composed with its children | `MCSymMng`, `SymMngProofs` |
| `SymFifo` | ex2: manager and children | `MCSymFifo`, `SymFifoProofs` |

### State and actions

*ex4.* A block `<<t, k>>` stands for the k-th chunk of file t. XOR being its own
inverse, the content of a buffer is the set of blocks in it an odd number of times:
XORing is a symmetric difference (`XorBlock`), and two contents are equal for all
bytes exactly if the sets are. `pc[t]` says between which two accesses to shared
state thread t is; in `Hw4` the read of a chunk (`ReadBlock`, `ReadEof`), taking the
mutex and XORing (`XorBlock`), the test of all flags with the wait or the write
(`WaitForOthers`, `WriteRound`), the return from the wait (`Reacquire`) and the unlock
are steps of their own, because `stillRunning` is written outside the mutex. `main`
(`CheckInputs` ... `ReportSize`) creates, joins and announces. In `Hw4Lian` all that a
thread does with the lock is one step (`Xor`, `XorAndWrite`, `WaitForTurn`): the one
thing others write meanwhile, `excluded`, only goes up. In `Hw4Guy` the write and the
clearing are two steps, since `allSizes` can be written in between; `SizesCleared`
models the `memset` that clears N bytes of N ints.

Three variables of `Hw4` never change: the input files, the faults that may happen, and
`nameMatches`, which file names occur in which. `findMyIndex` matches names with
`strstr` and takes the first hit (`FindMyIndex`), so that with nested names two threads
share an index. As variables they let one run cover all choices, and the theorems hold
for all of them. `Hw4Drafts` adds `version`, which of the drafts is running, and each
thread's own `fileEnded`; the actions of main, of opening and of reading are `Hw4`'s.
`fileSize` in `Hw4Lian` is what `stat` finds at the end.

*ex5.* `pcc_total` is the set of threads whose counts it has; loading and storing it
(`LockTotals`, `StoreTotals`) are separate steps. A read returns any non-empty part of
what arrived (`Readable`), a failed one takes a byte back as the code does. `fdCell` is
main's variable `connectionSocketfd` as the threads see it. `CharsToUnsignedInt` keeps
the sign extension of plain chars. A connection is reset when an end is closed with
unread bytes; a second write to it is SIGPIPE. Threads at end of file spin: they have no
step.

*ex3.* A call is cut at every access to the list, the open flag, the length and each
byte; `found`, `i`, `limit` are its locals. Nodes are numbered as they are allocated and
keep the `next` they get; `NodesFrom(h)` is the set of nodes a walk from h meets, `Hits` are
those of a minor, and `FirstFrom` is where the loop of `getMinorNode` stops. Without lock or barrier the loop of a read may
use the length it checked or read it again (`LimitMayBe`). A null dereference ends in
`"oops"`. `Unload` and `Load` are `rmmod` and `insmod`: without an owner in `Fops` the
module can go under open files; the next call on one of them crashes its process
(`OrphanCalls`), which another may replace (`Replaced`). The abstract `Slot` forgets its
registers (`Remove`). kmalloc may fail, which kills the process in its open
(`OpenInsertFails`).
`SlotUsers` adds two history variables, which no step reads: `sent`, the last
message written to each channel, and `disturbed`, which says that a call overlapped one
of the program's or its slot was closed under it.

*ex1.* A child's buffer is modelled byte by byte since the short last `fread` leaves bytes
of the one before, which `strchr` searches again. `news` is the status change that
`waitpid` has yet to report. The row of popen's shell in `ps` is `Shell`; `Row` gives the
order of pids, which may wrap. A fork that fails leaves a slot of `PIDs` at 0, and with it
`waitpid(0)` and `kill(0)` mean the whole process group (`Reportable`, `TerminateGroup`).

*ex2.* `fifo` says which FIFO has each name: none, the one made for a child, or one of
another manager (`OtherFifo`); `query` is the pattern as far as `patternSize`. `mfd` and `cfd`
are the FIFOs that the manager and each child have opened, which keep being open when the name is
gone; `held` are those that the manager read to the end and never closed. `FifoOpened` is the
rendezvous of the two opens, `ManagerThere` the open of a child that comes later. Other managers
run the same program: `OtherManager` removes all names, makes its own FIFOs under them, unlinks
one and takes a line; it and its children may come to any open (`OpenedByOther`, `OtherThere`),
write the line that is read (`ReadOtherLine`) and go away (`OtherGone`). The branch of the code
behind `readBytes = read(...) > 0` that would see a failed read is dead and is absent.

## 3. Runs

Two of the twelve runs are violations, of a promise that a comment or a test of the
repository makes. `IInv` (`DraftInv`, `SerialInv`, `UsersInv`) is the invariant of the proofs, types included,
so that what is proved has been checked first.

| run | instance | what it shows |
|---|---|---|
| `hw4` | 3 files of 0 to 2 chunks of 2 bytes, all inputs; names that nest and do not; every I/O call may fail, with and without spurious wakeups; fair | `OutputExact`, `CreatedComplete`, `ImplementsXorFile` unless something wakes spuriously; `EachBlockOnce` always; threads all sleep only over a complete round, and only when a shorter file than a sleeper's has ended (`AsleepOnlyInCompleteRound`); equally long files are announced (`EventuallyCreated`); `IInv` |
| `drafts` | 3 files of 4 kinds, the four drafts, both namings, three sets of faults, fair | `EachBlockOnce`; files below a chunk come out right in every draft (`SmallFilesExact`); `hw4Old.c` writes every block (`AllWritten`); every draft ends unless a write fails (`Ends`); `DraftInv` |
| `lian` | the inputs of `hw4`, all faults, fair (203,966 states) | `ImplementsXorFile` (for announcements: unless a thread failed or a block is left in the buffer); the program ends unless the turn is with a thread that ended (`EndsOrTurnLost`); `IInv` |
| `guy` | the same inputs, all faults but spurious wakeups, fair, bytes of 2 values | `EachBlockOnce`; files of whole chunks are XORed exactly and announced complete (`WholeExact`, `WholeComplete`) and, if equally long, always finished (`WholeEnds`); `IInv` |
| `pcc` | no thread slow to copy its descriptor; 2 clients with 1 and 4 bytes that may die at any time, SIGINT at any time, `ex5_old`, bytes of 4 values so that the answer 2 is negative, fair (383,336 states) | `AnswerExact`, `TotalsComplete`, `ExitsOnlyOnSIGINT`, `AcceptedServed`, `StopsUnlessInAccept`; `IInv` |
| `pcc_faults` | `ex5_new`; clients die, calls fail, threads start late | `AnswersCounted` |
| `slot_serial` | 2 processes, 2 minors, messages too short, fitting and cut; calls do not overlap; kmalloc fails, the module is unloaded and loaded (247,832 states) | `ImplementsRegister`; `SerialInv`: no node is lost, the bytes of a channel are those of its last message, no call dereferences null |
| `slot_users` | 2 processes running the programs on 2 minors, 2 channels and a wrong one; calls overlap at every access (2,172,265 states) | `ReadsOwnChannel`, `ReadsLastSent`, `UndisturbedSucceeds`; `UsersInv` |
| `sym` | pattern of 3 with one symbol twice, all files of up to 4 bytes, zeros included, buffers of 2, bound 3, pids wrap, fork, exec and `fopen` fail, fair (519,682 states) | `InstancesCounted`, `SlotsExact`; undisturbed, all end (`AllEnd`); `IInv` |
| `fifo` | 3 symbols, every fault, other managers among them, fair (1,230,512 states) | `ListExact`; undisturbed, the manager ends (`ManagerEnds`); `IInv`, of which a part is that the manager never opens the FIFO of an empty list |
| `hw4_lost_wakeup` | 2 files, no faults | *violated*: a thread clears its flag between another's test and wait, without a broadcast; all sleep for ever (the tester runs such files a hundred times and expects every run to end) |
| `pcc_length` | 1 client, 4 bytes, where 4 is negative as a char | *violated*: N is decoded with sign extension, the server waits for bytes that never come, the client for the answer ("read number of bytes N that client about to send") |

### Bounds

*ex4.* Three threads are the least with a writer, a waiter and one at the end of its
file; two chunks make a thread run ahead and be late; chunks of two bytes are full or
short; the drafts get one file of each kind (none, a part, a whole chunk, more). The
proofs lift these bounds for every safety property of ex4. *ex5.* Two
threads race for the totals, each with data of a length of its own;
values of a byte are cut from 256 to 4 (in `pcc`) or 8, with the same halves (negative or not,
printable or not), so that an answer of 2, or a length of 4, has the part of 128. `LengthAssumption` says that the length of the
data fits the `unsigned int` it is sent in, which `strtoul` into one leaves true. *ex3.* 80, 4 and 128 become 2, 1
and 4, so that messages are refused, stored, cut, and refused by the sender; two processes
are enough for overlap of any two calls. `MaxNodes` = 2 bounds the nodes allocated: one for
each minor; opens that would allocate a third are disabled, so two opens may race for
one minor only while the other has no node. This bound is the one thing that can stop
`slot_users`, and why deadlock is not checked there. Overlapping calls and unloading
are in different runs: a call that runs while its node is freed is undefined in ways that a
model of accesses does not show. *ex1.* Buffers of 2 and files of 4
have reads that are full, short and empty; three children make the list move in the
middle. *ex2.* Three symbols make every kind of move of the list: its head taken with
others behind it, with one, and alone. Deadlock is not checked where the programs end, or
sleep as section 5 says.

### Fairness

Weak fairness of each process and thread: the scheduler runs what can run. A mutex is
taken by somebody whenever it is free and wanted; where several want it no order is
assumed, and none of the liveness properties needs one since each waits a bounded number of
times. No fairness is given to SIGINT, SIGPIPE, the death of a client, a failing call
(beyond the fact that the call returns), `rmmod` or a spurious wakeup. The busy wait of
`hw4WithoutPrints.c` runs like any thread; it changes nothing until the first write.

## 4. Proofs

Every theorem holds for all values of the constants: any number of files, threads,
clients and symbols, any chunk and buffer size, any data.

| module | theorem | states | assumes |
|---|---|---|---|
| `Hw4Proofs` | `TypeCorrect` | types | nothing: any names, any faults |
| | `Invariance` | `[]IInv` | nothing |
| | `OutputAlwaysExact`, `CreatedIsComplete` | `[]OutputExact`, `[]CreatedComplete` | nothing; both speak of runs without spurious wakeups |
| | `SleepersRoundComplete` | `[]AsleepOnlyInCompleteRound` | nothing |
| | `BlocksConserved` | `[]EachBlockOnce` | nothing; spurious wakeups and nested names included |
| | `Implementation` | `ImplementsXorFile` | nothing; unless something wakes spuriously |
| | `DraftInvariance`, `DraftBlocksConserved` | `[]DraftInv`, `[]EachBlockOnce` of `Hw4Drafts` | nothing; all four drafts |
| | `SmallFilesAlwaysExact`, `OldWritesAll` | `[]SmallFilesExact`, `[]AllWritten` | nothing; the properties say for which versions and names |
| `Hw4LianProofs` | `Invariance` | `[]IInv` | nothing; all faults, spurious wakeups and late exclusions included |
| | `Implementation` | `ImplementsXorFile` | nothing |
| | `TurnsNeverStall` | `[]SomebodyRuns`: unless the turn is lost some thread can run | nothing |
| `Hw4GuyProofs` | `Invariance`, `BlocksConserved` | `[]IInv`, `[]EachBlockOnce` | nothing |
| | `WholeAlwaysExact`, `WholeAlwaysComplete` | `[]WholeExact`, `[]WholeComplete` | nothing; both speak of files of whole chunks |
| | `NoCircularWait` | `[]LeftBehindByShorter`: who is left waiting waits for a thread that has exited | nothing; that its file was shorter is said of whole chunks |
| `SlotProofs` | `Invariance`, `TypeCorrect` | `[]IInv`, `[]TypeOK` of `MessageSlot` | nothing: calls overlap at every access |
| | `ReadsAlwaysOwn` | `[]ReadsOwnChannel`, of the driver alone and of the programs on it | nothing |
| | `SerialInvariance`, `SerialCorrect`, `NoneOopses` | `[]SerialInv`, `[]NoOops` | `Serial`: calls do not overlap (`SerialCorrect` has that in the property) |
| | `Refines` | `ImplementsRegister` | `Serial` |
| | `UsersInvariance`, `UsersTypesCorrect` | `IInv` and types of the programs on the driver (`SlotUsers`) | nothing: calls overlap at every access |
| | `UsersInOrder`, `UndisturbedSucceed`, `ReadsTheLastSent` | `[]UsersInv`, `[]UndisturbedSucceeds`, `ReadsLastSent` | nothing; what was not disturbed is in the properties |
| `PccProofs` | `TypeCorrect`, `AnswersAlwaysCounted` | `[]TypeOK`, `[]AnswersCounted` | nothing: both servers, all faults |
| | `Invariance` | `[]IInv` | nothing; of `"slowStart"` it claims types only |
| | `AnswersAlwaysExact` | `[]AnswerExact` | `InTime`: a thread copies its descriptor before main accepts again; SIGINT, deaths, failing calls and both servers are free |
| | `TotalsAlwaysComplete`, `ExitsAlwaysOnSIGINT` | `[]TotalsComplete`, `[]ExitsOnlyOnSIGINT` | `Regular`: `InTime`, the `ex5_old` server, and calls do not fail; SIGINT and dying clients are free |
| | `NeverMutualWait` | `[]NoMutualWait`: no accepted client and its thread wait for each other | `InTime`; the property speaks of lengths without a negative byte |
| `SymMngProofs` | `Invariance`, `SlotsAlwaysExact`, `InstancesAlwaysCounted` | `[]IInv`, `[]SlotsExact`, `[]InstancesCounted` | `RoomForShell` (no 6, 10, 14... symbols, section 6); all faults, any bound, any bytes |
| | `NobodyLeftBehind` | `[]NobodyLeft`: undisturbed, and no child left when the manager is done | no faults but children that fail to start; `RoomForShell` |
| `SymFifoProofs` | `Invariance`, `TypeCorrect`, `ListAlwaysExact` | `[]IInv`, `[]TypeOK`, `[]ListExact` | nothing: all faults |
| | `AlwaysMeet` | `[]AllMeet`: undisturbed, and at every FIFO both sides come | no faults, no symbol twice |

`XorRoundsProofs` holds the facts of ex4's data that these share: the bounds of a block,
that sizes add up over rounds, and that a sequence of exact rounds up to the last one has
the size of the largest file (`CompleteSize`).

*`hw4.c`.* `OutputExact` is not inductive: that the next round will be exact depends on
what is in the buffer, and that on who has XORed. `IInv` adds `Lockstep` (a running thread
is at most one block ahead of the output, `finishedXoring` says exactly whether it is, and
between the wakeup and the next read it is not), `BufferExact` (the buffer is the blocks of
the threads ahead, `sizeOfChunk` their largest), `FileSizeExact`, `MainInOrder`,
`LockAfterRead` and `UnclaimedFlags`. The last is what makes assumptions about names
unnecessary: if names nest, an index that nobody claims stays unfinished for ever, no round
is ever complete and the output stays empty. A spurious wakeup does break `Lockstep`, since
the thread XORs its next block into an incomplete round; the properties that need `Lockstep`
have that condition in them. `AsleepOnlyInCompleteRound` needs `SomebodyWrites` too: when every thread has XORed its
block of a round that all files have, one of them is about to look at the flags, so that all
can sleep only if one has ended before. The steps that touch neither buffer nor output are handled
together; `XorBlock` and `WriteRound` have lemmas of their own. `StepImplements` maps
`WriteRound` to the abstract write, `ReportSize` to the abstract announcement and every
other step to a stutter. `EachBlockOnce` needs none of `Lockstep`: `XorPlaces` and
`WritePlaces` follow one block from the buffer to its round, and the drafts cite the same
lemmas.

*`hw4Lian.c`.* `IInv` says why the writer has a whole round: `TurnsInOrder` (the threads
before `shouldRun` have had their turn of the round, the others have not), `BufferExact`,
`OutputExact`, `EndOfFile` (who is excluded, or about to be, has read its whole file, and
only who is at the end reads beyond it), `MainInOrder`, and `OwnNext`: a thread takes the
lock without looking at `shouldRun` if `nextT` is itself, which is safe only because all
others are excluded then. `NextThreadGap` turns the scan of `nextThread` into "everybody
between is excluded". `TurnsInOrder` is void once all threads are at their end or the lock
is lost: that is exactly when a turn may go to a thread that has ended, after which
nothing that has blocks is written any more. Apart from the rounds (`RoundsInv`) `IInv` has
`NoSignalMissed`: while the thread whose turn it is sleeps, the thread that gave it the turn has
yet to signal it, or main has. It is inductive because a thread goes to sleep only
when it is not its turn, in the same critical section, and with `AllCreated` gives
`TurnsNeverStall`, the safety half of `EndsOrTurnLost`.

*`hw4Guy.c`.* `EachBlockOnce` needs only `PlacedInv`: each block is still to be XORed, in the
buffer, or in exactly one round, and one thread writes at a time (`OneWriter`). For files of
whole chunks `WholeInOrder` adds that every thread is in the round that is next or just
written, or has finished before it (`InItsRound`), and that the buffer has the blocks of those
that wait. That a round has the right size is then a matter of `allSizes`: a thread that is
about to XOR has put a whole chunk there, and what the `memset` leaves of the sizes of others
is at most a chunk. The latter is in the types, and needs that clearing low bytes takes away a
remainder (`SizesCleared`); `Values` names the powers one by one, since no backend has them.
`NotAllWaiting` says that a waiting thread has its flag up and some thread does not wait, as
the last to come finds all others done; so whoever is left behind is left by a thread that
exited without a broadcast (`NoCircularWait`), and of whole files the round it waits in shows
that its own file is the longer one.

*Drafts.* `OldInOrder` says of `hw4Old.c` that a thread's flag is down from the XOR of its last
chunk on, and that while the buffer has something there is a thread with its flag up or the
mutex in hand, who will write it. `SmallInOrder` says of files below a chunk what is in the
buffer until the first write (`FirstRound`: the chunks of those that have XORed, one of whom
is still to decide when all have) and that after it there is nothing left to XOR (`LaterRounds`).

*ex3, overlapping.* Nodes are only ever added at the head, with a `next` older than
themselves, so that a list is ordered and a walk never meets a cycle (`ListInOrder`).
`CallsInOrder` says what a call works on: a node of its own minor, the channel it chose, a byte
within its message. `BytesInOrder` says where the bytes of a cell come from: what kmalloc left
or a write to that channel of that minor, and the latter up to every length that the channel has,
or that a call under way will set or has taken as its limit. `ReadsOwnChannel` follows, and
is kept when the programs run on the driver, since each of their steps is a step of the driver
or leaves its variables alone.

*ex3, serial.* `SerialInv` adds that at most one call runs (`OneCall`), that the head is the
last node allocated unless an open is about to make it so (`NoNodeLost`), that every open file
of the loaded module has a node (`SerialFile`), and that a write has stored its own message up to where
it is and a read has what the cell has (`SerialBytes`). `Refines` maps the register of a
channel to the message its bytes are of, on the node the list gives for the minor. The last
step of a write is the abstract write, that of a read the abstract read, an `rmmod` the abstract
`Remove`, everything else a stutter. Overlapping calls refine nothing: section 5 has the ways.

*ex3, the programs.* Calls overlap here, so `SerialInv` does not hold, not even for one slot: a
slot may have two nodes, one of them lost, and a program that nothing disturbs must still
succeed on it. `UsersInv` rests on a fact that survives every overlap: once a minor is
`Settled`, that is it has a node and no open under way would hide it behind another, every
later walk finds that node (`SettledStays`; a walk finds in old nodes what it found,
`UsersWalks`). An open that nothing overlapped settles its minor (`SettledFresh`), and a
program stays undisturbed only while nobody else is in a call when it is (`OverlapsSeen`) and
nobody closes its slot before its transfer; so it finds the settled node, open
(`SlotInOrder`), and is not refused (`NotRefused`, which needs that the program's buffer of 128
bytes has room for the 80 of a channel, `BufferAssumption`). `SentInOrder` then says what the
last write that nothing disturbed left: its bytes are in the settled node (`Holds`), or somebody
is writing, and then that write will record itself, as disturbed or as the last.

*ex5.* `PccInv` relates the connections, what the clients have of their answers, the totals
and the threads; `AnswersCounted` is a counting argument (`Counts`): at least as many
threads are past their answer as clients have one. `Working` adds which thread owns
which client (`Owners`) and that each is served once (`Served`), which need `InTime`; under
`Regular` it adds what main has joined (`Joining`), which the totals and the end need.
`AnswerExact` needs both streams. `RequestsInOrder`: what a client has sent is what its thread
has read followed by what is still unread. `AnswersInOrder`: what a client has read followed
by what is on its way to it is nothing or the answer to its own data. The length a thread
decodes is at least the length sent (`CharsNotLess`, `ValueOfChars`), so a thread that has all
it waits for has all there is, whether or not a byte of the length was negative. The number a
client prints is its count if the count is `SignFree`, and never less (`CharsExact`). Without
`InTime` this is false and not only unproved: two threads may then read from one connection,
and each takes bytes that were meant for the other.
`NoMutualWait` is the safety half of `AcceptedServed`. A client that waits has sent everything,
so by `RequestsInOrder` its thread either has bytes to read or has as many as were sent; in the
second case it still waits only if it wants more (`DataLeft`), that is if the length it decoded
is larger, which needs a negative byte: `pcc_length` shows that case, and the theorem that
there is no other. The lock is held by who is about to store (`LockHeld`).

*ex1.* `ManagerInv` has what `SlotsExact` needs: a child is stopped exactly as long as its stop
is not reported (`ChildNews`), before the wait nothing is counted (`BeforeWait`), and `ps`
filled every slot if every fork succeeded (`AllFound`; `RowFound` counts the rows). Without
the last `waitpid(0)` could report a child of another slot.

`InstancesCounted` says what a child finds without following its reads: the bytes it looks at
are those of the file and then, once more, those that a short last read leaves of the buffer
before (`Searched`), and of each buffer those up to the first 0 (`Visible`). `Counted` ties the
child's state to that: its buffer is the part of `Searched` from `Begin` on (`BufferExact`),
and `occurance` is the number of visible instances up to `pointer`. The next hit of `strchr` is the
next visible instance (`HitVisible`), a read loses none because none was left (`NoneLeft`,
`ReadKeeps`), and at the end of the file all are passed (`AllPassed`). `BoundKept` brings the
manager in: a slot's counter is what the manager has seen of its child, so that it terminates
the child exactly at the bound, and a bound of 0 is never met, since a counter is tested after
it went up.

That nothing disturbs the manager unless a call fails is the premise of `AllEnd`. `ListComplete`
gives it: the children the manager has yet to bury are the ones in its list, and each of these is
a child with a row in `ps` (`RowsInOrder`), whatever `TakeOut` moves (`TakeOutLists`).

*ex2.* `IInv` adds to `ListExact` how far the manager is with its forks (`Forking`, `Unborn`)
and `LinesInOrder`: whoever takes which name away, a FIFO made for a child is only ever opened
under the symbol of that child, by either side, so that an own line that is read is of a child of
the symbol that the manager is at, and that child has ended. `ListMoved` and
`ListWithoutSymbol` are about the loop that takes a symbol from the list.
Without faults `Meeting` ties each child to the manager (`InTouch`): its FIFO has a name until
it has reported, and it counts, or its line is in the pipe, exactly while the manager reads
there. So every open and every read that may block has its other side (`AlwaysMeet`), the
premise of `ManagerEnds`.

Only model-checked: liveness (the prover has no backend for fairness and ENABLED); of most of it
the safety half is proved, that nobody is stuck where somebody should go on (`TurnsNeverStall`,
`NoCircularWait`, `NoMutualWait`, `NobodyLeft`, `AllMeet`, `AsleepOnlyInCompleteRound`). Every
invariant that a run checks is a theorem.

## 5. What the models show of the code

Two runs are violations (section 3). The other weaknesses met while modelling are kept in
the models as behaviour, and the properties are stated around them, each in its comment:

- `hw4.c`: names are matched with `strstr` (38), and if one occurs in an earlier one no round
  is ever complete and the program sleeps for ever; `pthread_cond_wait` is in no loop (136).
- The drafts and the tester's copy: a thread never waits for the others, so that files of
  different lengths are XORed out of step and blocks of a last round may stay in the buffer;
  only `hw4Old.c` always writes them. The last thread exits with the mutex held
  (`hw4Old.c:179`, `tzur_tester_hw4/hw4.c:157`; in `hw4Old2.c` and `hw4WithoutPrints.c` its
  own flag is still up then, so that it never comes there).
- `hw4WithPrints.c`: an empty input leaves its flag up (128-131) and no round is ever complete.
- `hw4Lian.c`: a thread is excluded after it gave the lock back (114). The turn may go to it
  when it has ended, and the program hangs, or the last round stays in the buffer and the file
  is announced incomplete.
- `hw4Guy.c`: `hasFinished` is set before the last, short block is XORed (116), so that a round
  may be written without it; an empty file is never marked finished; sizes that the `memset` of
  N bytes leaves (97) may make the round of a shorter chunk too long.
- `ex5`: SIGINT between the loop's test and `accept` waits for one more client (66); a thread
  that is slow to copy its descriptor may take the next connection (162, 177); a client that
  goes away may end the server (193, 283); in `ex5_new` so does the first thread that is done
  (225), which is the mutant `AfterCloseOther`; the client decodes the answer with the same sign
  extension as the server the length (`pcc_client3.c:248`), and prints a wrong number when a byte of
  it behind the first is 128 or more, which `AnswerExact` says as it is: exact without such a byte, never less with one.
- `message_slot.c`: overlapping opens lose a node, and a later call dereferences null (52, 163);
  any close of a minor closes it for all (104); a read may go beyond its buffer when a longer
  message comes between its check and its loop (131, 136); messages shorter than a pointer are
  refused (157), those longer than 80 cut (167); the module has no owner, so that it can be
  removed under open files (76).
- `ex1`: instances in the bytes a short read leaves are counted twice (`sym_count.c:59`), so that
  the number printed may be more than the file has: `InstancesCounted` says by which, and does
  not call it right; those behind a 0 in a buffer not at all (60-62); a termination bound of 0 terminates nobody; when
  pids wrap a child may miss the list (150); a child killed by a signal ends the manager and
  leaves the others stopped (86); a fork that fails is counted as a child (65), and the manager
  waits for, continues, and in the end terminates its whole process group, itself included.
- `ex2`: a child that gives up before it opens its FIFO leaves the manager in `open` (91); a
  symbol twice in the pattern makes `mkfifo` fail and strands the children forked (71), unless
  another manager removed the FIFO between, in which case two children share one. With another
  manager of some of the same symbols (71) this one may open the other's FIFOs and read the
  lines of its children; it takes these symbols from its list and ends with success while its own
  children wait for ever in the open of FIFOs that have lost their names.

## 6. Abstractions

Left out of every model: argument parsing, printing, allocation failure except where a
fault names it, and what is undefined but harmless in the build (the array of threads one
byte short, `message[i]` beyond its end). Two things are 0 only because they come from a fresh
heap: `pcc_total`, of which 95 bytes of 380 are cleared, and `PIDs` and `stopedCounter` of ex1.
The row of popen's shell is written behind `PIDs` (`ex1/sym_mng.c:153`): glibc's `malloc` leaves room
for it, except for 6, 10, 14... symbols, where it overwrites the size of the next chunk and the
`free` at the end (128) may abort; these patterns are excluded (`RoomForShell`). `write` is all or nothing and inputs of ex4 are regular files,
so that only the last read is short. `sizeOfFile`, an `int`, is not cut to 32 bits.
`findNextStep` and `nextThread` read the flags of all threads in one step: the flags that
change meanwhile only go one way, and the scan returns what it would at the last one it
reads. In ex2 counting is one step. In ex3 the module comes and goes between calls only.

## 7. Plan

Modelled, checked and proved as above: ex4 with all its versions, ex5, ex3, ex1, ex2. Left:

- Model: short writes and inputs that are pipes in ex4, where rounds no longer line up;
  the driver's drafts against `Slot`; unloading of the driver during calls.
