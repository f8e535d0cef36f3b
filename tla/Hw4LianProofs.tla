---------------------------- MODULE Hw4LianProofs -----------------------------
(***************************************************************************)
(* Proofs about Hw4Lian, for every number of files, chunk size, set of     *)
(* inputs and all faults: it implements XorFile, and no signal is missed.  *)
(***************************************************************************)
EXTENDS Hw4Lian, XorRoundsProofs

\* The thread that nextThread finds: nobody between t and it is left.
LEMMA NextThreadFound ==
  ASSUME NEW t \in Threads, ~ excluded[t]
  PROVE  /\ NextThread(t) \in Threads
         /\ ~ excluded[NextThread(t)]
         /\ \A u \in Threads :
              ~ excluded[u] => Distance(t, NextThread(t)) <= Distance(t, u)
<1> DEFINE in == {u \in Threads : ~ excluded[u]}
           S == {Distance(t, u) : u \in in}
<1>1. N \in Nat /\ \A u \in Threads : Distance(t, u) \in Nat
  BY NAssumption DEF Threads, Distance
<1>2. S \subseteq Nat /\ S # {}
  BY <1>1
<1>3. PICK m \in S : \A k \in S : m <= k
  <2> HIDE DEF S
  <2> QED BY <1>2, Least
<1>4. \E u \in Threads :
        /\ ~ excluded[u]
        /\ \A v \in Threads : ~ excluded[v] => Distance(t, u) <= Distance(t, v)
  BY <1>3
<1> QED BY <1>4 DEF NextThread

\* If it is behind t, everybody behind t and before it has ended; if it is not,
\* everybody behind t has, and everybody before it.
LEMMA NextThreadGap ==
  ASSUME NEW t \in Threads, ~ excluded[t]
  PROVE  LET n == NextThread(t)
         IN  /\ n > t => \A u \in Threads : t < u /\ u < n => excluded[u]
             /\ n <= t => \A u \in Threads : t < u \/ u < n => excluded[u]
             /\ n = t => \A u \in Threads \ {t} : excluded[u]
<1> DEFINE n == NextThread(t)
<1>1. /\ n \in Threads
      /\ \A u \in Threads : ~ excluded[u] => Distance(t, n) <= Distance(t, u)
  BY NextThreadFound
<1> HIDE DEF n
<1>2. N \in Nat /\ t \in 1 .. N /\ n \in 1 .. N
  BY <1>1, NAssumption DEF Threads
<1>3. ASSUME NEW u \in Threads, ~ excluded[u]
      PROVE  /\ n > t => ~ (t < u /\ u < n)
             /\ n <= t => ~ (t < u \/ u < n)
  <2>1. u \in 1 .. N /\ Distance(t, n) <= Distance(t, u)
    BY <1>1, <1>3 DEF Threads
  <2> QED BY <1>2, <2>1 DEF Distance
<1>4. ASSUME n = t, NEW u \in Threads \ {t} PROVE excluded[u]
  <2>1. t < u \/ u < n
    BY <1>2, <1>4 DEF Threads
  <2> QED BY <1>2, <1>3, <1>4, <2>1
<1> QED BY <1>3, <1>4 DEF n

\* Where each thread can be.
PcStates == {"unborn", "read", "lock", "waiting", "woken", "exclude", "signal",
             "exited", "failed"}

-----------------------------------------------------------------------------
(* The invariant.                                                          *)

LEMMA RoundsInvInit == Init => RoundsInv
<1> SUFFICES ASSUME Init PROVE RoundsInv
  OBVIOUS
<1> USE DEF Init
<1>1. /\ N \in Nat \ {0} /\ Threads = 1 .. N /\ 1 \in Threads
      /\ ChunkSize \in Nat \ {0} /\ input \in Inputs
  BY NAssumption, ChunkSizeAssumption, InputFilesAssumption DEF Threads
<1>2. \A t \in Threads : /\ input[t].blocks \in Nat
                         /\ pc[t] = "unborn" /\ reads[t] = 0 /\ ~ excluded[t]
                         /\ Taken(t) = 0 /\ ~ AtEnd(t)
  BY <1>1 DEF Inputs, Taken, AtEnd
<1>3. TypeOK
  <2>1. /\ reads \in [Threads -> Nat] /\ nextT \in [Threads -> Threads \cup {NoThread}]
        /\ excluded \in [Threads -> BOOLEAN]
        /\ pc \in [Threads -> {"unborn", "read", "lock", "waiting", "woken", "exclude",
                               "signal", "exited", "failed"}]
        /\ \A t \in Threads : reads[t] <= input[t].blocks + 1
    BY <1>2
  <2>2. chunk \in SUBSET (Threads \X (Nat \ {0})) /\ bufferUsed \in 0 .. ChunkSize
    BY <1>1
  <2>3. output \in Seq([data : SUBSET (Threads \X (Nat \ {0})), size : 1 .. ChunkSize])
    OBVIOUS
  <2>4. /\ input \in InputFiles /\ mainPc = "open" /\ mainI \in 0 .. N
        /\ shouldRun \in Threads /\ deadHolder \in BOOLEAN /\ fileSize \in Nat
    <3>1. mainI \in 0 .. N /\ fileSize \in Nat
      BY <1>1
    <3>2. shouldRun \in Threads
      BY <1>1
    <3> QED BY <3>1, <3>2
  <2> HIDE DEF Init
  <2> QED BY <2>1, <2>2, <2>3, <2>4 DEF TypeOK
<1>4. OwnNext
  BY <1>1 DEF OwnNext, NoThread
<1>5. Round = 1
  BY DEF Round
<1>6. TurnsInOrder
  BY <1>1, <1>2, <1>5 DEF TurnsInOrder
<1>7. BufferExact
  BY <1>2, <1>5 DEF BufferExact
<1>8. OutputExact
  BY DEF OutputExact, ExactRounds, RoundsSize
<1>9. MainInOrder
  BY <1>1, <1>2 DEF MainInOrder
<1>10. \A t \in Threads : EndOfFile(t)
  BY <1>2 DEF EndOfFile
<1> QED BY <1>3, <1>4, <1>6, <1>7, <1>8, <1>9, <1>10 DEF RoundsInv

\* A thread that did nothing but wake up.
LEMMA ThreadStays ==
  ASSUME RoundsInv, NEW u \in Threads, input' = input, deadHolder => deadHolder',
         reads'[u] = reads[u], excluded'[u] = excluded[u],
         pc'[u] = pc[u] \/ (pc[u] = "waiting" /\ pc'[u] = "woken")
  PROVE  Taken(u)' = Taken(u) /\ (AtEnd(u)' <=> AtEnd(u)) /\ EndOfFile(u)'
<1>1. EndOfFile(u)
  BY DEF RoundsInv
<1>2. Taken(u)' = Taken(u) /\ (AtEnd(u)' <=> AtEnd(u))
  BY DEF Taken, AtEnd
<1> QED BY <1>1, <1>2 DEF EndOfFile

\* A step in which nobody takes a turn.
LEMMA NoTurn ==
  ASSUME RoundsInv,
         UNCHANGED <<input, shouldRun, deadHolder, chunk, bufferUsed, output, fileSize>>,
         \A u \in Threads : Taken(u)' = Taken(u) /\ (AtEnd(u)' <=> AtEnd(u)),
         \A u \in Threads : excluded[u] => excluded'[u]
  PROVE  TurnsInOrder' /\ BufferExact' /\ OutputExact'
<1>1. Round' = Round
  BY DEF Round
<1>2. TurnsInOrder'
  BY <1>1 DEF RoundsInv, TurnsInOrder
<1>3. BufferExact'
  <2>1. {t \in Threads : Taken(t) = Round /\ Round <= input[t].blocks}'
          = {t \in Threads : Taken(t) = Round /\ Round <= input[t].blocks}
    BY <1>1
  <2>2. \A t : BlockSize(input', t, Round') = BlockSize(input, t, Round)
    BY <1>1
  <2> QED BY <1>1, <2>1, <2>2 DEF RoundsInv, BufferExact
<1>4. OutputExact'
  BY DEF RoundsInv, OutputExact
<1> QED BY <1>2, <1>3, <1>4

\* main creates, signals and joins threads; nobody takes a turn.
LEMMA MainKeeps ==
  ASSUME RoundsInv, Main
  PROVE  RoundsInv'
<1> USE DEF turnVars
<1>0. /\ N \in Nat \ {0} /\ Threads = 1 .. N /\ TypeOK /\ MainInOrder
      /\ \A t \in Threads : EndOfFile(t)
  BY NAssumption DEF Threads, RoundsInv
<1>1. ASSUME UNCHANGED <<input, reads, nextT, turnVars>>, TypeOK', MainInOrder',
             \A u \in Threads :
               \/ pc'[u] = pc[u]
               \/ pc[u] = "unborn" /\ pc'[u] = "read"
               \/ pc[u] = "waiting" /\ pc'[u] = "woken"
      PROVE  RoundsInv'
  <2>1. ASSUME NEW u \in Threads
        PROVE  Taken(u)' = Taken(u) /\ (AtEnd(u)' <=> AtEnd(u)) /\ EndOfFile(u)'
    <3>1. CASE pc[u] = "unborn" /\ pc'[u] = "read"
      <4>1. Taken(u)' = Taken(u) /\ (AtEnd(u)' <=> AtEnd(u))
        BY <1>1, <3>1 DEF Taken, AtEnd
      <4> QED BY <1>0, <1>1, <3>1, <4>1 DEF EndOfFile
    <3>2. CASE ~ (pc[u] = "unborn" /\ pc'[u] = "read")
      BY <1>1, <3>2, ThreadStays
    <3> QED BY <3>1, <3>2
  <2>2. TurnsInOrder' /\ BufferExact' /\ OutputExact'
    BY <1>1, <2>1, NoTurn
  <2>3. OwnNext'
    BY <1>1 DEF RoundsInv, OwnNext
  <2> QED BY <1>1, <2>1, <2>2, <2>3 DEF RoundsInv
<1>2. CASE OpenFiles \/ StartFails
  <2>1. TypeOK' /\ MainInOrder' /\ UNCHANGED <<input, pc, reads, nextT, turnVars>>
    BY <1>0, <1>2 DEF OpenFiles, StartFails, TypeOK, MainInOrder
  <2> QED BY <1>1, <2>1
<1>3. CASE CreateThread
  <2>1. mainI + 1 \in Threads /\ pc[mainI + 1] = "unborn" /\ mainI \in 0 .. N - 1
    BY <1>0, <1>3 DEF CreateThread, MainInOrder, TypeOK
  <2>2. \A u \in Threads : pc'[u] = IF u = mainI + 1 THEN "read" ELSE pc[u]
    BY <1>0, <1>3 DEF CreateThread, TypeOK
  <2>3. TypeOK'
    <3>1. mainI' \in 0 .. N /\ mainPc' \in {"create", "signal"}
      BY <1>0, <1>3, <2>1 DEF CreateThread
    <3> QED BY <1>0, <1>3, <3>1 DEF CreateThread, TypeOK
  <2>4. MainInOrder'
    <3>1. CASE mainI + 1 = N
      BY <1>3, <3>1 DEF CreateThread, MainInOrder
    <3>2. CASE mainI + 1 # N
      <4>1. mainPc' = "create" /\ mainI' = mainI + 1 /\ mainI' < N
        BY <1>0, <1>3, <2>1, <3>2 DEF CreateThread
      <4>2. \A t \in mainI' + 1 .. N : pc'[t] = "unborn"
        BY <1>0, <1>3, <2>1, <2>2, <4>1 DEF CreateThread, MainInOrder
      <4> QED BY <4>1, <4>2 DEF MainInOrder
    <3> QED BY <3>1, <3>2
  <2> QED BY <1>1, <1>3, <2>1, <2>2, <2>3, <2>4 DEF CreateThread
<1>4. CASE SignalFirst
  <2>1. /\ pc' \in [Threads -> {"unborn", "read", "lock", "waiting", "woken", "exclude",
                                "signal", "exited", "failed"}]
        /\ \A t \in Threads : \/ pc'[t] = pc[t]
                              \/ pc[t] = "waiting" /\ pc'[t] = "woken"
    BY <1>0, <1>4 DEF SignalFirst, TypeOK, Signalled
  <2>2. TypeOK'
    BY <1>0, <1>4, <2>1 DEF SignalFirst, TypeOK
  <2>3. MainInOrder'
    BY <1>0, <1>4, <2>1 DEF SignalFirst, MainInOrder
  <2> QED BY <1>1, <1>4, <2>1, <2>2, <2>3 DEF SignalFirst
<1>5. CASE JoinThread
  <2>1. mainI + 1 \in Threads /\ mainI \in 0 .. N - 1
    BY <1>0, <1>5 DEF JoinThread, MainInOrder, TypeOK
  <2>2. TypeOK'
    BY <1>0, <1>5, <2>1 DEF JoinThread, TypeOK
  <2>3. \A t \in 1 .. mainI + 1 : pc[t] \in {"exited", "failed"}
    BY <1>0, <1>5, <2>1 DEF JoinThread, MainInOrder
  <2>4. MainInOrder'
    BY <1>0, <1>5, <2>1, <2>3 DEF JoinThread, MainInOrder
  <2> QED BY <1>1, <1>5, <2>2, <2>4 DEF JoinThread
<1> QED BY <1>2, <1>3, <1>4, <1>5 DEF Main

\* A step of a thread does not disturb main's order.
LEMMA ThreadKeepsMainInOrder ==
  ASSUME RoundsInv, NEW t \in Threads, UNCHANGED mainVars,
         pc[t] \notin {"unborn", "exited", "failed"},
         \A u \in Threads \ {t} :
           pc'[u] = pc[u] \/ (pc[u] = "waiting" /\ pc'[u] = "woken")
  PROVE  MainInOrder'
<1>1. MainInOrder /\ mainI \in 0 .. N /\ N \in Nat /\ Threads = 1 .. N
  BY NAssumption DEF RoundsInv, TypeOK, Threads
<1>2. ASSUME NEW u \in Threads, pc[u] \in {"unborn", "exited", "failed"}
      PROVE  pc'[u] = pc[u]
  BY <1>2
<1>3. mainPc' = mainPc /\ mainI' = mainI
  BY DEF mainVars
<1>4. \A u \in mainI + 1 .. N : u \in Threads
  BY <1>1
<1>5. \A u \in 1 .. mainI : u \in Threads
  BY <1>1
<1> QED BY <1>1, <1>2, <1>3, <1>4, <1>5 DEF MainInOrder

QuietStep(t) ==
  \/ Read(t) \/ ReadFails(t) \/ WaitForTurn(t) \/ Exclude(t) \/ Signal(t)
  \/ SpuriousWakeup(t)

\* Where the threads are after a step of t that takes no turn.
LEMMA QuietPlaces ==
  ASSUME RoundsInv, NEW t \in Threads, QuietStep(t)
  PROVE  /\ pc' \in [Threads -> PcStates]
         /\ \A u \in Threads \ {t} :
              pc'[u] = pc[u] \/ (pc[u] = "waiting" /\ pc'[u] = "woken")
         /\ Read(t) => pc'[t] = "lock"
         /\ ReadFails(t) => pc'[t] = "failed"
         /\ WaitForTurn(t) => pc'[t] = "waiting"
         /\ Exclude(t) => pc'[t] = "signal"
         /\ Signal(t) => pc'[t] = IF excluded[t] THEN "exited" ELSE "read"
         /\ SpuriousWakeup(t) => pc'[t] = "woken"
<1>1. pc \in [Threads -> PcStates]
  BY DEF RoundsInv, TypeOK, PcStates
<1>2. \A x : /\ Signalled(pc, x) \in [Threads -> PcStates]
             /\ \A u \in Threads :
                  \/ Signalled(pc, x)[u] = pc[u]
                  \/ pc[u] = "waiting" /\ Signalled(pc, x)[u] = "woken"
  BY <1>1 DEF Signalled, PcStates
<1>3. CASE WaitForTurn(t)
  <2>1. PICK x : pc' = [Signalled(pc, x) EXCEPT ![t] = "waiting"]
    BY <1>3 DEF WaitForTurn
  <2>2. pc[t] \in {"lock", "woken"}
    BY <1>3 DEF WaitForTurn
  <2> QED BY <1>2, <2>1, <2>2
          DEF PcStates, Read, ReadFails, Exclude, Signal, SpuriousWakeup
<1>4. CASE Signal(t)
  <2>1. PICK x : pc' = [Signalled(pc, x) EXCEPT
                          ![t] = IF excluded[t] THEN "exited" ELSE "read"]
    BY <1>4 DEF Signal, SignalNext
  <2>2. pc[t] = "signal"
    BY <1>4 DEF Signal
  <2> QED BY <1>2, <2>1, <2>2
          DEF PcStates, Read, ReadFails, Exclude, WaitForTurn, SpuriousWakeup
<1>5. CASE Read(t) \/ ReadFails(t) \/ Exclude(t) \/ SpuriousWakeup(t)
  BY <1>1, <1>5
  DEF PcStates, Read, ReadFails, Exclude, SpuriousWakeup, WaitForTurn, Signal
<1> QED BY <1>3, <1>4, <1>5 DEF QuietStep

LEMMA QuietKeeps ==
  ASSUME RoundsInv, NEW t \in Threads, QuietStep(t)
  PROVE  RoundsInv'
<1> USE DEF turnVars, mainVars
<1>0. /\ TypeOK /\ EndOfFile(t) /\ input \in Inputs
      /\ input[t].blocks \in Nat /\ reads[t] \in Nat
  BY InputFilesAssumption DEF RoundsInv, TypeOK, Inputs
<1>1. /\ UNCHANGED <<mainVars, shouldRun, deadHolder, chunk, bufferUsed, output,
                     fileSize>>
      /\ pc[t] \notin {"unborn", "exited", "failed"}
      /\ ~ WaitForTurn(t) => nextT' = nextT
      /\ ~ Read(t) => reads' = reads
      /\ Read(t) => reads' = [reads EXCEPT ![t] = @ + 1]
      /\ ~ Exclude(t) => excluded' = excluded
      /\ Exclude(t) => excluded' = [excluded EXCEPT ![t] = TRUE]
      /\ WaitForTurn(t) => nextT' = [nextT EXCEPT ![t] = NextThread(t)]
  BY DEF QuietStep, Read, ReadFails, WaitForTurn, Exclude, Signal, SpuriousWakeup
<1>10. /\ reads' \in [Threads -> Nat] /\ excluded' \in [Threads -> BOOLEAN]
       /\ Read(t) => reads'[t] = reads[t] + 1
       /\ Exclude(t) => excluded'[t]
       /\ \A u \in Threads : excluded[u] => excluded'[u]
       /\ \A u \in Threads \ {t} : /\ reads'[u] = reads[u]
                                   /\ excluded'[u] = excluded[u]
                                   /\ nextT'[u] = nextT[u]
  <2>1. nextT \in [Threads -> Threads \cup {NoThread}] /\ reads \in [Threads -> Nat]
          /\ excluded \in [Threads -> BOOLEAN]
    BY <1>0 DEF TypeOK
  <2>2. reads' \in [Threads -> Nat] /\ (Read(t) => reads'[t] = reads[t] + 1)
          /\ \A u \in Threads \ {t} : reads'[u] = reads[u]
    BY <1>1, <2>1
  <2>3. excluded' \in [Threads -> BOOLEAN] /\ (Exclude(t) => excluded'[t])
          /\ \A u \in Threads \ {t} : excluded'[u] = excluded[u]
    <3>1. CASE Exclude(t) BY <1>1, <2>1, <3>1
    <3>2. CASE ~ Exclude(t) BY <1>1, <2>1, <3>2
    <3> QED BY <3>1, <3>2
  <2>4. \A u \in Threads \ {t} : nextT'[u] = nextT[u]
    <3>1. CASE WaitForTurn(t) BY <1>1, <2>1, <3>1
    <3>2. CASE ~ WaitForTurn(t) BY <1>1, <3>2
    <3> QED BY <3>1, <3>2
  <2>5. excluded[t] => excluded'[t]
    BY <1>1, <2>3
  <2> QED BY <2>2, <2>3, <2>4, <2>5
<1>2. EndOfFile(t)' /\ Taken(t)' = Taken(t) /\ (AtEnd(t)' <=> AtEnd(t))
  <2>1. CASE Read(t)
    BY <1>0, <1>1, <1>10, <2>1, QuietPlaces DEF Read, Exclude, EndOfFile, Taken, AtEnd
  <2>2. CASE ReadFails(t)
    BY <1>0, <1>1, <1>10, <2>2, QuietPlaces DEF ReadFails, Read, Exclude, EndOfFile, Taken, AtEnd
  <2>3. CASE WaitForTurn(t)
    BY <1>0, <1>1, <1>10, <2>3, QuietPlaces
    DEF WaitForTurn, Read, Exclude, EndOfFile, Taken, AtEnd
  <2>4. CASE Exclude(t)
    BY <1>0, <1>1, <1>10, <2>4, QuietPlaces DEF Exclude, Read, EndOfFile, Taken, AtEnd
  <2>5. CASE Signal(t)
    BY <1>0, <1>1, <1>10, <2>5, QuietPlaces DEF Signal, Read, Exclude, EndOfFile, Taken, AtEnd
  <2>6. CASE SpuriousWakeup(t)
    BY <1>0, <1>1, <1>10, <2>6, QuietPlaces
    DEF SpuriousWakeup, Read, Exclude, EndOfFile, Taken, AtEnd
  <2> QED BY <2>1, <2>2, <2>3, <2>4, <2>5, <2>6 DEF QuietStep
<1>3. \A u \in Threads :
        EndOfFile(u)' /\ Taken(u)' = Taken(u) /\ (AtEnd(u)' <=> AtEnd(u))
  <2>1. ASSUME NEW u \in Threads \ {t}
        PROVE  EndOfFile(u)' /\ Taken(u)' = Taken(u) /\ (AtEnd(u)' <=> AtEnd(u))
    BY <1>1, <1>10, QuietPlaces, ThreadStays
  <2> QED BY <1>2, <2>1
<1>4. TurnsInOrder' /\ BufferExact' /\ OutputExact'
  BY <1>1, <1>10, <1>3, NoTurn
<1>5. MainInOrder'
  BY <1>1, QuietPlaces, ThreadKeepsMainInOrder
<1>6. TypeOK'
  <2>1. nextT' \in [Threads -> Threads \cup {NoThread}]
    <3>1. CASE WaitForTurn(t)
      <4>1. ~ excluded[t]
        BY <1>0, <3>1 DEF WaitForTurn, EndOfFile
      <4>2. NextThread(t) \in Threads
        BY <4>1, NextThreadFound
      <4> QED BY <1>0, <3>1, <4>2 DEF WaitForTurn, TypeOK
    <3> QED BY <1>0, <1>1, <3>1 DEF TypeOK
  <2>2. \A u \in Threads : reads'[u] <= input[u].blocks + 1
    <3>1. Read(t) => reads[t] <= input[t].blocks
      BY <1>0 DEF Read, EndOfFile, Taken, AtEnd
    <3>2. CASE Read(t)
      <4>1. reads'[t] <= input[t].blocks + 1
        BY <1>0, <1>10, <3>1, <3>2
      <4> QED BY <1>0, <1>10, <4>1 DEF TypeOK
    <3>3. CASE ~ Read(t)
      BY <1>0, <1>1, <3>3 DEF TypeOK
    <3> QED BY <3>2, <3>3
  <2>3. pc' \in [Threads -> PcStates]
    BY QuietPlaces
  <2> QED BY <1>0, <1>1, <1>10, <2>1, <2>2, <2>3 DEF TypeOK, PcStates
<1>7. OwnNext'
  <2> SUFFICES ASSUME NEW u \in Threads, nextT'[u] = u,
                      pc'[u] \in {"unborn", "exclude", "signal", "read", "lock"}
               PROVE  shouldRun' = u /\ \A v \in Threads \ {u} : excluded'[v]
    BY DEF OwnNext
  <2>1. /\ nextT[u] = u
        /\ pc[u] \in {"unborn", "exclude", "signal", "read", "lock"}
    <3>1. CASE u # t
      BY <1>10, <3>1, QuietPlaces
    <3>2. CASE u = t
      BY <1>1, <3>2, QuietPlaces
      DEF QuietStep, Read, ReadFails, WaitForTurn, Exclude, Signal, SpuriousWakeup
    <3> QED BY <3>1, <3>2
  <2>2. shouldRun = u /\ \A v \in Threads \ {u} : excluded[v]
    BY <2>1 DEF RoundsInv, OwnNext
  <2> QED BY <1>1, <1>10, <2>2
<1> QED BY <1>3, <1>4, <1>5, <1>6, <1>7 DEF RoundsInv

-----------------------------------------------------------------------------
(* The turns.                                                              *)

\* Whose turn it is has taken one turn less than this round takes; the others
\* that are left have had theirs if they are before it.
LEMMA TurnFacts ==
  ASSUME RoundsInv, NEW t \in Threads, MyTurn(t)
  PROVE  /\ shouldRun = t /\ ~ deadHolder
         /\ pc[t] \in {"lock", "woken"} /\ ~ excluded[t] /\ ~ AtEnd(t)
         /\ Round \in Nat \ {0} /\ reads[t] = Round /\ Taken(t) = Round - 1
         /\ \A u \in Threads :
              ~ excluded[u] => Taken(u) = IF u < t THEN Round ELSE Round - 1
<1>1. ~ deadHolder /\ pc[t] \in {"lock", "woken"} /\ TypeOK
  BY DEF MyTurn, RoundsInv
<1>2. ~ excluded[t] /\ ~ AtEnd(t)
  BY <1>1 DEF RoundsInv, EndOfFile, AtEnd
<1>3. shouldRun = t
  BY DEF MyTurn, RoundsInv, OwnNext
<1>4. \A u \in Threads :
        ~ excluded[u] => Taken(u) = IF u < t THEN Round ELSE Round - 1
  BY <1>1, <1>2, <1>3 DEF RoundsInv, TurnsInOrder
<1>5. Round \in Nat \ {0} /\ reads[t] \in Nat /\ t \in Nat
  BY <1>1 DEF TypeOK, Round, Threads
<1>6. Taken(t) = Round - 1
  BY <1>2, <1>4, <1>5
<1>7. reads[t] = Round
  BY <1>1, <1>5, <1>6 DEF Taken
<1> QED BY <1>1, <1>2, <1>3, <1>4, <1>5, <1>6, <1>7

\* Those whose block is in the buffer once t has had its turn.
In(t) == {u \in Threads : (u = t \/ Taken(u) = Round) /\ Round <= input[u].blocks}

\* The buffer with t's block in it.
LEMMA BufferWith ==
  ASSUME RoundsInv, NEW t \in Threads, MyTurn(t)
  PROVE  /\ chunk \cup BlockRead(t) = {<<u, Round>> : u \in In(t)}
         /\ BufferUsedWith(t) \in 0 .. ChunkSize
         /\ \A u \in In(t) : BlockSize(input, u, Round) <= BufferUsedWith(t)
         /\ \/ BufferUsedWith(t) = 0
            \/ \E u \in In(t) : BufferUsedWith(t) = BlockSize(input, u, Round)
<1> DEFINE in == {u \in Threads : Taken(u) = Round /\ Round <= input[u].blocks}
<1>1. /\ Round \in Nat \ {0} /\ reads[t] = Round /\ input \in Inputs
      /\ bufferUsed \in 0 .. ChunkSize /\ ChunkSize \in Nat
      /\ Taken(t) # Round
  BY TurnFacts, InputFilesAssumption, ChunkSizeAssumption DEF RoundsInv, TypeOK
<1>2. /\ chunk = {<<u, Round>> : u \in in}
      /\ \A u \in in : BlockSize(input, u, Round) <= bufferUsed
      /\ bufferUsed = 0 \/ \E u \in in : bufferUsed = BlockSize(input, u, Round)
  BY DEF RoundsInv, BufferExact
<1>3. \A u \in Threads : BlockSize(input, u, Round) \in 1 .. ChunkSize
  BY <1>1, BlockSizeBounds
<1>4. CASE Round <= input[t].blocks
  <2>1. In(t) = in \cup {t}
    BY <1>4 DEF In
  <2>2. BlockRead(t) = {<<t, Round>>} /\ BytesRead(t) = BlockSize(input, t, Round)
    BY <1>1, <1>4 DEF BlockRead, BytesRead
  <2>3. chunk \cup BlockRead(t) = {<<u, Round>> : u \in in \cup {t}}
    <3> HIDE DEF in
    <3> QED BY <1>2, <2>2
  <2>4. /\ BufferUsedWith(t) \in 0 .. ChunkSize
        /\ bufferUsed <= BufferUsedWith(t)
        /\ BlockSize(input, t, Round) <= BufferUsedWith(t)
        /\ BufferUsedWith(t) \in {bufferUsed, BlockSize(input, t, Round)}
    BY <1>1, <1>3, <2>2 DEF BufferUsedWith
  <2>5. \A u \in in : BlockSize(input, u, Round) <= BufferUsedWith(t)
    BY <1>1, <1>2, <1>3, <2>4
  <2> QED BY <1>2, <2>1, <2>3, <2>4, <2>5
<1>5. CASE ~ (Round <= input[t].blocks)
  <2>1. In(t) = in
    BY <1>5 DEF In
  <2>2. BlockRead(t) = {} /\ BytesRead(t) = 0
    BY <1>1, <1>5 DEF BlockRead, BytesRead
  <2>3. BufferUsedWith(t) = bufferUsed
    BY <1>1, <2>2 DEF BufferUsedWith
  <2> QED BY <1>1, <1>2, <2>1, <2>2, <2>3
<1> QED BY <1>4, <1>5

\* If nobody is left behind t, every file that has this round is in the buffer.
LEMMA WholeRound ==
  ASSUME RoundsInv, NEW t \in Threads, MyTurn(t), NextThread(t) <= t
  PROVE  In(t) = Holders(input, Round)
<1>1. ASSUME NEW u \in Threads, Round <= input[u].blocks, u # t
      PROVE  Taken(u) = Round
  <2>1. /\ TypeOK /\ EndOfFile(u) /\ Taken(u) <= Round
        /\ input[u].blocks \in Nat /\ Taken(u) \in Int /\ Round \in Nat
    <3>1. TypeOK /\ EndOfFile(u) /\ Taken(u) <= Round
      BY DEF RoundsInv, BufferExact
    <3>2. input[u].blocks \in Nat
      BY <3>1, InputFilesAssumption DEF TypeOK, Inputs
    <3>3. reads[u] \in Nat
      BY <3>1 DEF TypeOK
    <3> QED BY <3>1, <3>2, <3>3, TurnFacts DEF Taken
  <2>2. CASE excluded[u]
    BY <1>1, <2>1, <2>2 DEF EndOfFile, AtEnd, Taken
  <2>3. CASE ~ excluded[u]
    <3>1. ~ (t < u)
      BY <2>3, TurnFacts, NextThreadGap
    <3>2. u < t
      BY <1>1, <3>1 DEF Threads
    <3> QED BY <2>3, <3>2, TurnFacts
  <2> QED BY <2>2, <2>3
<1> QED BY <1>1 DEF In, Holders

TurnStep(t) == Xor(t) \/ XorAndWrite(t) \/ WriteFails(t)

\* What the turn of t does to the threads, and what every turn keeps.
LEMMA TurnThreads ==
  ASSUME RoundsInv, NEW t \in Threads, TurnStep(t)
  PROVE  /\ MyTurn(t) /\ UNCHANGED <<mainVars, reads, excluded>>
         /\ pc' \in [Threads -> PcStates]
         /\ nextT' \in [Threads -> Threads \cup {NoThread}] /\ shouldRun' \in Threads
         /\ Taken(t)' = Round
         /\ \A u \in Threads \ {t} : Taken(u)' = Taken(u) /\ (AtEnd(u)' <=> AtEnd(u))
         /\ BytesRead(t) < ChunkSize /\ ~ WriteFails(t) => AtEnd(t)'
         /\ \A u \in Threads : EndOfFile(u)'
         /\ OwnNext' /\ MainInOrder'
<1> DEFINE n == NextThread(t)
<1> USE DEF mainVars, turnVars
<1>1. /\ MyTurn(t) /\ UNCHANGED <<mainVars, reads, excluded>>
      /\ nextT' = [nextT EXCEPT ![t] = n]
      /\ ~ WriteFails(t) => shouldRun' = n /\ deadHolder' = deadHolder
      /\ WriteFails(t) => shouldRun' = shouldRun /\ deadHolder'
  BY DEF TurnStep, Xor, XorAndWrite, WriteFails, TakeTurn
<1>2. pc' = [pc EXCEPT ![t] = IF WriteFails(t) THEN "failed"
                             ELSE IF BytesRead(t) < ChunkSize THEN "exclude"
                             ELSE "signal"]
  <2>1. CASE WriteFails(t)
    BY <2>1 DEF WriteFails
  <2>2. CASE ~ WriteFails(t)
    BY <2>2 DEF TurnStep, Xor, XorAndWrite, TakeTurn
  <2> QED BY <2>1, <2>2
<1>3. /\ TypeOK /\ n \in Threads /\ input \in Inputs
      /\ ~ excluded[t] /\ pc[t] \in {"lock", "woken"} /\ shouldRun = t
      /\ ~ deadHolder /\ reads[t] = Round /\ Round \in Nat \ {0}
  BY <1>1, TurnFacts, NextThreadFound, InputFilesAssumption DEF RoundsInv, TypeOK
<1>4. /\ pc' \in [Threads -> PcStates]
      /\ WriteFails(t) => pc'[t] = "failed"
      /\ ~ WriteFails(t) =>
           pc'[t] = IF BytesRead(t) < ChunkSize THEN "exclude" ELSE "signal"
      /\ \A u \in Threads \ {t} : pc'[u] = pc[u]
  BY <1>2, <1>3 DEF TypeOK, PcStates
<1>5. nextT' \in [Threads -> Threads \cup {NoThread}] /\ shouldRun' \in Threads
        /\ nextT'[t] = n /\ \A u \in Threads \ {t} : nextT'[u] = nextT[u]
  BY <1>1, <1>3 DEF TypeOK
<1>6. Taken(t)' = Round
  BY <1>1, <1>3, <1>4 DEF Taken
<1>7. \A u \in Threads \ {t} :
        Taken(u)' = Taken(u) /\ (AtEnd(u)' <=> AtEnd(u)) /\ EndOfFile(u)'
  <2>1. \A u \in Threads \ {t} : Taken(u)' = Taken(u) /\ (AtEnd(u)' <=> AtEnd(u))
    BY <1>1, <1>4 DEF Taken, AtEnd
  <2> QED BY <1>1, <1>3, <1>4, <2>1 DEF RoundsInv, EndOfFile
<1>8. BytesRead(t) < ChunkSize /\ ~ WriteFails(t) => AtEnd(t)'
  BY <1>4 DEF AtEnd
<1>9. EndOfFile(t)'
  <2>1. /\ input[t].blocks \in Nat /\ ChunkSize \in Nat \ {0}
        /\ Round > input[t].blocks => BytesRead(t) = 0
        /\ BytesRead(t) < ChunkSize => input[t].blocks <= Round
    BY <1>3, ChunkSizeAssumption DEF BytesRead, BlockSize, Inputs
  <2>2. CASE WriteFails(t)
    BY <1>1, <1>3, <1>4, <2>2 DEF EndOfFile, AtEnd
  <2>3. CASE ~ WriteFails(t) /\ BytesRead(t) < ChunkSize
    BY <1>1, <1>3, <1>4, <2>1, <2>3 DEF EndOfFile, AtEnd
  <2>4. CASE ~ WriteFails(t) /\ ~ (BytesRead(t) < ChunkSize)
    BY <1>1, <1>3, <1>4, <1>6, <2>1, <2>4 DEF EndOfFile, AtEnd
  <2> QED BY <2>2, <2>3, <2>4
<1>10. OwnNext'
  <2> SUFFICES ASSUME NEW u \in Threads, nextT'[u] = u,
                      pc'[u] \in {"unborn", "exclude", "signal", "read", "lock"}
               PROVE  shouldRun' = u /\ \A v \in Threads \ {u} : excluded'[v]
    BY DEF OwnNext
  <2>1. CASE u = t
    <3>1. ~ WriteFails(t) /\ n = t
      BY <1>4, <1>5, <2>1
    <3> QED BY <1>1, <1>3, <2>1, <3>1, NextThreadGap
  <2>2. CASE u # t
    <3>1. \A v \in Threads \ {u} : excluded[v]
      BY <1>4, <1>5, <2>2 DEF RoundsInv, OwnNext
    <3> QED BY <1>3, <2>2, <3>1
  <2> QED BY <2>1, <2>2
<1>11. MainInOrder'
  BY <1>1, <1>3, <1>4, ThreadKeepsMainInOrder
<1> QED BY <1>1, <1>4, <1>5, <1>6, <1>7, <1>8, <1>9, <1>10, <1>11

\* A turn that leaves the round open, or is the thread's last.
LEMMA XorKeeps ==
  ASSUME RoundsInv, NEW t \in Threads, Xor(t) \/ WriteFails(t)
  PROVE  RoundsInv'
<1>1. /\ TurnStep(t) /\ MyTurn(t)
      /\ chunk' = chunk \cup BlockRead(t) /\ bufferUsed' = BufferUsedWith(t)
      /\ UNCHANGED <<input, output, fileSize>>
  BY DEF TurnStep, Xor, WriteFails, TakeTurn, mainVars
<1>2. Round' = Round /\ Round \in Nat
  BY <1>1, TurnFacts DEF Round
<1>3. BufferExact'
  <2>1. \A u \in Threads : Taken(u)' <= Round'
    BY <1>1, <1>2, TurnThreads DEF RoundsInv, BufferExact
  <2>2. {u \in Threads : Taken(u)' = Round' /\ Round' <= input'[u].blocks} = In(t)
    BY <1>1, <1>2, TurnThreads DEF In
  <2>3. \A u : BlockSize(input', u, Round') = BlockSize(input, u, Round)
    BY <1>1, <1>2
  <2> QED BY <1>1, <1>2, <2>1, <2>2, <2>3, BufferWith DEF BufferExact
<1>4. OutputExact'
  BY <1>1 DEF RoundsInv, OutputExact
<1>5. TurnsInOrder'
  <2>1. CASE WriteFails(t)
    BY <2>1 DEF WriteFails, TurnsInOrder
  <2>2. CASE Xor(t)
    <3> DEFINE n == NextThread(t)
    <3>1. /\ shouldRun' = n /\ n > t /\ n \in Threads /\ excluded' = excluded
          /\ t \in Nat /\ n \in Nat
      BY <1>1, <2>2, TurnFacts, NextThreadFound DEF Xor, TakeTurn, Threads
    <3>2. ASSUME NEW u \in Threads, ~ excluded[u]
          PROVE  Taken(u)' = IF u < n THEN Round ELSE Round - 1
      <4> HIDE DEF n
      <4>1. CASE u = t
        BY <1>1, <3>1, <4>1, TurnThreads
      <4>2. CASE u # t
        <5>1. ~ (t < u /\ u < n)
          BY <1>1, <3>1, <3>2, TurnFacts, NextThreadGap DEF n
        <5>2. Taken(u)' = Taken(u) /\ Taken(u) = IF u < t THEN Round ELSE Round - 1
          BY <1>1, <3>2, <4>2, TurnFacts, TurnThreads
        <5>3. u \in Nat /\ (u < t <=> u < n)
          BY <3>1, <4>2, <5>1 DEF Threads
        <5> QED BY <5>2, <5>3
      <4> QED BY <4>1, <4>2
    <3> QED BY <1>2, <3>1, <3>2 DEF TurnsInOrder
  <2> QED BY <2>1, <2>2
<1>6. TypeOK'
  <2>1. chunk' \in SUBSET (Threads \X (Nat \ {0})) /\ bufferUsed' \in 0 .. ChunkSize
    BY <1>1, TurnFacts, BufferWith DEF In
  <2>2. deadHolder' \in BOOLEAN /\ mainPc' = mainPc /\ mainI' = mainI
    BY DEF Xor, WriteFails, mainVars, RoundsInv, TypeOK
  <2> QED BY <1>1, <2>1, <2>2, TurnThreads DEF RoundsInv, TypeOK, PcStates
<1> QED BY <1>1, <1>3, <1>4, <1>5, <1>6, TurnThreads DEF RoundsInv

\* The round that the last thread writes.
Written(t) == [data |-> chunk \cup BlockRead(t), size |-> BufferUsedWith(t)]

\* It is a round of XorFile, unless it is empty.
LEMMA WrittenExact ==
  ASSUME RoundsInv, NEW t \in Threads, MyTurn(t), NextThread(t) <= t
  PROVE  /\ BufferUsedWith(t) \in 0 .. ChunkSize
         /\ Written(t).data = RoundData(input, Round)
         /\ BufferUsedWith(t) = 0 => Holders(input, Round) = {}
         /\ BufferUsedWith(t) # 0 => /\ ExactRound(input, Round, Written(t))
                                     /\ Holders(input, Round) # {}
<1>1. /\ In(t) = Holders(input, Round)
      /\ chunk \cup BlockRead(t) = {<<u, Round>> : u \in In(t)}
      /\ BufferUsedWith(t) \in 0 .. ChunkSize
      /\ \A u \in In(t) : BlockSize(input, u, Round) <= BufferUsedWith(t)
      /\ \/ BufferUsedWith(t) = 0
         \/ \E u \in In(t) : BufferUsedWith(t) = BlockSize(input, u, Round)
  BY WholeRound, BufferWith
<1>2. Written(t).data = RoundData(input, Round) /\ Written(t).size = BufferUsedWith(t)
  BY <1>1 DEF Written, RoundData
<1>3. \A u \in Threads : BlockSize(input, u, Round) \in 1 .. ChunkSize
  BY TurnFacts, BlockSizeBounds, InputFilesAssumption DEF RoundsInv, TypeOK
<1>4. BufferUsedWith(t) = 0 => Holders(input, Round) = {}
  BY <1>1, <1>3, ChunkSizeAssumption DEF Holders
<1>5. ASSUME BufferUsedWith(t) # 0
      PROVE  ExactRound(input, Round, Written(t)) /\ Holders(input, Round) # {}
  BY <1>1, <1>2, <1>5 DEF ExactRound, IsRoundSize
<1> QED BY <1>1, <1>2, <1>4, <1>5

\* If it is empty, everybody has had its last turn.
LEMMA AllAtEnd ==
  ASSUME RoundsInv, NEW t \in Threads, XorAndWrite(t), BufferUsedWith(t) = 0
  PROVE  \A u \in Threads : AtEnd(u)'
<1>1. MyTurn(t) /\ NextThread(t) <= t /\ TurnStep(t)
  BY DEF XorAndWrite, TakeTurn, TurnStep
<1>2. Holders(input, Round) = {}
  BY <1>1, WrittenExact
<1>3. /\ Round \in Nat \ {0} /\ reads[t] = Round /\ ~ deadHolder
      /\ \A u \in Threads : input[u].blocks \in Nat /\ input[u].blocks < Round
  <2>1. Round \in Nat \ {0} /\ reads[t] = Round /\ ~ deadHolder
    BY <1>1, TurnFacts
  <2>2. \A u \in Threads : input[u].blocks \in Nat
    BY InputFilesAssumption DEF RoundsInv, TypeOK, Inputs
  <2> QED BY <1>2, <2>1, <2>2 DEF Holders
<1>4. AtEnd(t)'
  <2>1. BytesRead(t) = 0 /\ ~ WriteFails(t)
    <3>1. BytesRead(t) = 0
      BY <1>3 DEF BytesRead
    <3>2. pc'[t] # "failed"
      BY DEF XorAndWrite, TakeTurn, RoundsInv, TypeOK
    <3> QED BY <3>1, <3>2, <1>1, TurnThreads DEF WriteFails, RoundsInv, TypeOK
  <2> QED BY <1>1, <2>1, TurnThreads, ChunkSizeAssumption
<1>5. ASSUME NEW u \in Threads \ {t} PROVE AtEnd(u)'
  <2>1. CASE excluded[u]
    BY <1>1, <2>1, TurnThreads DEF AtEnd
  <2>2. CASE ~ excluded[u]
    <3>1. u < t
      <4>1. ~ (t < u)
        BY <1>1, <2>2, TurnFacts, NextThreadGap
      <4> QED BY <4>1 DEF Threads
    <3>2. Taken(u) = Round
      BY <1>1, <2>2, <3>1, TurnFacts
    <3>3. AtEnd(u)
      BY <1>3, <3>2 DEF RoundsInv, EndOfFile
    <3> QED BY <1>1, <3>3, TurnThreads
  <2> QED BY <2>1, <2>2
<1> QED BY <1>4, <1>5

LEMMA XorAndWriteKeeps ==
  ASSUME RoundsInv, NEW t \in Threads, XorAndWrite(t)
  PROVE  RoundsInv'
<1> DEFINE n == NextThread(t)
           size == BufferUsedWith(t)
           rounds == [data : SUBSET (Threads \X (Nat \ {0})), size : 1 .. ChunkSize]
<1>1. /\ TurnStep(t) /\ MyTurn(t) /\ n <= t
      /\ output' = IF size = 0 THEN output ELSE Append(output, Written(t))
      /\ fileSize' = fileSize + size
      /\ chunk' = {} /\ bufferUsed' = 0 /\ shouldRun' = n
      /\ UNCHANGED <<input, mainPc, mainI, deadHolder, excluded>>
  BY DEF TurnStep, XorAndWrite, TakeTurn, EmptyBuffer, Written, mainVars
<1>2. /\ Round \in Nat \ {0} /\ output \in Seq(rounds) /\ input \in Inputs
      /\ fileSize \in Nat /\ ChunkSize \in Nat \ {0} /\ N \in Nat \ {0}
  BY <1>1, TurnFacts, InputFilesAssumption, ChunkSizeAssumption, NAssumption
  DEF RoundsInv, TypeOK
<1>3. size \in 0 .. ChunkSize /\ (size # 0 => Written(t) \in rounds)
  <2>1. size \in 0 .. ChunkSize /\ chunk \cup BlockRead(t) = {<<u, Round>> : u \in In(t)}
    BY <1>1, BufferWith
  <2>2. chunk \cup BlockRead(t) \in SUBSET (Threads \X (Nat \ {0}))
    BY <1>2, <2>1 DEF In
  <2> QED BY <1>2, <2>1, <2>2 DEF Written
<1>4. Round' = IF size = 0 THEN Round ELSE Round + 1
  BY <1>1, <1>2 DEF Round
<1>5. \A u \in Threads : Taken(u)' \in Int /\ Taken(u)' <= Round
  <2>1. \A u \in Threads : Taken(u) \in Int /\ Taken(u) <= Round
    BY DEF RoundsInv, TypeOK, BufferExact, Taken
  <2> QED BY <1>1, <1>2, <2>1, TurnThreads
<1>6. BufferExact'
  <2>1. \A u \in Threads : Taken(u)' <= Round'
    BY <1>2, <1>4, <1>5
  <2>2. {u \in Threads : Taken(u)' = Round' /\ Round' <= input'[u].blocks} = {}
    <3>1. CASE size = 0
      <4>1. \A u \in Threads : ~ (Round <= input[u].blocks)
        BY <1>1, <3>1, WrittenExact DEF Holders
      <4> QED BY <1>1, <1>4, <3>1, <4>1
    <3>2. CASE size # 0
      BY <1>2, <1>4, <1>5, <3>2
    <3> QED BY <3>1, <3>2
  <2> HIDE DEF size
  <2> QED BY <1>1, <2>1, <2>2 DEF BufferExact
<1>7. OutputExact'
  <2>1. CASE size = 0
    <3>1. output' = output /\ fileSize' = fileSize
      BY <1>1, <1>2, <2>1
    <3> QED BY <1>1, <3>1 DEF RoundsInv, OutputExact
  <2>2. CASE size # 0
    <3> DEFINE wide == [data : SUBSET (Threads \X (Nat \ {0})), size : 0 .. ChunkSize]
    <3>1. output \in Seq(wide) /\ Written(t) \in wide
      <4>1. rounds \subseteq wide
        BY <1>2
      <4> HIDE DEF rounds, wide, size
      <4> QED BY <1>2, <1>3, <2>2, <4>1
    <3>2. ExactRounds(input, output) /\ fileSize = RoundsSize(output)
      BY DEF RoundsInv, OutputExact
    <3>3. ExactRound(input, Len(output) + 1, Written(t)) /\ Written(t).size = size
      BY <1>1, <2>2, WrittenExact DEF Round, Written
    <3>4. /\ ExactRounds(input, output')
          /\ RoundsSize(output') = RoundsSize(output) + size
      <4> HIDE DEF wide, size
      <4>1. output' = Append(output, Written(t))
        BY <1>1, <2>2
      <4> QED BY <1>2, <3>1, <3>2, <3>3, <4>1, RoundAppended DEF wide
    <3>5. ExactRounds(input, output)'
      BY <1>1, <3>4
      DEF ExactRounds, ExactRound, RoundData, IsRoundSize, Holders, BlockSize
    <3>6. RoundsSize(output)' = RoundsSize(output')
      BY DEF RoundsSize
    <3> HIDE DEF size
    <3> QED BY <1>1, <3>2, <3>4, <3>5, <3>6 DEF OutputExact
  <2> QED BY <2>1, <2>2
<1>8. TurnsInOrder'
  <2>1. CASE size = 0
    <3>1. \A u \in Threads : AtEnd(u)'
      BY <2>1, AllAtEnd
    <3> QED BY <3>1 DEF TurnsInOrder
  <2>2. CASE size # 0
    <3>1. ASSUME NEW u \in Threads, ~ excluded[u]
          PROVE  Taken(u)' = Round /\ ~ (u < n)
      <4>1. ~ (t < u) /\ ~ (u < n)
        BY <1>1, <3>1, TurnFacts, NextThreadGap
      <4>2. CASE u = t
        BY <1>1, <4>1, <4>2, TurnThreads
      <4>3. CASE u # t
        <5>1. u < t
          BY <4>1, <4>3 DEF Threads
        <5>2. Taken(u) = Round
          BY <1>1, <3>1, <5>1, TurnFacts
        <5> QED BY <1>1, <4>1, <4>3, <5>2, TurnThreads
      <4> QED BY <4>2, <4>3
    <3>2. Round' - 1 = Round
      BY <1>2, <1>4, <2>2
    <3> HIDE DEF n, size
    <3> QED BY <1>1, <3>1, <3>2 DEF TurnsInOrder
  <2> QED BY <2>1, <2>2
<1>9. TypeOK'
  <2>1. output' \in Seq(rounds) /\ fileSize' \in Nat
    <3> HIDE DEF size, rounds
    <3>1. fileSize' \in Nat
      BY <1>1, <1>2, <1>3
    <3>2. output' \in Seq(rounds)
      <4>1. CASE size = 0 BY <1>1, <1>2, <4>1
      <4>2. CASE size # 0 BY <1>1, <1>2, <1>3, <4>2
      <4> QED BY <4>1, <4>2
    <3> QED BY <3>1, <3>2
  <2>2. chunk' \in SUBSET (Threads \X (Nat \ {0})) /\ bufferUsed' \in 0 .. ChunkSize
    BY <1>1, <1>2
  <2>3. TypeOK /\ reads' = reads
    BY <1>1, TurnThreads DEF RoundsInv
  <2> HIDE DEF size, n
  <2> QED BY <1>1, <2>1, <2>2, <2>3, TurnThreads DEF TypeOK, PcStates
<1> QED BY <1>1, <1>6, <1>7, <1>8, <1>9, TurnThreads DEF RoundsInv

LEMMA RoundsInvNext == RoundsInv /\ [Next]_vars => RoundsInv'
<1> SUFFICES ASSUME RoundsInv, [Next]_vars PROVE RoundsInv'
  OBVIOUS
<1>1. CASE Main
  BY <1>1, MainKeeps
<1>2. ASSUME NEW t \in Threads, Thread(t) \/ SpuriousWakeup(t) PROVE RoundsInv'
  BY <1>2, QuietKeeps, XorKeeps, XorAndWriteKeeps DEF Thread, QuietStep
<1>3. CASE UNCHANGED vars
  <2> USE <1>3 DEF vars
  <2>1. \A t : /\ Taken(t)' = Taken(t) /\ (AtEnd(t)' <=> AtEnd(t))
               /\ (EndOfFile(t)' <=> EndOfFile(t))
    BY DEF Taken, AtEnd, EndOfFile
  <2>2. TurnsInOrder' /\ BufferExact' /\ OutputExact'
    BY <2>1, NoTurn
  <2>3. TypeOK' /\ OwnNext' /\ MainInOrder'
    BY DEF RoundsInv, TypeOK, OwnNext, MainInOrder
  <2> QED BY <2>1, <2>2, <2>3 DEF RoundsInv
<1> QED BY <1>1, <1>2, <1>3 DEF Next

-----------------------------------------------------------------------------
(* The signals.                                                            *)

\* After a step of a thread, sleepers have been woken at most and threads that
\* pass the turn on still do, all but the one that made the step.
LEMMA ThreadPlaces ==
  ASSUME RoundsInv, NEW t \in Threads, Thread(t) \/ SpuriousWakeup(t)
  PROVE  /\ \A u \in Threads \ {t} :
              /\ pc'[u] = pc[u] \/ (pc[u] = "waiting" /\ pc'[u] = "woken")
              /\ nextT'[u] = nextT[u]
         /\ pc[t] # "unborn" /\ pc'[t] # "unborn"
         /\ UNCHANGED mainVars
<1> USE DEF turnVars, mainVars
<1>1. /\ nextT \in [Threads -> Threads \cup {NoThread}]
      /\ pc \in [Threads -> PcStates]
  BY DEF RoundsInv, TypeOK, PcStates
<1>2. CASE QuietStep(t)
  <2>1. \A u \in Threads \ {t} : nextT'[u] = nextT[u]
    BY <1>1, <1>2
    DEF QuietStep, Read, ReadFails, WaitForTurn, Exclude, Signal, SpuriousWakeup
  <2>2. pc[t] # "unborn" /\ UNCHANGED mainVars
    BY <1>2
    DEF QuietStep, Read, ReadFails, WaitForTurn, Exclude, Signal, SpuriousWakeup
  <2>3. pc'[t] # "unborn"
    BY <1>2, QuietPlaces DEF QuietStep
  <2> QED BY <1>2, <2>1, <2>2, <2>3, QuietPlaces
<1>3. CASE Xor(t) \/ XorAndWrite(t) \/ WriteFails(t)
  BY <1>1, <1>3 DEF Xor, XorAndWrite, WriteFails, TakeTurn, MyTurn
<1> QED BY <1>2, <1>3 DEF Thread, QuietStep

LEMMA AllCreatedNext == RoundsInv /\ AllCreated /\ [Next]_vars => AllCreated'
<1> SUFFICES ASSUME RoundsInv, AllCreated, [Next]_vars PROVE AllCreated'
  OBVIOUS
<1>0. /\ N \in Nat \ {0} /\ Threads = 1 .. N /\ mainI \in 0 .. N
      /\ pc \in [Threads -> PcStates]
  BY NAssumption DEF Threads, RoundsInv, TypeOK, PcStates
<1>1. CASE CreateThread
  <2>1. ASSUME NEW t \in Threads, pc'[t] = "unborn"
        PROVE  mainPc' \in {"open", "create", "failed"} /\ t > mainI'
    <3>1. t # mainI + 1 /\ pc[t] = "unborn"
      BY <1>0, <1>1, <2>1 DEF CreateThread
    <3>2. t > mainI + 1 /\ mainI + 1 # N
      BY <1>0, <3>1 DEF AllCreated
    <3> QED BY <1>1, <3>2 DEF CreateThread
  <2> QED BY <2>1 DEF AllCreated
<1>2. CASE OpenFiles \/ StartFails
  BY <1>2 DEF OpenFiles, StartFails, AllCreated
<1>3. CASE SignalFirst \/ JoinThread
  <2>1. \A t \in Threads : pc'[t] = "unborn" => pc[t] = "unborn"
    BY <1>0, <1>3 DEF SignalFirst, JoinThread, Signalled
  <2> QED BY <1>3, <2>1 DEF SignalFirst, JoinThread, AllCreated
<1>4. ASSUME NEW t \in Threads, Thread(t) \/ SpuriousWakeup(t) PROVE AllCreated'
  <2>1. \A u \in Threads : pc'[u] = "unborn" => pc[u] = "unborn"
    BY <1>4, ThreadPlaces
  <2>2. mainPc' = mainPc /\ mainI' = mainI
    BY <1>4, ThreadPlaces DEF mainVars
  <2> QED BY <2>1, <2>2 DEF AllCreated
<1>5. CASE UNCHANGED vars
  BY <1>5 DEF vars, AllCreated
<1> QED BY <1>1, <1>2, <1>3, <1>4, <1>5 DEF Next, Main

\* A step that neither gives the turn nor puts its holder to sleep, and in which
\* nobody who passes the turn on does anything.
LEMMA SignalStays ==
  ASSUME NoSignalMissed, shouldRun' = shouldRun, deadHolder' = deadHolder,
         pc'[shouldRun] = "waiting" => pc[shouldRun] = "waiting",
         \A u \in Threads : pc[u] \in {"exclude", "signal"} =>
           pc'[u] \in {"exclude", "signal"} /\ nextT'[u] = nextT[u],
         mainPc \in {"open", "create", "signal", "failed"} =>
           \/ mainPc' \in {"open", "create", "signal", "failed"}
           \/ shouldRun = 1 => pc'[1] # "waiting"
  PROVE  NoSignalMissed'
<1> SUFFICES ASSUME ~ deadHolder, pc[shouldRun] = "waiting", pc'[shouldRun] = "waiting"
             PROVE  \/ \E t \in Threads : /\ pc'[t] \in {"exclude", "signal"}
                                          /\ nextT'[t] = shouldRun
                    \/ /\ mainPc' \in {"open", "create", "signal", "failed"}
                       /\ shouldRun = 1
  BY DEF NoSignalMissed
<1>1. CASE \E t \in Threads : pc[t] \in {"exclude", "signal"} /\ nextT[t] = shouldRun
  BY <1>1
<1>2. CASE mainPc \in {"open", "create", "signal", "failed"} /\ shouldRun = 1
  BY <1>2
<1> QED BY <1>1, <1>2 DEF NoSignalMissed

\* The signal for the thread whose turn it is comes after it was given the turn,
\* and only a thread whose turn it is not goes to sleep.
LEMMA NoSignalMissedNext ==
  RoundsInv /\ NoSignalMissed /\ [Next]_vars => NoSignalMissed'
<1> SUFFICES ASSUME RoundsInv, NoSignalMissed, [Next]_vars PROVE NoSignalMissed'
  OBVIOUS
<1> USE DEF turnVars, mainVars
<1>0. /\ N \in Nat \ {0} /\ Threads = 1 .. N /\ 1 \in Threads /\ shouldRun \in Threads
      /\ mainI \in 0 .. N /\ pc \in [Threads -> PcStates]
      /\ nextT \in [Threads -> Threads \cup {NoThread}]
  BY NAssumption DEF Threads, RoundsInv, TypeOK, PcStates
<1>1. CASE OpenFiles \/ StartFails \/ JoinThread
  BY <1>1, SignalStays DEF OpenFiles, StartFails, JoinThread
<1>2. CASE CreateThread
  <2>1. mainPc' \in {"create", "signal"} /\ UNCHANGED <<nextT, turnVars>>
    BY <1>2 DEF CreateThread
  <2>2. mainI + 1 \in Threads /\ pc[mainI + 1] = "unborn"
    BY <1>0, <1>2 DEF CreateThread, RoundsInv, MainInOrder
  <2>3. \A u \in Threads : pc'[u] = IF u = mainI + 1 THEN "read" ELSE pc[u]
    BY <1>0, <1>2 DEF CreateThread
  <2> QED BY <1>0, <2>1, <2>2, <2>3, SignalStays
<1>3. CASE SignalFirst
  <2>1. \A u \in Threads : pc'[u] = IF u = 1 /\ pc[u] = "waiting" THEN "woken" ELSE pc[u]
    BY <1>0, <1>3 DEF SignalFirst, Signalled
  <2>2. UNCHANGED <<nextT, turnVars>>
    BY <1>3 DEF SignalFirst
  <2> QED BY <1>0, <2>1, <2>2, SignalStays
<1>4. ASSUME NEW t \in Threads, Thread(t) \/ SpuriousWakeup(t) PROVE NoSignalMissed'
  <2>0. /\ \A u \in Threads \ {t} :
             /\ pc'[u] = pc[u] \/ (pc[u] = "waiting" /\ pc'[u] = "woken")
             /\ nextT'[u] = nextT[u]
        /\ mainPc' = mainPc
    BY <1>4, ThreadPlaces
  <2>1. CASE WaitForTurn(t)
    <3>1. /\ pc[t] \in {"lock", "woken"} /\ ~ MyTurn(t) /\ ~ deadHolder
          /\ UNCHANGED <<shouldRun, deadHolder>>
      BY <2>1 DEF WaitForTurn
    <3>2. shouldRun # t
      BY <3>1 DEF MyTurn
    <3> QED BY <1>0, <2>0, <3>1, <3>2, SignalStays
  <2>2. CASE Read(t) \/ ReadFails(t) \/ Exclude(t) \/ SpuriousWakeup(t)
    <3>1. UNCHANGED <<shouldRun, deadHolder, nextT>>
      BY <2>2 DEF Read, ReadFails, Exclude, SpuriousWakeup
    <3>2. /\ pc'[t] # "waiting"
          /\ pc[t] \in {"exclude", "signal"} => pc'[t] = "signal"
      BY <1>0, <2>2 DEF Read, ReadFails, Exclude, SpuriousWakeup
    <3> QED BY <1>0, <2>0, <3>1, <3>2, SignalStays
  <2>3. CASE Signal(t)
    <3>1. /\ UNCHANGED <<shouldRun, deadHolder, nextT>> /\ pc[t] = "signal"
      BY <2>3 DEF Signal
    <3>2. pc'[t] \in {"exited", "read"}
      <4>1. QuietStep(t)
        BY <2>3 DEF QuietStep
      <4>2. pc'[t] = IF excluded[t] THEN "exited" ELSE "read"
        BY <2>3, <4>1, QuietPlaces
      <4> QED BY <4>2
    <3>3. nextT[t] = shouldRun => pc'[shouldRun] # "waiting"
      BY <1>0, <2>3 DEF Signal, SignalNext, Signalled
    <3>4. ASSUME ~ deadHolder, pc'[shouldRun] = "waiting"
          PROVE  \/ \E u \in Threads : /\ pc'[u] \in {"exclude", "signal"}
                                       /\ nextT'[u] = shouldRun
                 \/ /\ mainPc' \in {"open", "create", "signal", "failed"}
                    /\ shouldRun = 1
      <4>1. pc[shouldRun] = "waiting" /\ nextT[t] # shouldRun
        BY <1>0, <2>0, <3>1, <3>2, <3>3, <3>4
      <4> QED BY <2>0, <3>1, <3>4, <4>1 DEF NoSignalMissed
    <3> QED BY <3>1, <3>4 DEF NoSignalMissed
  <2>4. CASE Xor(t) \/ XorAndWrite(t)
    <3>1. TakeTurn(t)
      BY <2>4 DEF Xor, XorAndWrite
    <3>2. shouldRun' = NextThread(t) /\ nextT'[t] = NextThread(t)
            /\ pc'[t] \in {"exclude", "signal"}
      BY <1>0, <3>1 DEF TakeTurn
    <3> QED BY <3>2 DEF NoSignalMissed
  <2>5. CASE WriteFails(t)
    BY <2>5 DEF WriteFails, NoSignalMissed
  <2> QED BY <1>4, <2>1, <2>2, <2>3, <2>4, <2>5 DEF Thread
<1>5. CASE UNCHANGED vars
  BY <1>5 DEF vars, NoSignalMissed
<1> QED BY <1>1, <1>2, <1>3, <1>4, <1>5 DEF Next, Main

-----------------------------------------------------------------------------
(* Both together.                                                          *)

LEMMA IInvInit == Init => IInv
<1> SUFFICES ASSUME Init PROVE IInv
  OBVIOUS
<1>1. RoundsInv
  BY RoundsInvInit
<1>2. N \in Nat \ {0} /\ Threads = 1 .. N
  BY NAssumption DEF Threads
<1>3. NoSignalMissed /\ AllCreated
  BY <1>2 DEF Init, NoSignalMissed, AllCreated
<1> QED BY <1>1, <1>3 DEF IInv

LEMMA IInvNext == IInv /\ [Next]_vars => IInv'
BY RoundsInvNext, NoSignalMissedNext, AllCreatedNext DEF IInv

\* hw4Lian.c's threads take turns, with any number of files and whatever fails,
\* wakes spuriously or ends late, and no signal is missed: the invariant that the
\* other theorems rest on.
THEOREM Invariance == Spec => []IInv
BY IInvInit, IInvNext, PTL DEF Spec

\* The thread whose turn it is can go on, or the one that is to wake it can.
LEMMA TurnRuns == IInv => SomebodyRuns
<1> SUFFICES ASSUME IInv, mainPc = "join", ~ TurnLost
             PROVE  \E t \in Threads : pc[t] \in {"read", "exclude", "signal"} \/ MyTurn(t)
  BY DEF SomebodyRuns
<1>1. /\ shouldRun \in Threads /\ pc \in [Threads -> PcStates] /\ ~ deadHolder
      /\ pc[shouldRun] \notin {"exited", "failed"}
  BY DEF IInv, RoundsInv, TypeOK, PcStates, TurnLost
<1>2. pc[shouldRun] # "unborn"
  BY <1>1 DEF IInv, AllCreated
<1>3. CASE pc[shouldRun] \in {"lock", "woken"}
  BY <1>1, <1>3 DEF MyTurn
<1>4. CASE pc[shouldRun] = "waiting"
  BY <1>1, <1>4 DEF IInv, NoSignalMissed
<1>5. CASE pc[shouldRun] \in {"read", "exclude", "signal"}
  BY <1>1, <1>5
<1> QED BY <1>1, <1>2, <1>3, <1>4, <1>5 DEF PcStates

\* hw4Lian.c's threads never wait for each other while main waits for them, unless
\* the turn went to a thread that has ended or the lock with another: no signal is
\* sent before its thread sleeps and missed, whatever fails or wakes spuriously.
THEOREM TurnsNeverStall == Spec => []SomebodyRuns
BY Invariance, TurnRuns, PTL

-----------------------------------------------------------------------------
(* The refinement.                                                         *)

announced == IF mainPc = "done" /\ NothingLeft THEN fileSize ELSE -1

\* The data of the instance is the data of this module.
LEMMA SameData ==
  /\ \A in, k : Xored!IsLastRound(in, k) <=> IsLastRound(in, k)
  /\ \A in, k : Xored!RoundData(in, k) = RoundData(in, k)
  /\ \A in, k, rd : Xored!ExactRound(in, k, rd) <=> ExactRound(in, k, rd)
  /\ \A in, size : Xored!IsOutputSize(in, size) <=> IsOutputSize(in, size)
  /\ Xored!Inputs = Inputs
BY DEF IsLastRound, RoundData, ExactRound, IsRoundSize, IsOutputSize, FileSize,
       Holders, BlockSize, Inputs, Threads,
       Xored!IsLastRound, Xored!RoundData, Xored!ExactRound, Xored!IsRoundSize,
       Xored!IsOutputSize, Xored!FileSize, Xored!Holders, Xored!BlockSize,
       Xored!Inputs, Xored!Threads

\* When all threads have exited and nothing is left in the buffer, the output is
\* complete: a block that is not in it would be in the buffer.
LEMMA CompleteAtEnd ==
  ASSUME RoundsInv, NothingLeft, \A t \in Threads : pc[t] \in {"exited", "failed"}
  PROVE  IsLastRound(input, Len(output)) /\ IsOutputSize(input, fileSize)
<1>1. /\ TypeOK /\ BufferExact /\ input \in Inputs /\ ChunkSize \in Nat \ {0}
      /\ Len(output) \in Nat
  BY InputFilesAssumption, ChunkSizeAssumption DEF RoundsInv, TypeOK
<1>2. ASSUME NEW t \in Threads PROVE input[t].blocks <= Len(output)
  <2>1. input[t].blocks <= reads[t] /\ Taken(t) = reads[t] /\ Taken(t) <= Round
    BY <1>1 DEF NothingLeft, RoundsInv, EndOfFile, AtEnd, Taken, BufferExact
  <2>2. ~ (Taken(t) = Round /\ Round <= input[t].blocks)
    BY <1>1 DEF NothingLeft, BufferExact
  <2>3. input[t].blocks \in Nat /\ reads[t] \in Nat /\ Round = Len(output) + 1
    BY <1>1 DEF Inputs, TypeOK, Round
  <2> QED BY <1>1, <2>1, <2>2, <2>3
<1>3. IsLastRound(input, Len(output))
  BY <1>2 DEF IsLastRound
<1>4. output \in Seq([data : SUBSET (Threads \X (Nat \ {0})), size : 0 .. ChunkSize])
  <2> DEFINE rounds == [data : SUBSET (Threads \X (Nat \ {0})), size : 1 .. ChunkSize]
             wide == [data : SUBSET (Threads \X (Nat \ {0})), size : 0 .. ChunkSize]
  <2>1. rounds \subseteq wide /\ output \in Seq(rounds)
    BY <1>1 DEF TypeOK
  <2> HIDE DEF rounds, wide
  <2>2. output \in Seq(wide)
    BY <2>1
  <2> QED BY <2>2 DEF wide
<1> QED BY <1>1, <1>3, <1>4, CompleteSize DEF RoundsInv, OutputExact

\* Every round that is written is a round of the abstract program; main's last
\* join is its announcement, if nothing went wrong; every other step is
\* invisible there.
LEMMA StepImplements ==
  ASSUME RoundsInv, [Next]_vars
  PROVE  [Xored!Next]_(Xored!vars)
<1> USE DEF mainVars, turnVars
<1>1. ASSUME UNCHANGED <<input, output, announced>>
      PROVE  UNCHANGED Xored!vars
  BY <1>1 DEF Xored!vars, announced
<1>2. ASSUME NEW t \in Threads, XorAndWrite(t), BufferUsedWith(t) # 0
      PROVE  Xored!WriteRound
  <2> DEFINE new == Written(t)
             size == BufferUsedWith(t)
  <2>1. /\ MyTurn(t) /\ NextThread(t) <= t
        /\ output' = Append(output, new) /\ UNCHANGED <<input, mainPc>>
    BY <1>2 DEF XorAndWrite, TakeTurn, Written
  <2>2. /\ size \in 1 .. ChunkSize
        /\ new = [data |-> RoundData(input, Len(output) + 1), size |-> size]
        /\ ExactRound(input, Len(output) + 1, new)
        /\ Holders(input, Len(output) + 1) # {}
    <3>1. /\ size \in 0 .. ChunkSize /\ size # 0
          /\ Written(t).data = RoundData(input, Round)
          /\ ExactRound(input, Round, Written(t))
          /\ Holders(input, Round) # {}
      BY <1>2, <2>1, WrittenExact
    <3>2. size \in 1 .. ChunkSize
      BY <3>1, ChunkSizeAssumption
    <3>3. new = [data |-> RoundData(input, Round), size |-> size]
      BY <3>1 DEF Written
    <3> QED BY <3>1, <3>2, <3>3 DEF Round
  <2>3. ~ IsLastRound(input, Len(output))
    <3>1. \A u \in Threads : input[u].blocks \in Nat /\ Len(output) \in Nat
      BY InputFilesAssumption DEF RoundsInv, TypeOK, Inputs
    <3> QED BY <2>2, <3>1 DEF IsLastRound, Holders
  <2>4. mainPc # "done"
    BY <2>1, TurnFacts DEF RoundsInv, MainInOrder
  <2>5. UNCHANGED <<input, announced>>
    BY <2>1, <2>4 DEF announced
  <2>6. new \in {[data |-> RoundData(input, Len(output) + 1), size |-> k] :
                   k \in 1 .. ChunkSize}
    BY <2>2
  <2> HIDE DEF new
  <2> QED BY <2>1, <2>2, <2>3, <2>5, <2>6, SameData DEF Xored!WriteRound, announced
<1>3. ASSUME JoinThread, mainPc' = "done", NothingLeft PROVE Xored!Report
  <2>1. \A t \in Threads : pc[t] \in {"exited", "failed"}
    BY <1>3, MainKeeps DEF Main, JoinThread, RoundsInv, MainInOrder
  <2>2. IsLastRound(input, Len(output)) /\ IsOutputSize(input, fileSize)
    BY <1>3, <2>1, CompleteAtEnd
  <2>3. announced = -1 /\ announced' = fileSize /\ UNCHANGED <<input, output>>
    BY <1>3 DEF JoinThread, announced, NothingLeft
  <2> QED BY <2>2, <2>3, SameData DEF Xored!Report, announced
<1>4. CASE Main
  <2>1. CASE JoinThread /\ mainPc' = "done" /\ NothingLeft
    BY <2>1, <1>3 DEF Xored!Next
  <2>2. CASE JoinThread /\ ~ (mainPc' = "done" /\ NothingLeft)
    BY <1>1, <2>2 DEF JoinThread, announced, NothingLeft
  <2>3. CASE ~ JoinThread
    BY <1>1, <1>4, <2>3
    DEF Main, OpenFiles, StartFails, CreateThread, SignalFirst, announced
  <2> QED BY <2>1, <2>2, <2>3
<1>5. ASSUME NEW t \in Threads, QuietStep(t) \/ Xor(t) \/ WriteFails(t)
                                  \/ (XorAndWrite(t) /\ BufferUsedWith(t) = 0)
      PROVE  UNCHANGED Xored!vars
  <2>1. UNCHANGED <<input, output, mainPc>>
    BY <1>5
    DEF QuietStep, Read, ReadFails, WaitForTurn, Exclude, Signal, SpuriousWakeup,
        Xor, WriteFails, XorAndWrite
  <2>2. mainPc # "done"
    BY <1>5
    DEF QuietStep, Read, ReadFails, WaitForTurn, Exclude, Signal, SpuriousWakeup,
        Xor, WriteFails, XorAndWrite, TakeTurn, MyTurn, RoundsInv, MainInOrder
  <2> QED BY <1>1, <2>1, <2>2 DEF announced
<1>6. CASE UNCHANGED vars
  BY <1>1, <1>6 DEF vars, announced, NothingLeft
<1> QED BY <1>2, <1>4, <1>5, <1>6 DEF Next, Thread, QuietStep, Xored!Next

\* For any number of files, any chunk size and any interleaving, and whatever
\* fails or wakes spuriously, hw4Lian.c writes the XOR of its inputs one exact
\* round at a time, and the size that it announces is that of the complete file
\* unless a thread failed or a round was left in the buffer.
THEOREM Implementation == Spec => ImplementsXorFile
<1>1. Init => Xored!Init
  BY InputFilesAssumption, SameData DEF Init, Xored!Init
<1>2. IInv /\ [Next]_vars => [Xored!Next]_(Xored!vars)
  BY StepImplements DEF IInv
<1> QED BY <1>1, <1>2, Invariance, PTL DEF Spec, Xored!Spec, ImplementsXorFile
=============================================================================
