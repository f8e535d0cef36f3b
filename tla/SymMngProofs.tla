----------------------------- MODULE SymMngProofs -----------------------------
(***************************************************************************)
(* Proofs about SymMng, for every pattern (with RoomForShell), file,       *)
(* buffer, bound and fault.                                                *)
(***************************************************************************)
EXTENDS SymMng, FiniteSetTheorems, SequenceTheorems, TLAPS

LEMMA Sizes ==
  /\ Len(Pattern) \in Nat /\ Children = 1 .. Len(Pattern)
  /\ Shell = Len(Pattern) + 1 /\ Slots = 0 .. Len(Pattern) - 1
  /\ BufferSize \in Nat \ {0}
BY PatternAssumption, BufferSizeAssumption DEF Children, Shell, Slots

LEMMA SmallerOf ==
  ASSUME NEW x \in Int, NEW y \in Int
  PROVE  Min({x, y}) = IF x <= y THEN x ELSE y
<1> DEFINE S == {x, y}
           m == IF x <= y THEN x ELSE y
<1>1. m \in S /\ \A z \in S : m <= z
  OBVIOUS
<1>2. \A u, v \in S : (\A z \in S : u <= z) /\ (\A z \in S : v <= z) => u = v
  OBVIOUS
<1> HIDE DEF m, S
<1>3. Min(S) = m
  BY <1>1, <1>2 DEF Min
<1> QED BY <1>3 DEF m, S

LEMMA LargerOf ==
  ASSUME NEW x \in Int, NEW y \in Int
  PROVE  Max({x, y}) = IF x >= y THEN x ELSE y
<1> DEFINE S == {x, y}
           m == IF x >= y THEN x ELSE y
<1>1. m \in S /\ \A z \in S : m >= z
  OBVIOUS
<1>2. \A u, v \in S : (\A z \in S : u >= z) /\ (\A z \in S : v >= z) => u = v
  OBVIOUS
<1> HIDE DEF m, S
<1>3. Max(S) = m
  BY <1>1, <1>2 DEF Max
<1> QED BY <1>3 DEF m, S

-----------------------------------------------------------------------------
(* The rows of ps.                                                         *)

\* No process is in two rows.
LEMMA RowsDiffer ==
  ASSUME NEW first, NEW s \in Slots, NEW t \in Slots, s # t,
         FirstRows(first)[s] # None
  PROVE  FirstRows(first)[s] # FirstRows(first)[t]
<1> DEFINE found(r) == {p \in Started : Row(p, first) = r + 1}
<1>1. /\ FirstRows(first)[s] = IF found(s) = {} THEN None ELSE CHOOSE p \in found(s) : TRUE
      /\ FirstRows(first)[t] = IF found(t) = {} THEN None ELSE CHOOSE p \in found(t) : TRUE
  BY DEF FirstRows
<1>2. found(s) # {} /\ FirstRows(first)[s] \in found(s)
  BY <1>1
<1>3. CASE found(t) = {}
  BY <1>1, <1>3
<1>4. CASE found(t) # {}
  <2>1. FirstRows(first)[t] \in found(t)
    BY <1>1, <1>4
  <2>2. s \in Int /\ t \in Int
    BY Sizes
  <2> QED BY <1>2, <2>1, <2>2
<1> QED BY <1>3, <1>4

LEMMA RowsTyped ==
  ASSUME NEW first
  PROVE  FirstRows(first) \in [Slots -> Children \cup {Shell, None}]
<1> SUFFICES ASSUME NEW s \in Slots
             PROVE  FirstRows(first)[s] \in Children \cup {Shell, None}
  BY DEF FirstRows
<1> DEFINE found == {p \in Started : Row(p, first) = s + 1}
<1>1. FirstRows(first)[s] = IF found = {} THEN None ELSE CHOOSE p \in found : TRUE
  BY DEF FirstRows
<1>2. Started \subseteq Children \cup {Shell}
  BY Sizes DEF Started
<1> QED BY <1>1, <1>2

\* If every child runs, each slot gets a process.
LEMMA RowFound ==
  ASSUME Started = 1 .. Shell, NEW first \in 1 .. Shell, NEW s \in Slots
  PROVE  FirstRows(first)[s] # None
<1> DEFINE r == s + 1
           above == Shell - first + 1
<1>1. /\ Shell \in Nat /\ first \in 1 .. Shell /\ r \in 1 .. Shell - 1
      /\ Shell >= 1 /\ above \in 1 .. Shell
  BY Sizes
<1>2. \E p \in 1 .. Shell : Row(p, first) = r
  <2>1. CASE r <= above
    <3> DEFINE p == first + r - 1
    <3>1. p \in 1 .. Shell /\ p >= first /\ first \in Int /\ p \in Int
      BY <1>1, <2>1
    <3>2. {q \in 1 .. Shell : first <= q /\ q <= p} = first .. p
      BY <1>1, <3>1
    <3>3. Cardinality(first .. p) = r
      BY <1>1, <3>1, FS_Interval
    <3>4. Row(p, first) = r
      BY <3>1, <3>2, <3>3 DEF Row
    <3> QED BY <3>1, <3>4
  <2>2. CASE r > above
    <3> DEFINE p == r - above
    <3>1. p \in 1 .. Shell /\ ~ (p >= first) /\ p < first /\ first \in Int /\ p \in Int
      BY <1>1, <2>2
    <3>2. {q \in 1 .. Shell : first <= q \/ q <= p} = (first .. Shell) \cup (1 .. p)
      BY <1>1, <3>1
    <3>3. /\ IsFiniteSet(first .. Shell) /\ Cardinality(first .. Shell) = above
          /\ IsFiniteSet(1 .. p) /\ Cardinality(1 .. p) = p
      BY <1>1, <3>1, FS_Interval
    <3>4. (first .. Shell) \cap (1 .. p) = {}
      BY <1>1, <3>1
    <3>5. Cardinality((first .. Shell) \cup (1 .. p)) = r
      <4> DEFINE A == first .. Shell
                 B == 1 .. p
      <4>1. /\ IsFiniteSet(A) /\ Cardinality(A) = above
            /\ IsFiniteSet(B) /\ Cardinality(B) = p /\ A \cap B = {}
        BY <3>3, <3>4
      <4> HIDE DEF A, B
      <4>2. Cardinality(A \cup B) = above + p - 0
        BY <4>1, FS_Union, FS_EmptySet
      <4> QED BY <1>1, <3>1, <4>2 DEF A, B
    <3>6. Row(p, first) = r
      BY <3>1, <3>2, <3>5 DEF Row
    <3> QED BY <3>1, <3>6
  <2> QED BY <1>1, <2>1, <2>2
<1> DEFINE found == {p \in Started : Row(p, first) = s + 1}
<1>3. FirstRows(first)[s] = IF found = {} THEN None ELSE CHOOSE p \in found : TRUE
  BY DEF FirstRows
<1>4. found # {}
  BY <1>2
<1>5. FirstRows(first)[s] \in 1 .. Shell
  BY <1>3, <1>4
<1> QED BY <1>5 DEF None

-----------------------------------------------------------------------------
(* The children.                                                           *)

\* The first of several places in the buffer.
LEMMA LeastPlace ==
  ASSUME NEW S, S \subseteq Nat, S # {}
  PROVE  \E m \in S : \A k \in S : m <= k
<1> DEFINE below == OpToRel(<, Nat)
<1>1. PICK m \in S : \A k \in S : ~ (<<k, m>> \in below)
  BY NatLessThanWellFounded, WFMin
<1>2. \A i, j \in Nat : ~ (<<i, j>> \in below) => j <= i
  BY DEF OpToRel
<1> HIDE DEF below
<1> QED BY <1>1, <1>2

LEMMA FirstHit ==
  ASSUME TypeOK, NEW c \in Children, Hits(c) # {}
  PROVE  /\ Min(Hits(c)) \in 1 .. BufferSize /\ Min(Hits(c)) \in Hits(c)
         /\ \A k \in Hits(c) : Min(Hits(c)) <= k
<1>1. Hits(c) \subseteq 1 .. BufferSize
  <2>1. pointer \in [Children -> 0 .. BufferSize]
    BY DEF TypeOK, ChildTypeOK
  <2>2. pointer[c] \in Nat /\ BufferSize \in Nat
    BY <2>1, Sizes
  <2> QED BY <2>2 DEF Hits
<1>2. \E m \in Hits(c) : \A k \in Hits(c) : m <= k
  BY <1>1, Sizes, LeastPlace
<1> QED BY <1>1, <1>2 DEF Min

\* fread stays in the buffer and in the file.
LEMMA BytesTyped ==
  ASSUME TypeOK, NEW c \in Children,
         NEW n, n = Min({BufferSize, Len(file) - offset[c]})
  PROVE  /\ n \in 0 .. BufferSize /\ offset[c] + n \in 0 .. Len(file)
         /\ BufferFilled(c, n) \in [1 .. BufferSize -> Nat]
<1>1. /\ BufferSize \in Nat /\ file \in Seq(Nat) /\ offset[c] \in 0 .. Len(file)
      /\ buffer[c] \in [1 .. BufferSize -> Nat]
  BY Sizes, FilesAssumption DEF TypeOK, ChildTypeOK
<1>2. Len(file) \in Nat /\ \A i \in 1 .. Len(file) : file[i] \in Nat
  BY <1>1
<1>3. /\ n \in {BufferSize, Len(file) - offset[c]}
      /\ n <= BufferSize /\ n <= Len(file) - offset[c]
  <2> DEFINE left == Len(file) - offset[c]
  <2>1. left \in Int
    BY <1>1, <1>2
  <2> HIDE DEF left
  <2>2. n = IF BufferSize <= left THEN BufferSize ELSE left
    BY <1>1, <2>1, SmallerOf DEF left
  <2>3. n \in {BufferSize, left} /\ n <= BufferSize /\ n <= left
    BY <1>1, <2>1, <2>2
  <2> QED BY <2>3 DEF left
<1>4. n \in 0 .. BufferSize /\ offset[c] + n \in 0 .. Len(file)
  BY <1>1, <1>2, <1>3
<1>5. \A k \in 1 .. BufferSize : k <= n => file[offset[c] + k] \in Nat
  <2> SUFFICES ASSUME NEW k \in 1 .. BufferSize, k <= n
               PROVE  offset[c] + k \in 1 .. Len(file)
    BY <1>2
  <2> DEFINE bytes == Len(file)
             done == offset[c]
  <2>1. bytes \in Nat /\ done \in 0 .. bytes /\ done + n \in 0 .. bytes /\ n \in Nat
    BY <1>1, <1>2, <1>4
  <2> HIDE DEF bytes, done
  <2>2. done + k \in 1 .. bytes
    BY <2>1
  <2> QED BY <2>2 DEF bytes, done
<1> QED BY <1>1, <1>4, <1>5 DEF BufferFilled

\* What a child does does not show in the manager's variables, but that it
\* stopped again.
LEMMA ChildStep ==
  ASSUME TypeOK, ChildNews, NEW c \in Children, Child(c)
  PROVE  /\ ChildTypeOK' /\ ChildNews'
         /\ \A d \in Children : /\ Seen(d)' = Seen(d)
                                /\ cpc'[d] = "unborn" <=> cpc[d] = "unborn"
<1> USE DEF TypeOK, ChildTypeOK, ChildNews, Seen
<1>1. CASE StartFails(c)
  BY <1>1 DEF StartFails
<1>2. CASE Fread(c)
  <2> DEFINE n == Min({BufferSize, Len(file) - offset[c]})
  <2>1. /\ n \in 0 .. BufferSize /\ offset[c] + n \in 0 .. Len(file)
        /\ BufferFilled(c, n) \in [1 .. BufferSize -> Nat]
    BY BytesTyped
  <2>2. /\ buffer' = [buffer EXCEPT ![c] = BufferFilled(c, n)]
        /\ offset' = [offset EXCEPT ![c] = @ + n]
        /\ eof' = [eof EXCEPT ![c] = n < BufferSize]
        /\ pointer' = [pointer EXCEPT ![c] = 0]
        /\ UNCHANGED <<file, cpc, news, occurance>>
    BY <1>2 DEF Fread
  <2> HIDE DEF n
  <2>3. offset' \in [Children -> 0 .. Len(file)]
    BY <2>1, <2>2
  <2>4. buffer' \in [Children -> [1 .. BufferSize -> Nat]]
    BY <2>1, <2>2
  <2>5. eof' \in [Children -> BOOLEAN]
    BY <2>1, <2>2, Sizes
  <2>6. pointer' \in [Children -> 0 .. BufferSize]
    BY <2>2, Sizes
  <2> QED BY <2>2, <2>3, <2>4, <2>5, <2>6
<1>3. CASE StopAtInstance(c)
  <2>1. Min(Hits(c)) \in 1 .. BufferSize
    BY <1>3, FirstHit DEF StopAtInstance
  <2>2. pointer' \in [Children -> 0 .. BufferSize]
    BY <1>3, <2>1, Sizes DEF StopAtInstance
  <2>3. occurance' \in [Children -> Nat]
    BY <1>3 DEF StopAtInstance
  <2>4. \A d \in Children : Seen(d)' = Seen(d)
    BY <1>3 DEF StopAtInstance
  <2> QED BY <1>3, <2>2, <2>3, <2>4 DEF StopAtInstance
<1>4. CASE Handler(c)
  BY <1>4 DEF Handler
<1>5. CASE Crash(c)
  BY <1>5 DEF Crash
<1> QED BY <1>1, <1>2, <1>3, <1>4, <1>5 DEF Child

LEMMA ChildKeeps ==
  ASSUME ManagerInv, NEW c \in Children, Child(c), UNCHANGED managerVars
  PROVE  ManagerInv'
<1>1. /\ ChildTypeOK' /\ ChildNews'
      /\ \A d \in Children : /\ Seen(d)' = Seen(d)
                             /\ cpc'[d] = "unborn" <=> cpc[d] = "unborn"
  BY ChildStep DEF ManagerInv
<1> USE DEF managerVars
<1>2. TypeOK'
  BY <1>1 DEF ManagerInv, TypeOK, Slots
<1>3. Missing' <=> Missing
  BY <1>1 DEF Missing
<1>4. BeforeWait'
  BY <1>1 DEF ManagerInv, BeforeWait
<1>5. AllFound'
  BY <1>3 DEF ManagerInv, AllFound, Used
<1>6. SlotsExact'
  BY <1>1, <1>3 DEF ManagerInv, SlotsExact, Used
<1> QED BY <1>1, <1>2, <1>4, <1>5, <1>6 DEF ManagerInv

-----------------------------------------------------------------------------
(* The manager.                                                            *)

LEMMA ManagerInvInit == Init => ManagerInv
<1> SUFFICES ASSUME Init PROVE ManagerInv
  OBVIOUS
<1> USE DEF Init, ChildInit, Seen
<1>1. Pattern = << >> <=> Len(Pattern) = 0
  BY PatternAssumption
<1>2. file \in Seq(Nat)
  BY FilesAssumption
<1>3. ChildTypeOK
  <2>1. buffer \in [Children -> [1 .. BufferSize -> Nat]]
    BY DEF Nul
  <2>2. pointer \in [Children -> 0 .. BufferSize] /\ offset \in [Children -> 0 .. Len(file)]
    BY <1>2, Sizes
  <2> QED BY <2>1, <2>2 DEF ChildTypeOK
<1>4. TypeOK
  <2>1. PIDs \in [Slots -> Children \cup {Shell, None}] /\ stopedCounter \in [Slots -> Nat]
    OBVIOUS
  <2>2. mpc \in {"list", "fork"} /\ PIDsSize \in 0 .. Len(Pattern)
    BY Sizes
  <2> QED BY <1>3, <2>1, <2>2 DEF TypeOK
<1>5. ChildNews /\ BeforeWait
  BY <1>1, Sizes DEF ChildNews, BeforeWait
<1> QED BY <1>4, <1>5 DEF ManagerInv, AllFound, SlotsExact

LEMMA ForkKeeps ==
  ASSUME ManagerInv, Fork
  PROVE  ManagerInv'
<1> USE DEF ManagerInv, Fork
<1>1. /\ PIDsSize \in Nat /\ PIDsSize < Len(Pattern) /\ PIDsSize + 1 \in Children
      /\ TypeOK
  BY Sizes DEF BeforeWait, TypeOK
<1>2. /\ cpc' = [cpc EXCEPT ![PIDsSize + 1] = "running"] \/ cpc' = cpc
      /\ cpc[PIDsSize + 1] = "unborn"
  BY <1>1 DEF BeforeWait
<1>3. ChildTypeOK' /\ ChildNews'
  BY <1>1, <1>2 DEF ChildNews, TypeOK, ChildTypeOK
<1>4. TypeOK'
  BY <1>1, <1>3, Sizes DEF TypeOK, Slots
<1>5. BeforeWait'
  <2>1. mpc' = "fork" => PIDsSize' < Len(Pattern)
    BY <1>1, Sizes
  <2>2. \A c \in Children : c > PIDsSize' => cpc'[c] = "unborn"
    BY <1>1, <1>2, Sizes DEF BeforeWait, TypeOK, ChildTypeOK
  <2> QED BY <2>1, <2>2 DEF BeforeWait, Seen, Slots
<1> QED BY <1>3, <1>4, <1>5 DEF AllFound, SlotsExact

LEMMA InsertKeeps ==
  ASSUME ManagerInv, InsertChildsToAnArray
  PROVE  ManagerInv'
<1> USE DEF ManagerInv
<1>1. PICK first \in IF "wrap" \in Faults THEN Started ELSE {1} : PIDs' = FirstRows(first)
  BY DEF InsertChildsToAnArray
<1>2. /\ mpc = "list" /\ PIDsSize = Len(Pattern) /\ UNCHANGED <<stopedCounter, PIDsPointer,
                                               PIDsSize, shellReaped>>
      /\ UNCHANGED childVars /\ mpc' = IF PIDsSize = 0 THEN "done" ELSE "wait"
      /\ TypeOK /\ PIDsPointer = 0
  BY DEF InsertChildsToAnArray, BeforeWait
<1>3. ChildTypeOK' /\ ChildNews'
  BY <1>2 DEF TypeOK, ChildTypeOK, ChildNews, childVars
<1>4. TypeOK'
  BY <1>1, <1>2, <1>3, RowsTyped, Sizes DEF TypeOK, Slots
<1>5. BeforeWait'
  BY <1>2, Sizes DEF BeforeWait
<1>6. Used' = Slots
  BY <1>2 DEF Used, Slots
<1>7. AllFound'
  <2> SUFFICES ASSUME ~ Missing', NEW s \in Slots PROVE PIDs'[s] # None
    BY <1>6 DEF AllFound
  <2>1. \A c \in Children : cpc[c] # "unborn"
    BY <1>2 DEF Missing, childVars
  <2>2. Started = 1 .. Shell
    BY <2>1, Sizes DEF Started
  <2>3. first \in 1 .. Shell
    BY <2>2, Sizes
  <2> QED BY <1>1, <2>2, <2>3, RowFound
<1>8. SlotsExact'
  <2> SUFFICES ASSUME NEW s \in Slots, PIDs'[s] \in Children
               PROVE  /\ \A t \in Slots \ {s} : PIDs'[t] # PIDs'[s]
                      /\ stopedCounter'[s] = Seen(PIDs[s])'
    BY <1>6 DEF SlotsExact
  <2>1. PIDs'[s] # None
    BY Sizes DEF None
  <2>2. \A t \in Slots \ {s} : PIDs'[t] # PIDs'[s]
    BY <1>1, <2>1, RowsDiffer
  <2>3. stopedCounter'[s] = 0
    BY <1>2 DEF BeforeWait
  <2>4. \A c \in Children : Seen(c)' = 0
    BY <1>2 DEF BeforeWait, Seen, childVars
  <2> QED BY <2>2, <2>3, <2>4
<1> QED BY <1>3, <1>4, <1>5, <1>7, <1>8

\* A process leaves the list, and what happens to the children happens to it
\* alone, as far as the manager sees.
LEMMA TakeOutKeeps ==
  ASSUME ManagerInv, mpc = "wait", TakeOut, stopedCounter' = CounterMoved,
         ChildTypeOK', ChildNews', shellReaped' \in BOOLEAN,
         \A d \in Children : cpc'[d] = "unborn" <=> cpc[d] = "unborn",
         ~ Missing => \A d \in Children \ {Waited} : Seen(d)' = Seen(d)
  PROVE  ManagerInv'
<1> DEFINE n == PIDsSize
           p == PIDsPointer
<1> USE DEF TakeOut
<1>1. /\ TypeOK /\ n \in 1 .. Len(Pattern) /\ p \in 0 .. n - 1
      /\ p \in Slots /\ n - 1 \in Slots /\ Last = n - 1
      /\ Len(Pattern) \in Nat /\ Slots = 0 .. Len(Pattern) - 1
  BY Sizes DEF ManagerInv, TypeOK, BeforeWait, Last
<1>2. /\ PIDs' = [PIDs EXCEPT ![p] = PIDs[n - 1], ![n - 1] = None]
      /\ stopedCounter' = [stopedCounter EXCEPT ![p] = stopedCounter[n - 1], ![n - 1] = 0]
      /\ PIDsSize' = n - 1 /\ PIDsPointer' = 0
      /\ mpc' = IF n - 1 = 0 THEN "done" ELSE "wait"
  BY <1>1 DEF CounterMoved
<1>3. TypeOK'
  <2>1. /\ PIDs \in [Slots -> Children \cup {Shell, None}]
        /\ stopedCounter \in [Slots -> Nat]
    BY <1>1 DEF TypeOK
  <2>2. n - 1 \in 0 .. Len(Pattern) /\ ~ (mpc' = "wait" /\ ~ (0 < n - 1))
    BY <1>1, <1>2
  <2> HIDE DEF n, p
  <2>3. PIDs' \in [Slots -> Children \cup {Shell, None}]
    BY <1>1, <1>2, <2>1
  <2>4. stopedCounter' \in [Slots -> Nat]
    BY <1>1, <1>2, <2>1
  <2> QED BY <1>2, <2>2, <2>3, <2>4 DEF TypeOK, Slots
<1>4. BeforeWait'
  BY <1>1, <1>2 DEF BeforeWait
<1>5. Missing' <=> Missing
  BY <1>2 DEF Missing
<1>6. /\ Used' = 0 .. n - 2 /\ Used = 0 .. n - 1
      /\ \A s \in 0 .. n - 2 :
           /\ PIDs'[s] = IF s = p THEN PIDs[n - 1] ELSE PIDs[s]
           /\ stopedCounter'[s] = IF s = p THEN stopedCounter[n - 1] ELSE stopedCounter[s]
  <2>1. Used' = 0 .. n - 2 /\ Used = 0 .. n - 1
    BY <1>1, <1>2 DEF Used
  <2>2. DOMAIN PIDs = Slots /\ DOMAIN stopedCounter = Slots
    BY <1>1 DEF TypeOK
  <2>3. \A s \in 0 .. n - 2 : s \in Slots /\ s # n - 1
    BY <1>1
  <2> HIDE DEF n, p
  <2> QED BY <1>2, <2>1, <2>2, <2>3
\* Where the process in slot k was.
<1> DEFINE from(k) == IF k = p THEN n - 1 ELSE k
<1>7. \A k \in 0 .. n - 2 : /\ from(k) \in 0 .. n - 1 /\ from(k) # p
                            /\ PIDs'[k] = PIDs[from(k)]
                            /\ stopedCounter'[k] = stopedCounter[from(k)]
  <2> SUFFICES ASSUME NEW k \in 0 .. n - 2
               PROVE  /\ from(k) \in 0 .. n - 1 /\ from(k) # p
                      /\ PIDs'[k] = PIDs[from(k)]
                      /\ stopedCounter'[k] = stopedCounter[from(k)]
    OBVIOUS
  <2>1. n - 1 \in 0 .. n - 1 /\ k \in 0 .. n - 1 /\ k # n - 1
    BY <1>1
  <2> HIDE DEF n, p
  <2> QED BY <1>6, <2>1
<1>8. \A k, j \in 0 .. n - 2 : j # k => from(j) # from(k)
  BY <1>1
<1> HIDE DEF n, p, from
<1>9. AllFound'
  <2> SUFFICES ASSUME ~ Missing, NEW s \in 0 .. n - 2 PROVE PIDs'[s] # None
    BY <1>5, <1>6 DEF AllFound
  <2>1. \A k \in 0 .. n - 1 : PIDs[k] # None
    BY <1>6 DEF AllFound, ManagerInv
  <2> QED BY <1>7, <2>1
<1>10. SlotsExact'
  <2> SUFFICES ASSUME NEW s \in 0 .. n - 2, PIDs'[s] \in Children
               PROVE  /\ \A t \in 0 .. n - 2 : t # s => PIDs'[t] # PIDs'[s]
                      /\ ~ Missing => (stopedCounter[s] = Seen(PIDs[s]))'
    BY <1>5, <1>6 DEF SlotsExact
  <2>1. /\ \A t \in 0 .. n - 1 : t # from(s) => PIDs[t] # PIDs[from(s)]
        /\ ~ Missing => stopedCounter[from(s)] = Seen(PIDs[from(s)])
    BY <1>6, <1>7 DEF ManagerInv, SlotsExact
  <2>2. PIDs'[s] \in Children \ {Waited}
    BY <1>1, <1>7, <2>1 DEF Waited, n, p
  <2>3. ~ Missing => Seen(PIDs[s])' = Seen(PIDs[from(s)])
    <3>1. PICK d \in Children \ {Waited} : d = PIDs'[s] /\ d = PIDs[from(s)]
      BY <1>7, <2>2
    <3>2. Seen(PIDs[s])' = Seen(d)' /\ Seen(PIDs[from(s)]) = Seen(d)
      BY <3>1 DEF Seen
    <3> QED BY <3>1, <3>2
  <2> QED BY <1>7, <1>8, <2>1, <2>3
<1> QED BY <1>3, <1>4, <1>9, <1>10 DEF ManagerInv

\* A wait that reports something that the manager's list does not show.
LEMMA QuietKeeps ==
  ASSUME ManagerInv, mpc = "wait", UNCHANGED <<PIDs, stopedCounter, PIDsPointer, PIDsSize>>,
         mpc' = mpc \/ mpc' \in {"failed", "killed"},
         ChildTypeOK', ChildNews', shellReaped' = shellReaped,
         \A d \in Children : cpc'[d] = "unborn" <=> cpc[d] = "unborn",
         \A d \in Children : Seen(d)' = Seen(d)
  PROVE  ManagerInv'
<1>1. TypeOK'
  BY DEF ManagerInv, TypeOK, Slots
<1>2. Missing' <=> Missing
  BY DEF Missing
<1>3. BeforeWait' /\ Used' = Used
  BY DEF ManagerInv, BeforeWait, Used
<1>4. AllFound'
  BY <1>2, <1>3 DEF ManagerInv, AllFound
<1>5. SlotsExact'
  BY <1>2, <1>3 DEF ManagerInv, SlotsExact
<1> QED BY <1>1, <1>3, <1>4, <1>5 DEF ManagerInv

\* The slot of the process that is continued counts one more of its stops.
LEMMA ContinueKeeps ==
  ASSUME ManagerInv, ContinueChild
  PROVE  ManagerInv'
<1> DEFINE n == PIDsSize
           p == PIDsPointer
<1>1. PICK c \in Children :
        LET continued == IF Waited = None THEN {d \in Children : cpc[d] = "stopped"} ELSE {c}
        IN  /\ WaitStopped(c)
            /\ cpc' = [d \in Children |-> IF d \in continued THEN "running" ELSE cpc[d]]
            /\ news' = [d \in Children |-> IF d \in continued THEN "continued" ELSE news[d]]
  BY DEF ContinueChild
<1>2. /\ stopedCounter' = [stopedCounter EXCEPT ![p] = StoppedAgain]
      /\ PIDsPointer' = (p + 1) % n
      /\ UNCHANGED <<file, offset, eof, buffer, pointer, occurance, mpc, PIDs,
                     PIDsSize, shellReaped>>
  BY DEF ContinueChild
<1>3. /\ TypeOK /\ ChildNews /\ mpc = "wait" /\ n \in Nat \ {0} /\ n <= Len(Pattern)
      /\ p \in 0 .. n - 1 /\ p \in Slots /\ Slots = 0 .. Len(Pattern) - 1
      /\ Len(Pattern) \in Nat
  BY <1>1, Sizes DEF WaitStopped, ManagerInv, TypeOK, BeforeWait
<1>4. news[c] = "stopped" /\ cpc[c] \notin {"unborn", "running", "terminating"}
  BY <1>1, <1>3 DEF WaitStopped, ChildNews
<1>5. \A d \in Children : cpc'[d] = "unborn" <=> cpc[d] = "unborn"
  BY <1>1, <1>4
<1>6. ChildTypeOK' /\ ChildNews'
  BY <1>1, <1>2, <1>3 DEF TypeOK, ChildTypeOK, ChildNews
<1>7. TypeOK'
  <2>1. (p + 1) % n \in 0 .. n - 1
    BY <1>3
  <2>2. StoppedAgain \in Nat /\ stopedCounter' \in [Slots -> Nat]
    BY <1>2, <1>3 DEF TypeOK, StoppedAgain
  <2> QED BY <1>2, <1>3, <1>6, <2>1, <2>2 DEF TypeOK, Slots
<1>8. /\ BeforeWait' /\ Used' = Used /\ Used = 0 .. n - 1
      /\ Missing' <=> Missing
  BY <1>2, <1>3, <1>5 DEF ManagerInv, BeforeWait, Used, Missing
<1>9. AllFound'
  BY <1>2, <1>8 DEF ManagerInv, AllFound
<1>10. SlotsExact'
  <2> SUFFICES ASSUME NEW s \in Used, PIDs[s] \in Children
               PROVE  /\ \A t \in Used \ {s} : PIDs[t] # PIDs[s]
                      /\ ~ Missing => (stopedCounter[s] = Seen(PIDs[s]))'
    BY <1>2, <1>8 DEF SlotsExact
  <2>1. /\ \A t \in Used \ {s} : PIDs[t] # PIDs[s]
        /\ ~ Missing => stopedCounter[s] = Seen(PIDs[s])
    BY <1>3 DEF ManagerInv, SlotsExact
  <2>2. ASSUME ~ Missing PROVE (stopedCounter[s] = Seen(PIDs[s]))'
    <3>1. Waited # None /\ p \in Used
      BY <1>3, <1>8, <2>2 DEF ManagerInv, AllFound, Waited
    <3>2. c = PIDs[p]
      BY <1>1, <3>1 DEF WaitStopped, Reportable, Waited
    <3>3. news' = [news EXCEPT ![c] = "continued"]
      BY <1>1, <1>3, <3>1 DEF TypeOK, ChildTypeOK
    <3>4. CASE s = p
      <4>1. stopedCounter'[s] = stopedCounter[s] + 1
        BY <1>2, <1>3, <3>4 DEF TypeOK, StoppedAgain
      <4>2. Seen(PIDs[s])' = Seen(PIDs[s]) + 1
        BY <1>2, <1>3, <1>4, <3>2, <3>3, <3>4 DEF Seen, TypeOK, ChildTypeOK
      <4> QED BY <2>1, <2>2, <4>1, <4>2
    <3>5. CASE s # p
      <4>1. stopedCounter'[s] = stopedCounter[s]
        BY <1>2, <1>3, <1>8, <3>5 DEF TypeOK
      <4>2. PIDs[s] # c
        BY <2>1, <3>1, <3>2, <3>5
      <4>3. Seen(PIDs[s])' = Seen(PIDs[s])
        BY <1>2, <3>3, <4>2, <1>3 DEF Seen, TypeOK, ChildTypeOK
      <4> QED BY <2>1, <2>2, <4>1, <4>3
    <3> QED BY <3>4, <3>5
  <2> QED BY <2>1, <2>2
<1> QED BY <1>6, <1>7, <1>8, <1>9, <1>10 DEF ManagerInv

LEMMA ManagerInvNext == ManagerInv /\ [Next]_vars => ManagerInv'
<1> SUFFICES ASSUME ManagerInv, [Next]_vars PROVE ManagerInv'
  OBVIOUS
<1> USE DEF managerVars, childVars
<1>0. /\ TypeOK /\ ChildTypeOK /\ ChildNews
      /\ mpc = "wait" => PIDsSize > 0 /\ PIDsPointer \in Slots
  BY Sizes DEF ManagerInv, TypeOK, BeforeWait
<1>1. CASE Fork
  BY <1>1, ForkKeeps
<1>2. CASE InsertChildsToAnArray
  BY <1>2, InsertKeeps
<1>3. CASE WaitExited
  <2>1. cpc' = cpc \/ \E c \in Children :
          /\ cpc[c] \in {"exited", "notStarted"}
          /\ cpc' = [cpc EXCEPT ![c] = IF @ = "exited" THEN "reaped" ELSE "buried"]
    BY <1>3 DEF WaitExited
  <2>2. /\ mpc = "wait" /\ TakeOut /\ stopedCounter' = CounterMoved
        /\ shellReaped' \in {TRUE, shellReaped}
        /\ UNCHANGED <<file, news, offset, eof, buffer, pointer, occurance>>
    BY <1>3 DEF WaitExited
  <2>3. ChildTypeOK' /\ ChildNews'
    BY <1>0, <2>1, <2>2 DEF ChildTypeOK, ChildNews
  <2>4. \A d \in Children : cpc'[d] = "unborn" <=> cpc[d] = "unborn"
    BY <1>0, <2>1 DEF ChildTypeOK
  <2>5. \A d \in Children : Seen(d)' = Seen(d)
    BY <2>2 DEF Seen
  <2>6. shellReaped' \in BOOLEAN
    BY <1>0, <2>2 DEF TypeOK
  <2> QED BY <2>2, <2>3, <2>4, <2>5, <2>6, TakeOutKeeps
<1>4. CASE TerminateChild
  <2>1. /\ mpc = "wait" /\ TakeOut /\ stopedCounter' = CounterMoved /\ Waited \in Children
        /\ cpc' = [cpc EXCEPT ![Waited] = "terminating"]
        /\ news' = [news EXCEPT ![Waited] = "continued"]
        /\ news[Waited] = "stopped"
        /\ UNCHANGED <<file, offset, eof, buffer, pointer, occurance, shellReaped>>
    BY <1>4 DEF TerminateChild, WaitStopped, AfterSIGTERMAndSIGCONT
  <2>2. ChildTypeOK' /\ ChildNews'
    BY <1>0, <2>1 DEF ChildTypeOK, ChildNews
  <2>3. \A d \in Children : cpc'[d] = "unborn" <=> cpc[d] = "unborn"
    BY <1>0, <2>1 DEF ChildTypeOK, ChildNews
  <2>4. \A d \in Children \ {Waited} : Seen(d)' = Seen(d)
    BY <1>0, <2>1 DEF Seen, ChildTypeOK
  <2>5. shellReaped' \in BOOLEAN
    BY <1>0, <2>1 DEF TypeOK
  <2> QED BY <2>1, <2>2, <2>3, <2>4, <2>5, TakeOutKeeps
<1>5. CASE ContinueChild
  BY <1>5, ContinueKeeps
<1>6. CASE TerminateGroup \/ WaitContinued \/ WaitSignaled \/ WaitFails
  <2>1. /\ mpc = "wait" /\ (mpc' = mpc \/ mpc' \in {"failed", "killed"})
        /\ UNCHANGED <<PIDs, stopedCounter, PIDsPointer, PIDsSize, shellReaped>>
        /\ UNCHANGED <<file, offset, eof, buffer, pointer, occurance>>
    BY <1>6 DEF TerminateGroup, WaitContinued, WaitSignaled, WaitFails, WaitStopped
  <2>2. /\ cpc' \in [Children -> {"unborn", "running", "stopped", "terminating",
                                  "exited", "reaped", "notStarted", "killed", "buried"}]
        /\ news' \in [Children -> {"none", "stopped", "continued"}]
        /\ \A d \in Children :
             /\ cpc'[d] = "unborn" <=> cpc[d] = "unborn"
             /\ news'[d] = news[d] \/ (news[d] = "continued" /\ news'[d] = "none")
             /\ cpc'[d] = "stopped" <=> cpc[d] = "stopped"
    BY <1>0, <1>6
    DEF TerminateGroup, WaitContinued, WaitSignaled, WaitFails, ChildTypeOK
  <2>3. ChildTypeOK' /\ ChildNews'
    BY <1>0, <2>1, <2>2 DEF ChildTypeOK, ChildNews
  <2>4. \A d \in Children : Seen(d)' = Seen(d)
    BY <2>1, <2>2 DEF Seen
  <2> QED BY <2>1, <2>2, <2>3, <2>4, QuietKeeps
<1>7. ASSUME NEW c \in Children, Child(c) /\ UNCHANGED managerVars PROVE ManagerInv'
  BY <1>7, ChildKeeps
<1>8. CASE UNCHANGED vars
  <2>1. TypeOK' /\ ChildNews' /\ BeforeWait'
    BY <1>8 DEF vars, ManagerInv, TypeOK, ChildTypeOK, ChildNews, BeforeWait, Slots, Seen
  <2>2. AllFound' /\ SlotsExact'
    BY <1>8 DEF vars, ManagerInv, AllFound, SlotsExact, Used, Missing, Seen
  <2> QED BY <2>1, <2>2 DEF ManagerInv
<1> QED BY <1>1, <1>2, <1>3, <1>4, <1>5, <1>6, <1>7, <1>8 DEF Next, Manager

-----------------------------------------------------------------------------
(* What a child searches.                                                  *)

\* Division has one result.
LEMMA OneQuotient ==
  ASSUME NEW B \in Nat \ {0}, NEW q \in Nat, NEW d \in Nat,
         NEW r \in 0 .. B - 1, NEW s \in 0 .. B - 1, B * q + r = B * d + s
  PROVE  q = d /\ r = s
<1>1. ASSUME NEW x \in Nat, NEW y \in Nat, x < y PROVE B * x + B <= B * y
  <2>1. PICK z \in Nat : y = (x + 1) + z
    <3>1. y - x - 1 \in Nat /\ y = (x + 1) + (y - x - 1)
      BY <1>1
    <3> QED BY <3>1
  <2>2. B * ((x + 1) + z) = B * (x + 1) + B * z
    BY <1>1
  <2>3. B * (x + 1) = B * x + B
    BY <1>1
  <2>4. B * z \in Nat /\ B * x \in Nat
    OBVIOUS
  <2> QED BY <2>1, <2>2, <2>3, <2>4
<1>2. B * q \in Nat /\ B * d \in Nat
  OBVIOUS
<1>3. ~ (q < d)
  <2> SUFFICES ASSUME q < d PROVE FALSE
    OBVIOUS
  <2>1. B * q + B <= B * d
    BY <1>1
  <2> QED BY <1>2, <2>1
<1>4. ~ (d < q)
  <2> SUFFICES ASSUME d < q PROVE FALSE
    OBVIOUS
  <2>1. B * d + B <= B * q
    BY <1>1
  <2> QED BY <1>2, <2>1
<1>5. q = d
  BY <1>3, <1>4
<1> QED BY <1>2, <1>5

LEMMA OneRemainder ==
  ASSUME NEW B \in Nat \ {0}, NEW q \in Nat, NEW m, m = B * q
  PROVE  m % B = 0
<1> DEFINE d == m \div B
           s == m % B
<1>1. m \in Nat /\ m = B * q + 0 /\ 0 \in 0 .. B - 1
  OBVIOUS
<1>2. d \in Nat /\ m = B * d + s /\ s \in 0 .. B - 1
  BY <1>1
<1> HIDE DEF d, s
<1>3. B * q + 0 = B * d + s
  BY <1>1, <1>2
<1>4. s = 0
  BY <1>1, <1>2, <1>3, OneQuotient
<1> QED BY <1>4 DEF s

LEMMA NextBuffer ==
  ASSUME NEW B \in Nat \ {0}, NEW b \in Nat, b % B = 0
  PROVE  (b + B) % B = 0
<1> DEFINE q == b \div B
<1>1. q \in Nat /\ b = B * q
  OBVIOUS
<1> HIDE DEF q
<1>2. B * (q + 1) = B * q + B /\ q + 1 \in Nat
  BY <1>1
<1> QED BY <1>1, <1>2, OneRemainder

\* Full buffers and a short one.
LEMMA FullBuffers ==
  ASSUME NEW B \in Nat \ {0}, NEW b \in Nat, b % B = 0, NEW r \in 0 .. B - 1
  PROVE  ((b + r) \div B) * B = b
<1> DEFINE q == b \div B
           d == (b + r) \div B
<1>1. q \in Nat /\ b = B * q
  OBVIOUS
<1>2. /\ d \in Nat
      /\ b + r = B * d + ((b + r) % B)
      /\ (b + r) % B \in 0 .. B - 1
  OBVIOUS
<1> HIDE DEF q, d
<1>3. q = d
  BY <1>1, <1>2, OneQuotient
<1>4. d * B = B * d
  BY <1>2
<1> QED BY <1>1, <1>3, <1>4 DEF d

\* The buffer that the byte behind b + j - 1 others is in.
LEMMA InBlock ==
  ASSUME NEW b \in Nat, b % BufferSize = 0, NEW j \in 1 .. BufferSize
  PROVE  Block(b + j) = b
<1>1. BufferSize \in Nat \ {0} /\ j - 1 \in 0 .. BufferSize - 1
  BY Sizes
<1>2. ((b + (j - 1)) \div BufferSize) * BufferSize = b
  BY <1>1, FullBuffers
<1>3. b + (j - 1) = b + j - 1
  BY <1>1
<1> QED BY <1>2, <1>3 DEF Block

LEMMA FullIs ==
  ASSUME NEW bytes \in Seq(Nat), NEW o \in 0 .. Len(bytes),
         o % BufferSize = 0, Len(bytes) - o < BufferSize
  PROVE  Full(bytes) = o
<1> DEFINE L == Len(bytes)
           B == BufferSize
           r == L - o
<1>1. L \in Nat /\ B \in Nat \ {0} /\ o \in Nat
  BY Sizes
<1>2. o <= L /\ o % B = 0 /\ L - o < B
  BY <1>1
<1> HIDE DEF L, B
<1>3. r \in 0 .. B - 1 /\ L = o + r
  BY <1>1, <1>2
<1> HIDE DEF r
<1>4. ((o + r) \div B) * B = o
  BY <1>1, <1>2, <1>3, FullBuffers
<1> QED BY <1>3, <1>4 DEF Full, L, B

LEMMA FullBounds ==
  ASSUME NEW bytes \in Seq(Nat)
  PROVE  /\ Full(bytes) \in Nat /\ Full(bytes) <= Len(bytes)
         /\ Len(bytes) - Full(bytes) < BufferSize
         /\ Full(bytes) % BufferSize = 0
         /\ Full(bytes) = 0 \/ Full(bytes) >= BufferSize
<1> DEFINE L == Len(bytes)
           B == BufferSize
           q == L \div B
<1>1. L \in Nat /\ B \in Nat \ {0}
  BY Sizes
<1> HIDE DEF L, B
<1>2. /\ q \in Nat /\ L = B * q + (L % B) /\ L % B \in 0 .. B - 1 /\ B * q = q * B
      /\ q * B \in Nat
  BY <1>1
<1> HIDE DEF q
<1>3. (q * B) % B = 0
  BY <1>1, <1>2, OneRemainder
<1>4. q * B = 0 \/ q * B >= B
  <2>1. CASE q = 0
    BY <1>1, <2>1
  <2>2. CASE q # 0
    <3>1. PICK z \in Nat : q = z + 1
      <4>1. q - 1 \in Nat /\ q = (q - 1) + 1
        BY <1>2, <2>2
      <4> QED BY <4>1
    <3>2. (z + 1) * B = z * B + B /\ z * B \in Nat
      BY <1>1
    <3> QED BY <1>1, <3>1, <3>2
  <2> QED BY <2>1, <2>2
<1>5. Full(bytes) = q * B
  BY DEF Full, L, B, q
<1>6. q * B <= L /\ L - q * B < B
  BY <1>1, <1>2
<1> QED BY <1>2, <1>3, <1>4, <1>5, <1>6 DEF L, B

\* What is looked at is the file, and behind it the bytes that the buffer before
\* the last had in the same places.
LEMMA SearchedBytes ==
  ASSUME file \in Seq(Nat)
  PROVE  /\ Searched \in Seq(Nat)
         /\ Len(Searched) = IF Full(file) = 0 THEN Len(file) ELSE Full(file) + BufferSize
         /\ \A i \in 1 .. Len(Searched) :
              Searched[i] = IF i <= Len(file) THEN file[i] ELSE file[i - BufferSize]
<1> DEFINE L == Len(file)
           F == Full(file)
           B == BufferSize
           m == IF 1 >= L - B + 1 THEN 1 ELSE L - B + 1
           rest == SubSeq(file, m, F)
<1>1. /\ L \in Nat /\ B \in Nat \ {0} /\ F \in Nat /\ F <= L /\ L - F < B
      /\ F = 0 \/ F >= B
  BY Sizes, FullBounds
<1>2. \A i \in 1 .. L : file[i] \in Nat
  OBVIOUS
<1>3. Searched = file \o rest
  <2>1. Max({1, L - B + 1}) = m
    BY <1>1, LargerOf
  <2> QED BY <2>1 DEF Searched, LeftOver
<1> HIDE DEF L, F, B
<1>4. m \in Nat /\ m >= 1 /\ (F # 0 => m = L - B + 1)
  BY <1>1
<1> HIDE DEF m
<1>5. /\ rest \in Seq(Nat) /\ Len(rest) = IF m <= F THEN F - m + 1 ELSE 0
      /\ \A i \in 1 .. F - m + 1 : rest[i] = file[m + i - 1]
  <2>1. \A i \in m .. F : file[i] \in Nat
    BY <1>1, <1>2, <1>4
  <2> QED BY <1>1, <1>4, <2>1, SubSeqProperties
<1> HIDE DEF rest
<1>6. /\ file \o rest \in Seq(Nat) /\ Len(file \o rest) = L + Len(rest)
      /\ \A i \in 1 .. L + Len(rest) :
           (file \o rest)[i] = IF i <= L THEN file[i] ELSE rest[i - L]
  BY <1>5, ConcatProperties DEF L
<1>7. L + Len(rest) = IF F = 0 THEN L ELSE F + B
  <2>1. CASE F = 0
    <3>1. Len(rest) = 0
      BY <1>1, <1>4, <1>5, <2>1
    <3> QED BY <1>1, <2>1, <3>1
  <2>2. CASE F # 0
    <3>1. m = L - B + 1 /\ m <= F
      BY <1>1, <1>4, <2>2
    <3>2. Len(rest) = F - m + 1
      BY <1>5, <3>1
    <3> QED BY <1>1, <2>2, <3>1, <3>2
  <2> QED BY <2>1, <2>2
<1>8. ASSUME NEW i \in 1 .. L + Len(rest), i > L PROVE rest[i - L] = file[i - B]
  <2>1. F # 0 /\ Len(rest) = F - m + 1 /\ m = L - B + 1
    BY <1>1, <1>4, <1>5, <1>7, <1>8
  <2>2. i - L \in 1 .. F - m + 1 /\ m + (i - L) - 1 = i - B
    BY <1>1, <1>8, <2>1
  <2> QED BY <1>5, <2>2
<1>9. \A i \in 1 .. L + Len(rest) :
        (file \o rest)[i] = IF i <= L THEN file[i] ELSE file[i - B]
  BY <1>1, <1>5, <1>6, <1>8
<1>10. /\ Searched \in Seq(Nat) /\ Len(Searched) = L + Len(rest)
       /\ \A i \in 1 .. L + Len(rest) :
            Searched[i] = IF i <= L THEN file[i] ELSE file[i - B]
  BY <1>3, <1>6, <1>9
<1> HIDE DEF Searched
<1> QED BY <1>7, <1>10 DEF L, F, B

-----------------------------------------------------------------------------
(* What a child counts.                                                    *)

LEMMA ChildTyped ==
  ASSUME TypeOK, NEW c \in Children
  PROVE  /\ file \in Seq(Nat) /\ Len(file) \in Nat
         /\ offset[c] \in 0 .. Len(file) /\ eof[c] \in BOOLEAN
         /\ pointer[c] \in 0 .. BufferSize /\ BufferSize \in Nat \ {0}
         /\ buffer[c] \in [1 .. BufferSize -> Nat]
         /\ occurance[c] \in Nat
         /\ Pattern[c] \in Nat /\ Pattern[c] # Nul
<1>1. file \in Seq(Nat)
  BY FilesAssumption DEF TypeOK, ChildTypeOK
<1>2. Pattern[c] \in Nat \ {Nul}
  BY PatternAssumption DEF Children
<1>3. Len(file) \in Nat
  BY <1>1
<1>4. BufferSize \in Nat \ {0}
  BY Sizes
<1>5. /\ offset[c] \in 0 .. Len(file) /\ eof[c] \in BOOLEAN
      /\ pointer[c] \in 0 .. BufferSize /\ buffer[c] \in [1 .. BufferSize -> Nat]
      /\ occurance[c] \in Nat
  BY DEF TypeOK, ChildTypeOK
<1> QED BY <1>1, <1>2, <1>3, <1>4, <1>5

LEMMA VisibleFinite ==
  ASSUME file \in Seq(Nat), NEW s
  PROVE  /\ Len(Searched) \in Nat
         /\ Visible(Searched, s) \subseteq 1 .. Len(Searched)
         /\ IsFiniteSet(Visible(Searched, s)) /\ Instances(Searched, s) \in Nat
<1>1. Len(Searched) \in Nat
  BY SearchedBytes
<1>2. Visible(Searched, s) \subseteq 1 .. Len(Searched)
  BY DEF Visible
<1>3. IsFiniteSet(Visible(Searched, s))
  <2> DEFINE all == 1 .. Len(Searched)
             V == Visible(Searched, s)
  <2>1. IsFiniteSet(all)
    BY <1>1, FS_Interval
  <2>2. V \in SUBSET all
    BY <1>2
  <2> HIDE DEF all, V
  <2>3. IsFiniteSet(V)
    BY <2>1, <2>2, FS_Subset
  <2> QED BY <2>3 DEF V
<1> QED BY <1>1, <1>2, <1>3, FS_CardinalityType DEF Instances

\* Before it reads a child finds nothing.
LEMMA UnreadEmpty ==
  ASSUME TypeOK, NEW c \in Children, Counted(c), Unread(c)
  PROVE  Hits(c) = {} /\ pointer[c] = 0 /\ Begin(c) = 0
<1>1. \A k \in 1 .. BufferSize : buffer[c][k] = Nul
  BY DEF Counted, BufferExact
<1>2. pointer[c] = 0
  <2> SUFFICES ASSUME pointer[c] # 0 PROVE FALSE
    OBVIOUS
  <2>1. pointer[c] \in 1 .. BufferSize /\ pointer[c] \in 1 .. pointer[c]
    BY ChildTyped
  <2> QED BY <1>1, <2>1 DEF Counted
<1>3. Hits(c) = {}
  BY <1>1, <1>2, ChildTyped DEF Hits
<1> QED BY <1>2, <1>3 DEF Begin

\* strchr finds what is to be found in the buffer.
LEMMA HitVisible ==
  ASSUME TypeOK, NEW c \in Children, Counted(c), ~ Unread(c),
         NEW k \in pointer[c] + 1 .. BufferSize
  PROVE  k \in Hits(c) <=> Begin(c) + k \in Visible(Searched, Pattern[c])
<1> DEFINE b == Begin(c)
           p == pointer[c]
           B == BufferSize
           L == Len(Searched)
<1>1. /\ b \in Nat /\ b % B = 0 /\ B \in Nat \ {0} /\ p \in 0 .. B /\ L \in Nat
      /\ \A j \in 1 .. B : buffer[c][j] = IF b + j > L THEN Nul ELSE Searched[b + j]
      /\ \A j \in 1 .. p : buffer[c][j] # Nul
      /\ Pattern[c] # Nul
  BY ChildTyped, VisibleFinite DEF Counted, BufferExact
<1>2. k \in 1 .. B
  BY <1>1
<1>3. Block(b + k) = b
  BY <1>1, <1>2, InBlock
<1>4. b + k \in Visible(Searched, Pattern[c]) <=>
        /\ b + k <= L /\ Searched[b + k] = Pattern[c]
        /\ \A i \in b + 1 .. b + k : Searched[i] # Nul
  BY <1>1, <1>2, <1>3 DEF Visible
<1>5. k \in Hits(c) <=> /\ buffer[c][k] = Pattern[c]
                        /\ \A j \in p + 1 .. k : buffer[c][j] # Nul
  BY DEF Hits
<1>6. (\A j \in p + 1 .. k : buffer[c][j] # Nul) <=> \A j \in 1 .. k : buffer[c][j] # Nul
  BY <1>1, <1>2
<1> HIDE DEF b, p, B, L
<1>7. ASSUME b + k <= L
      PROVE  (\A j \in 1 .. k : buffer[c][j] # Nul) <=>
               \A i \in b + 1 .. b + k : Searched[i] # Nul
  <2>1. \A j \in 1 .. k : buffer[c][j] = Searched[b + j]
    BY <1>1, <1>2, <1>7
  <2>2. \A i \in b + 1 .. b + k : i - b \in 1 .. k /\ b + (i - b) = i
    BY <1>1, <1>2
  <2>3. \A j \in 1 .. k : b + j \in b + 1 .. b + k
    BY <1>1, <1>2
  <2> QED BY <2>1, <2>2, <2>3
<1>8. CASE b + k <= L
  <2>1. buffer[c][k] = Searched[b + k]
    BY <1>1, <1>2, <1>8
  <2> QED BY <1>4, <1>5, <1>6, <1>7, <1>8, <2>1 DEF b
<1>9. CASE ~ (b + k <= L)
  <2>1. buffer[c][k] = Nul
    BY <1>1, <1>2, <1>9
  <2> QED BY <1>1, <1>4, <1>5, <1>9, <2>1 DEF b
<1> QED BY <1>8, <1>9

\* When strchr finds no more, all instances up to the end of the buffer are passed.
LEMMA NoneLeft ==
  ASSUME TypeOK, NEW c \in Children, Counted(c), Hits(c) = {}
  PROVE  Passed(c) = {k \in Visible(Searched, Pattern[c]) :
                        k <= IF Unread(c) THEN 0 ELSE Begin(c) + BufferSize}
<1>1. CASE Unread(c)
  BY <1>1, UnreadEmpty DEF Passed
<1>2. CASE ~ Unread(c)
  <2> DEFINE b == Begin(c)
             p == pointer[c]
             B == BufferSize
             V == Visible(Searched, Pattern[c])
  <2>1. b \in Nat /\ B \in Nat /\ p \in 0 .. B /\ V \subseteq Nat
    BY ChildTyped, VisibleFinite DEF Counted, BufferExact
  <2>2. \A k \in p + 1 .. B : b + k \notin V
    BY <1>2, HitVisible
  <2> HIDE DEF b, p, B, V
  <2>3. \A i \in V : i <= b + B => i <= b + p
    <3> SUFFICES ASSUME NEW i \in V, i <= b + B, ~ (i <= b + p) PROVE FALSE
      OBVIOUS
    <3>1. i - b \in p + 1 .. B /\ b + (i - b) = i
      BY <2>1
    <3> QED BY <2>2, <3>1
  <2>4. \A i \in V : i <= b + p => i <= b + B
    BY <2>1
  <2>5. {i \in V : i <= b + p} = {i \in V : i <= b + B}
    BY <2>3, <2>4
  <2> QED BY <1>2, <2>5 DEF Passed, b, p, B, V
<1> QED BY <1>1, <1>2

\* At the end of the file those are all.
LEMMA AllPassed ==
  ASSUME TypeOK, NEW c \in Children, Counted(c), Hits(c) = {}, eof[c]
  PROVE  occurance[c] = Instances(Searched, Pattern[c])
<1> DEFINE V == Visible(Searched, Pattern[c])
<1>1. ~ Unread(c) /\ Begin(c) = Full(file)
  BY DEF Unread, Begin
<1>2. Len(Searched) <= Full(file) + BufferSize /\ Len(Searched) \in Nat
  <2>1. /\ Full(file) \in Nat /\ Len(file) \in Nat /\ BufferSize \in Nat
        /\ Len(file) - Full(file) < BufferSize
    BY ChildTyped, FullBounds
  <2>2. Len(Searched) = IF Full(file) = 0 THEN Len(file) ELSE Full(file) + BufferSize
    BY ChildTyped, SearchedBytes
  <2> QED BY <2>1, <2>2
<1>3. \A k \in V : k <= Full(file) + BufferSize
  <2>1. V \subseteq 1 .. Len(Searched)
    BY ChildTyped, VisibleFinite
  <2>2. Full(file) + BufferSize \in Nat
    BY ChildTyped, FullBounds
  <2> HIDE DEF V
  <2> QED BY <1>2, <2>1, <2>2
<1>4. Passed(c) = V
  BY <1>1, <1>3, NoneLeft
<1> QED BY <1>4 DEF Counted, Instances

\* A read puts the bytes that follow into the buffer; what a short one leaves of
\* those before is what Searched has there.
LEMMA ReadKeeps ==
  ASSUME TypeOK, NEW c \in Children, Counted(c), Fread(c)
  PROVE  Counted(c)'
<1> DEFINE b == Begin(c)
           o == offset[c]
           B == BufferSize
           L == Len(file)
           n == Min({BufferSize, Len(file) - offset[c]})
           M == Len(Searched)
<1>1. /\ file \in Seq(Nat) /\ L \in Nat /\ o \in 0 .. L /\ B \in Nat \ {0}
      /\ eof[c] = FALSE
  BY ChildTyped DEF Fread
<1>2. /\ buffer' = [buffer EXCEPT ![c] = BufferFilled(c, n)]
      /\ offset' = [offset EXCEPT ![c] = @ + n]
      /\ eof' = [eof EXCEPT ![c] = n < B]
      /\ pointer' = [pointer EXCEPT ![c] = 0]
      /\ UNCHANGED <<file, cpc, news, occurance>>
      /\ Hits(c) = {}
  BY DEF Fread
<1>3. n \in 0 .. B /\ n = (IF B <= L - o THEN B ELSE L - o)
  <2>1. n = IF B <= L - o THEN B ELSE L - o
    BY <1>1, SmallerOf
  <2> HIDE DEF n
  <2> QED BY <1>1, <2>1
<1> HIDE DEF n
<1>4. /\ offset'[c] = o + n /\ pointer'[c] = 0
      /\ (n < B => eof'[c]) /\ (~ (n < B) => ~ eof'[c])
      /\ occurance'[c] = occurance[c]
      /\ \A k \in 1 .. B : buffer'[c][k] = IF k <= n THEN file[o + k] ELSE buffer[c][k]
  BY <1>2 DEF TypeOK, ChildTypeOK, BufferFilled
<1>5. /\ b \in Nat /\ b % B = 0
      /\ \A k \in 1 .. B :
           buffer[c][k] = IF Unread(c) \/ b + k > M THEN Nul ELSE Searched[b + k]
  BY DEF Counted, BufferExact
\* What was read is full buffers.
<1>6. /\ IF Unread(c) THEN o = 0 /\ b = 0 ELSE o = b + B
      /\ o % B = 0
  <2>1. IF Unread(c) THEN o = 0 /\ b = 0 ELSE o = b + B
    BY <1>1 DEF Unread, Begin
  <2> HIDE DEF o, b, B
  <2>2. (b + B) % B = 0
    BY <1>1, <1>5, NextBuffer
  <2>3. 0 % B = 0
    BY <1>1
  <2> QED BY <2>1, <2>2, <2>3
<1>7. /\ Searched \in Seq(Nat) /\ M \in Nat
      /\ M = IF Full(file) = 0 THEN L ELSE Full(file) + B
      /\ \A i \in 1 .. M : Searched[i] = IF i <= L THEN file[i] ELSE file[i - B]
  BY <1>1, SearchedBytes
<1> HIDE DEF b, o, B, L, M
<1>8. ~ Unread(c)' /\ Begin(c)' = o
  <2>1. CASE n = B
    <3>1. ~ (n < B) /\ o + B # 0
      BY <1>1, <2>1
    <3>2. ~ eof'[c]
      BY <1>4, <3>1
    <3>3. offset'[c] = o + B /\ (o + B) - B = o
      BY <1>1, <1>4, <2>1
    <3>4. ~ Unread(c)'
      BY <3>1, <3>3 DEF Unread
    <3>5. Begin(c)' = offset'[c] - B
      BY <3>2, <3>4 DEF Begin, B
    <3> QED BY <3>3, <3>4, <3>5
  <2>2. CASE n # B
    <3>1. n < B /\ n = L - o
      BY <1>1, <1>3, <2>2
    <3>2. Full(file) = o
      BY <1>1, <1>6, <3>1, FullIs DEF L, B
    <3>3. Full(file)' = Full(file)
      BY <1>2 DEF Full
    <3>4. eof'[c] /\ ~ Unread(c)'
      BY <1>4, <3>1 DEF Unread
    <3> QED BY <3>2, <3>3, <3>4 DEF Begin
  <2> QED BY <2>1, <2>2
<1>9. BufferExact(c)'
  <2>1. eof'[c] => offset'[c] = L
    <3>1. n < B => o + n = L
      BY <1>1, <1>3
    <3> QED BY <1>4, <3>1
  <2>2. L <= M
    <3>1. Full(file) \in Nat /\ L - Full(file) < B
      BY <1>1, FullBounds DEF L, B
    <3> QED BY <1>1, <1>7, <3>1
  <2>3. ASSUME NEW k \in 1 .. B
        PROVE  buffer'[c][k] = IF o + k > M THEN Nul ELSE Searched[o + k]
    <3>1. CASE k <= n
      <4>1. o + k \in 1 .. L /\ o + k \in 1 .. M
        BY <1>1, <1>3, <1>7, <2>2, <3>1
      <4>2. Searched[o + k] = file[o + k]
        BY <1>7, <4>1
      <4> QED BY <1>4, <1>7, <3>1, <4>1, <4>2
    <3>2. CASE ~ (k <= n)
      <4>1. n = L - o /\ L - o < B /\ o + k > L
        BY <1>1, <1>3, <3>2
      <4>2. Full(file) = o
        BY <1>1, <1>6, <4>1, FullIs DEF L, B
      <4>3. buffer'[c][k] = buffer[c][k]
        BY <1>4, <3>2
      <4>4. CASE Unread(c)
        <5>1. o = 0 /\ M = L
          BY <1>6, <1>7, <4>2, <4>4
        <5>2. buffer[c][k] = Nul
          BY <1>5, <4>4
        <5> QED BY <1>1, <4>1, <4>3, <5>1, <5>2
      <4>5. CASE ~ Unread(c)
        <5>1. o = b + B /\ o # 0 /\ M = o + B
          BY <1>1, <1>5, <1>6, <1>7, <4>2, <4>5
        <5>2. /\ b + k \in 1 .. M /\ b + k <= L /\ o + k \in 1 .. M
              /\ ~ (o + k <= L) /\ (o + k) - B = b + k /\ ~ (b + k > M) /\ ~ (o + k > M)
          BY <1>1, <1>5, <1>7, <4>1, <5>1
        <5>3. buffer[c][k] = Searched[b + k]
          BY <1>5, <4>5, <5>2
        <5>4. Searched[b + k] = file[b + k] /\ Searched[o + k] = file[b + k]
          BY <1>7, <5>2
        <5> QED BY <4>3, <5>2, <5>3, <5>4
      <4> QED BY <4>4, <4>5
    <3> QED BY <3>1, <3>2
  <2>4. Searched' = Searched /\ Len(file)' = L
    BY <1>2 DEF Searched, LeftOver, Full, L
  <2>5. o \in Nat
    BY <1>1
  <2> QED BY <1>6, <1>8, <2>1, <2>3, <2>4, <2>5 DEF BufferExact, B, M
<1>10. Passed(c)' = Passed(c)
  <2>1. Visible(Searched, Pattern[c])' = Visible(Searched, Pattern[c])
    BY <1>2 DEF Visible, Searched, LeftOver, Full, Block
  <2>2. Passed(c)' = {k \in Visible(Searched, Pattern[c]) : k <= o + 0}
    BY <1>4, <1>8, <2>1 DEF Passed
  <2>3. o + 0 = IF Unread(c) THEN 0 ELSE b + B
    BY <1>1, <1>6
  <2> QED BY <1>2, <2>2, <2>3, NoneLeft DEF b, B
<1>11. \A k \in 1 .. pointer'[c] : buffer'[c][k] # Nul
  BY <1>4
<1> QED BY <1>4, <1>9, <1>10, <1>11 DEF Counted

\* An instance is one more.
LEMMA StopKeeps ==
  ASSUME TypeOK, NEW c \in Children, Counted(c), StopAtInstance(c)
  PROVE  Counted(c)'
<1> DEFINE b == Begin(c)
           p == pointer[c]
           B == BufferSize
           V == Visible(Searched, Pattern[c])
           m == Min(Hits(c))
<1>1. /\ Hits(c) # {} /\ pointer' = [pointer EXCEPT ![c] = m]
      /\ occurance' = [occurance EXCEPT ![c] = @ + 1]
      /\ UNCHANGED <<file, offset, eof, buffer>>
  BY DEF StopAtInstance
<1>2. ~ Unread(c)
  BY <1>1, UnreadEmpty
<1>3. m \in Hits(c) /\ \A k \in Hits(c) : m <= k
  BY <1>1, FirstHit
<1>4. /\ b \in Nat /\ B \in Nat /\ p \in 0 .. B /\ V \subseteq Nat /\ IsFiniteSet(V)
      /\ occurance[c] \in Nat
  BY ChildTyped, VisibleFinite DEF Counted, BufferExact
<1>5. pointer'[c] = m /\ occurance'[c] = occurance[c] + 1
  BY <1>1 DEF TypeOK, ChildTypeOK
<1>6. \A k \in p + 1 .. B : k \in Hits(c) <=> b + k \in V
  BY <1>2, HitVisible
<1>7. m \in p + 1 .. B /\ \A j \in p + 1 .. m : buffer[c][j] # Nul
  BY <1>3 DEF Hits
<1> HIDE DEF m
<1>8. /\ BufferExact(c)' /\ Begin(c)' = b
      /\ Visible(Searched, Pattern[c])' = V
  BY <1>1 DEF Counted, BufferExact, Begin, Unread, Visible, Searched, LeftOver, Full, Block
<1>9. \A k \in 1 .. pointer'[c] : buffer'[c][k] # Nul
  <2>1. \A k \in 1 .. p : buffer[c][k] # Nul
    BY DEF Counted
  <2> HIDE DEF p, B
  <2>2. \A k \in 1 .. m : k \in 1 .. p \/ k \in p + 1 .. m
    BY <1>4, <1>7
  <2> QED BY <1>1, <1>5, <1>7, <2>1, <2>2
<1> DEFINE before == {k \in V : k <= b + p}
           after == {k \in V : k <= b + m}
<1>10. Passed(c) = before /\ Passed(c)' = after
  BY <1>5, <1>8 DEF Passed
<1>11. m \in Hits(c) /\ b + m \in V
  BY <1>3, <1>6, <1>7
<1>12. ASSUME NEW k \in V, k <= b + m, ~ (k <= b + p) PROVE k = b + m
  <2> HIDE DEF b, p, B, V
  <2>1. k - b \in p + 1 .. B /\ b + (k - b) = k
    BY <1>4, <1>7, <1>12
  <2>2. m <= k - b
    BY <1>3, <1>6, <2>1
  <2> QED BY <1>4, <1>7, <1>12, <2>1, <2>2
<1>13. b + m \notin before /\ \A k \in before : k <= b + m
  <2> HIDE DEF b, p, B, V
  <2> QED BY <1>4, <1>7
<1>14. after = before \cup {b + m}
  <2>1. b + m <= b + m
    BY <1>4, <1>7
  <2> QED BY <1>11, <1>12, <1>13, <2>1
<1>15. IsFiniteSet(before) /\ before \subseteq V
  <2>1. before \in SUBSET V
    OBVIOUS
  <2> HIDE DEF before, V
  <2> QED BY <1>4, <2>1, FS_Subset
<1> DEFINE x == b + m
<1> HIDE DEF before, after, x
<1>16. Cardinality(before \cup {x}) = Cardinality(before) + 1
  <2>1. x \notin before
    BY <1>13 DEF x
  <2> QED BY <1>15, <2>1, FS_AddElement
<1>17. occurance'[c] = Cardinality(Passed(c)')
  BY <1>5, <1>10, <1>14, <1>16 DEF Counted, x
<1> QED BY <1>8, <1>9, <1>17 DEF Counted

\* What happens to others does not show in what a child has counted.
LEMMA Untouched ==
  ASSUME NEW c \in Children, Counted(c), file' = file,
         offset'[c] = offset[c], eof'[c] = eof[c], buffer'[c] = buffer[c],
         pointer'[c] = pointer[c], occurance'[c] = occurance[c]
  PROVE  Counted(c)'
<1>1. Searched' = Searched /\ Full(file)' = Full(file)
  BY DEF Searched, LeftOver, Full
<1>2. Visible(Searched, Pattern[c])' = Visible(Searched, Pattern[c])
  BY <1>1 DEF Visible, Block
<1>3. (Unread(c)' <=> Unread(c)) /\ Begin(c)' = Begin(c)
  BY <1>1 DEF Begin, Unread
<1>4. BufferExact(c)'
  BY <1>1, <1>3 DEF Counted, BufferExact
<1>5. Passed(c)' = Passed(c)
  BY <1>2, <1>3 DEF Passed
<1> QED BY <1>4, <1>5 DEF Counted

LEMMA AtMostAll ==
  ASSUME TypeOK, NEW c \in Children, Counted(c)
  PROVE  occurance[c] <= Instances(Searched, Pattern[c])
<1> DEFINE V == Visible(Searched, Pattern[c])
           passed == Passed(c)
<1>1. IsFiniteSet(V)
  BY ChildTyped, VisibleFinite
<1>2. passed \in SUBSET V
  BY DEF Passed
<1> HIDE DEF V, passed
<1>3. Cardinality(passed) <= Cardinality(V)
  BY <1>1, <1>2, FS_Subset
<1> QED BY <1>3 DEF Counted, Instances, V, passed

LEMMA ChildCounts ==
  ASSUME IInv, NEW c \in Children, Child(c), UNCHANGED managerVars
  PROVE  (\A d \in Children : Counted(d)') /\ BoundKept' /\ InstancesCounted'
<1>1. /\ TypeOK /\ ChildTypeOK /\ ChildNews /\ ManagerInv /\ Counted(c)
      /\ TerminationBound \in Nat
  BY BoundAssumption DEF IInv, ManagerInv, TypeOK
<1>2. /\ file' = file
      /\ \A d \in Children \ {c} :
           /\ cpc'[d] = cpc[d] /\ offset'[d] = offset[d] /\ eof'[d] = eof[d]
           /\ buffer'[d] = buffer[d] /\ pointer'[d] = pointer[d]
           /\ occurance'[d] = occurance[d]
  BY <1>1 DEF Child, StartFails, Fread, StopAtInstance, Handler, Crash, ChildTypeOK
<1>3. \A d \in Children \ {c} : Counted(d)'
  BY <1>2, Untouched DEF IInv
<1>4. Missing' <=> Missing
  BY <1>1, ChildStep DEF Missing, managerVars
\* What the other parts say of c is all there is to show.
<1>5. Searched' = Searched
  BY <1>2 DEF Searched, LeftOver, Full
<1> DEFINE all == Instances(Searched, Pattern[c])
           TB == TerminationBound
           bound == IF TB = 0 THEN all ELSE Min({TB, all})
<1>6. SUFFICES
        /\ Counted(c)'
        /\ ~ Missing =>
             /\ cpc'[c] = "terminating" => TB # 0 /\ occurance'[c] = TB
             /\ TB # 0 => /\ cpc'[c] = "running" => occurance'[c] < TB
                          /\ cpc'[c] = "stopped" => occurance'[c] <= TB
        /\ cpc'[c] \in {"exited", "reaped"} =>
             occurance'[c] <= all /\ (~ Missing => occurance'[c] = bound)
  <2>1. InstancesCounted'
    <3> SUFFICES ASSUME NEW d \in Children, cpc'[d] \in {"exited", "reaped"}
                 PROVE  LET allOf == Instances(Searched, Pattern[d])
                        IN  /\ occurance'[d] <= allOf
                            /\ ~ Missing => occurance'[d] = IF TB = 0 THEN allOf
                                                            ELSE Min({TB, allOf})
      BY <1>4, <1>5 DEF InstancesCounted, Instances, Visible, Block
    <3>1. CASE d = c
      BY <1>6, <3>1
    <3>2. CASE d # c
      BY <1>2, <3>2 DEF IInv, InstancesCounted
    <3> QED BY <3>1, <3>2
  <2>2. BoundKept'
    BY <1>2, <1>4, <1>6 DEF IInv, BoundKept
  <2>3. \A d \in Children : Counted(d)'
    BY <1>3, <1>6
  <2> QED BY <2>1, <2>2, <2>3
<1>7. /\ ~ Missing =>
           /\ cpc[c] = "terminating" => TB # 0 /\ occurance[c] = TB
           /\ TB # 0 => /\ cpc[c] = "running" => occurance[c] < TB
                        /\ cpc[c] = "stopped" => occurance[c] <= TB
      /\ cpc[c] \in {"exited", "reaped"} =>
           occurance[c] <= all /\ (~ Missing => occurance[c] = bound)
      /\ occurance[c] \in Nat /\ all \in Nat /\ occurance[c] <= all
      /\ TB \in Nat /\ Min({TB, all}) = IF TB <= all THEN TB ELSE all
  <2>1. all \in Nat
    BY <1>1, ChildTyped, VisibleFinite
  <2>2. Min({TB, all}) = IF TB <= all THEN TB ELSE all
    BY <1>1, <2>1, SmallerOf
  <2>3. occurance[c] \in Nat /\ occurance[c] <= all
    BY <1>1, ChildTyped, AtMostAll
  <2> QED BY <1>1, <2>1, <2>2, <2>3 DEF IInv, BoundKept, InstancesCounted
<1> HIDE DEF all, TB
<1>8. CASE StartFails(c) \/ Crash(c)
  <2>1. UNCHANGED <<file, offset, eof, buffer, pointer, occurance>>
    BY <1>8 DEF StartFails, Crash
  <2>2. cpc'[c] \in {"notStarted", "killed"}
    BY <1>1, <1>8 DEF StartFails, Crash, ChildTypeOK
  <2>3. Counted(c)'
    BY <1>1, <2>1, Untouched
  <2> QED BY <2>2, <2>3
<1>9. CASE Fread(c)
  <2>1. Counted(c)'
    BY <1>1, <1>9, ReadKeeps
  <2> QED BY <1>7, <1>9, <2>1 DEF Fread
<1>10. CASE StopAtInstance(c)
  <2>1. Counted(c)'
    BY <1>1, <1>10, StopKeeps
  <2>2. cpc[c] = "running" /\ cpc'[c] = "stopped" /\ occurance'[c] = occurance[c] + 1
    BY <1>1, <1>10 DEF StopAtInstance, ChildTypeOK
  <2>3. TB # 0 /\ occurance[c] < TB => occurance[c] + 1 <= TB
    BY <1>7
  <2> QED BY <1>7, <2>1, <2>2, <2>3
<1>11. CASE Handler(c)
  <2>1. UNCHANGED <<file, offset, eof, buffer, pointer, occurance>>
    BY <1>11 DEF Handler
  <2>2. Counted(c)'
    BY <1>1, <2>1, Untouched
  <2>3. cpc'[c] = "exited"
    BY <1>1, <1>11 DEF Handler, ChildTypeOK
  <2>4. ASSUME ~ Missing PROVE occurance[c] = bound
    <3>1. CASE cpc[c] = "running" /\ Hits(c) = {} /\ eof[c]
      <4>1. occurance[c] = all
        BY <1>1, <3>1, AllPassed DEF all
      <4>2. TB # 0 => occurance[c] < TB
        BY <1>7, <2>4, <3>1
      <4> QED BY <1>7, <4>1, <4>2
    <3>2. CASE cpc[c] = "terminating"
      <4>1. TB # 0 /\ occurance[c] = TB
        BY <1>7, <2>4, <3>2
      <4> QED BY <1>7, <4>1
    <3> QED BY <1>11, <3>1, <3>2 DEF Handler
  <2> QED BY <1>7, <2>1, <2>2, <2>3, <2>4
<1> QED BY <1>8, <1>9, <1>10, <1>11 DEF Child

\* What the manager does leaves what the children have counted; a child that is
\* continued or terminated is so by the number of its stops.
LEMMA ManagerCounts ==
  ASSUME IInv, file' = file,
         UNCHANGED <<offset, eof, buffer, pointer, occurance>>, Missing => Missing',
         \A d \in Children : cpc'[d] \in {"exited", "reaped"} =>
                               cpc[d] \in {"exited", "reaped"},
         ~ Missing =>
           \A d \in Children :
             /\ cpc'[d] = "terminating" =>
                  \/ cpc[d] = "terminating"
                  \/ TerminationBound # 0 /\ occurance[d] = TerminationBound
             /\ cpc'[d] = "stopped" => cpc[d] = "stopped"
             /\ TerminationBound # 0 /\ cpc'[d] = "running" =>
                  cpc[d] = "running" \/ occurance[d] < TerminationBound
  PROVE  (\A d \in Children : Counted(d)') /\ BoundKept' /\ InstancesCounted'
<1>1. \A d \in Children : Counted(d)'
  BY Untouched DEF IInv
<1>2. BoundKept'
  BY DEF IInv, BoundKept
<1>3. InstancesCounted'
  <2>1. Searched' = Searched
    BY DEF Searched, LeftOver, Full
  <2> QED BY <2>1 DEF IInv, InstancesCounted, Instances, Visible, Block
<1> QED BY <1>1, <1>2, <1>3

\* The stop that is reported is the one that the child has counted last.
LEMMA StopsCounted ==
  ASSUME ManagerInv, mpc = "wait", ~ Missing, NEW c \in Children, WaitStopped(c)
  PROVE  /\ Waited = c /\ cpc[c] = "stopped" /\ StoppedAgain = occurance[c]
         /\ occurance[c] \in Nat \ {0}
<1>1. /\ TypeOK /\ PIDsPointer \in Used /\ PIDsPointer \in Slots
  BY Sizes DEF ManagerInv, TypeOK, BeforeWait, Used
<1>2. Waited = c
  <2>1. Waited # None
    BY <1>1 DEF ManagerInv, AllFound, Waited
  <2> QED BY <2>1 DEF WaitStopped, Reportable
<1>3. cpc[c] = "stopped" /\ news[c] = "stopped"
  BY DEF WaitStopped, ManagerInv, ChildNews
<1>4. stopedCounter[PIDsPointer] = Seen(c)
  BY <1>1, <1>2 DEF ManagerInv, SlotsExact, Waited
<1>5. stopedCounter[PIDsPointer] \in Nat /\ occurance[c] \in Nat
  BY <1>1 DEF TypeOK, ChildTypeOK
<1>6. Seen(c) = occurance[c] - 1
  BY <1>3 DEF Seen
<1> QED BY <1>2, <1>3, <1>4, <1>5, <1>6 DEF StoppedAgain

LEMMA CountNext ==
  ASSUME IInv, [Next]_vars
  PROVE  (\A d \in Children : Counted(d)') /\ BoundKept' /\ InstancesCounted'
<1>1. /\ ManagerInv /\ TypeOK /\ ChildTypeOK /\ ChildNews /\ TerminationBound \in Nat
  BY BoundAssumption DEF IInv, ManagerInv, TypeOK
<1>2. ASSUME NEW c \in Children, Child(c), UNCHANGED managerVars
      PROVE  (\A d \in Children : Counted(d)') /\ BoundKept' /\ InstancesCounted'
  BY <1>2, ChildCounts
<1>3. CASE UNCHANGED vars
  BY <1>3, ManagerCounts DEF vars, childVars, managerVars, Missing
<1>4. CASE Fork
  <2>1. /\ mpc = "fork" /\ PIDsSize + 1 \in Children /\ cpc[PIDsSize + 1] = "unborn"
        /\ cpc' = [cpc EXCEPT ![PIDsSize + 1] = "running"] \/ cpc' = cpc
        /\ UNCHANGED <<file, offset, eof, buffer, pointer, occurance>>
    BY <1>1, <1>4, Sizes DEF Fork, ManagerInv, BeforeWait, TypeOK
  <2>2. \A d \in Children : cpc[d] = "unborn" => occurance[d] = 0
    BY <1>1, <2>1 DEF ManagerInv, BeforeWait, Seen, ChildNews, ChildTypeOK
  <2>3. TerminationBound # 0 => 0 < TerminationBound
    BY <1>1
  <2> QED BY <1>1, <2>1, <2>2, <2>3, ManagerCounts DEF Missing, ChildTypeOK
<1>5. CASE InsertChildsToAnArray
  BY <1>5, ManagerCounts DEF InsertChildsToAnArray, childVars, Missing
<1>6. CASE WaitExited \/ WaitContinued \/ WaitSignaled \/ WaitFails
  <2>1. /\ mpc = "wait" /\ mpc' # "fork"
        /\ UNCHANGED <<file, offset, eof, buffer, pointer, occurance>>
    BY <1>6 DEF WaitExited, TakeOut, WaitContinued, WaitSignaled, WaitFails,
                managerVars, childVars
  <2>2. \/ cpc' = cpc
        \/ \E c \in Children :
             \/ cpc[c] = "exited" /\ cpc' = [cpc EXCEPT ![c] = "reaped"]
             \/ cpc[c] \in {"notStarted", "killed"} /\ cpc' = [cpc EXCEPT ![c] = "buried"]
    BY <1>1, <1>6 DEF WaitExited, WaitContinued, WaitSignaled, WaitFails, childVars,
                      ChildTypeOK
  <2>3. Missing => Missing'
    BY <1>1, <2>1, <2>2 DEF Missing, ChildTypeOK
  <2> QED BY <1>1, <2>1, <2>2, <2>3, ManagerCounts DEF ChildTypeOK
<1>7. CASE TerminateChild
  <2>1. /\ mpc = "wait" /\ Waited \in Children /\ WaitStopped(Waited)
        /\ StoppedAgain = TerminationBound
        /\ cpc' = [cpc EXCEPT ![Waited] = "terminating"]
        /\ UNCHANGED <<file, offset, eof, buffer, pointer, occurance>>
        /\ mpc' # "fork" /\ news[Waited] = "stopped"
    BY <1>7 DEF TerminateChild, WaitStopped, TakeOut, AfterSIGTERMAndSIGCONT
  <2>2. Missing => Missing'
    BY <1>1, <2>1 DEF Missing, ChildTypeOK, ChildNews
  <2>3. ~ Missing => occurance[Waited] = TerminationBound /\ TerminationBound # 0
    BY <1>1, <2>1, StopsCounted
  <2> QED BY <1>1, <2>1, <2>2, <2>3, ManagerCounts DEF ChildTypeOK
<1>8. CASE TerminateGroup
  <2>1. /\ Missing /\ mpc = "wait" /\ mpc' = "killed"
        /\ cpc' = [c \in Children |-> IF cpc[c] = "running" THEN "terminating" ELSE cpc[c]]
        /\ UNCHANGED <<file, offset, eof, buffer, pointer, occurance>>
    <3>1. PICK c \in Children : WaitStopped(c)
      BY <1>8 DEF TerminateGroup
    <3>2. c # None
      BY Sizes DEF None
    <3> QED BY <1>1, <1>8, <3>1, <3>2, StopsCounted DEF TerminateGroup, WaitStopped
  <2>2. Missing'
    BY <2>1 DEF Missing
  <2> QED BY <2>1, <2>2, ManagerCounts
<1>9. CASE ContinueChild
  <2>1. PICK c \in Children :
          LET continued == IF Waited = None THEN {d \in Children : cpc[d] = "stopped"}
                                            ELSE {c}
          IN  /\ WaitStopped(c)
              /\ cpc' = [d \in Children |-> IF d \in continued THEN "running" ELSE cpc[d]]
    BY <1>9 DEF ContinueChild
  <2>2. /\ mpc = "wait" /\ mpc' = "wait" /\ cpc[c] = "stopped"
        /\ UNCHANGED <<file, offset, eof, buffer, pointer, occurance>>
        /\ StoppedAgain # TerminationBound
    BY <1>1, <1>9, <2>1 DEF ContinueChild, WaitStopped, ChildNews
  <2>3. Missing => Missing'
    BY <2>1, <2>2 DEF Missing
  <2>4. ASSUME ~ Missing
        PROVE  /\ cpc' = [cpc EXCEPT ![c] = "running"]
               /\ TerminationBound # 0 => occurance[c] < TerminationBound
    <3>1. Waited = c /\ StoppedAgain = occurance[c] /\ occurance[c] \in Nat
      BY <1>1, <2>1, <2>2, <2>4, StopsCounted
    <3>2. c # None
      BY Sizes DEF None
    <3>3. cpc' = [cpc EXCEPT ![c] = "running"]
      BY <1>1, <2>1, <3>1, <3>2 DEF ChildTypeOK
    <3>4. TerminationBound # 0 => occurance[c] <= TerminationBound
      BY <2>2, <2>4 DEF IInv, BoundKept
    <3> QED BY <1>1, <2>2, <3>1, <3>3, <3>4
  <2>5. \A d \in Children : cpc'[d] = cpc[d] \/ cpc'[d] = "running"
    BY <2>1
  <2> QED BY <1>1, <2>2, <2>3, <2>4, <2>5, ManagerCounts DEF ChildTypeOK
<1> QED BY <1>2, <1>3, <1>4, <1>5, <1>6, <1>7, <1>8, <1>9 DEF Next, Manager

LEMMA IInvInit == Init => IInv
<1> SUFFICES ASSUME Init PROVE IInv
  OBVIOUS
<1>1. ManagerInv
  BY ManagerInvInit
<1>2. \A c \in Children : Counted(c)
  <2> SUFFICES ASSUME NEW c \in Children PROVE Counted(c)
    OBVIOUS
  <2>1. /\ Unread(c) /\ ~ eof[c] /\ pointer[c] = 0 /\ occurance[c] = 0
        /\ \A k \in 1 .. BufferSize : buffer[c][k] = Nul
    BY DEF Init, ChildInit, Unread
  <2>2. Begin(c) = 0 /\ 0 % BufferSize = 0
    BY <2>1, Sizes DEF Begin
  <2>3. Passed(c) = {}
    <3>1. TypeOK
      BY <1>1 DEF ManagerInv
    <3>2. \A k \in Visible(Searched, Pattern[c]) : ~ (k <= 0 + 0)
      BY <3>1, ChildTyped, VisibleFinite
    <3> QED BY <2>1, <2>2, <3>2 DEF Passed
  <2>4. Cardinality(Passed(c)) = 0
    BY <2>3, FS_EmptySet
  <2> QED BY <2>1, <2>2, <2>4 DEF Counted, BufferExact
<1>3. \A c \in Children : cpc[c] = "unborn" /\ occurance[c] = 0
  BY DEF Init, ChildInit
<1> QED BY <1>1, <1>2, <1>3 DEF IInv, BoundKept, InstancesCounted

LEMMA IInvNext == IInv /\ [Next]_vars => IInv'
BY ManagerInvNext, CountNext DEF IInv

-----------------------------------------------------------------------------
(* Without faults.                                                         *)

\* The shell is in the last row, which is in no slot.
LEMMA RowsInOrder ==
  ASSUME Started = 1 .. Shell, NEW s \in Slots
  PROVE  FirstRows(1)[s] = s + 1
<1>1. Shell \in Nat /\ s \in Nat /\ s + 1 \in 1 .. Shell
  BY Sizes
<1>2. \A p \in 1 .. Shell : Row(p, 1) = p
  <2> SUFFICES ASSUME NEW p \in 1 .. Shell PROVE Row(p, 1) = p
    OBVIOUS
  <2>1. {q \in 1 .. Shell : 1 <= q /\ q <= p} = 1 .. p
    BY <1>1
  <2>2. Cardinality(1 .. p) = p
    BY <1>1, FS_Interval
  <2>3. p >= 1
    BY <1>1
  <2> QED BY <2>1, <2>2, <2>3 DEF Row
<1> DEFINE found == {p \in Started : Row(p, 1) = s + 1}
<1>3. FirstRows(1)[s] = IF found = {} THEN None ELSE CHOOSE p \in found : TRUE
  BY DEF FirstRows
<1>4. found = {s + 1}
  BY <1>1, <1>2
<1> QED BY <1>3, <1>4

\* The child that left the list was the only one that did.
LEMMA TakeOutLists ==
  ASSUME ManagerInv, ListComplete, mpc = "wait", TakeOut, NEW now,
         cpc' = [cpc EXCEPT ![Waited] = now],
         now \in {"terminating", "reaped", "buried"}
  PROVE  ListComplete'
<1> DEFINE n == PIDsSize
           p == PIDsPointer
           kept(k) == IF k = n - 1 THEN p ELSE k
<1>1. /\ TypeOK /\ n \in 1 .. Len(Pattern) /\ p \in 0 .. n - 1
      /\ Slots = 0 .. Len(Pattern) - 1 /\ Len(Pattern) \in Nat
      /\ cpc \in [Children -> {"unborn", "running", "stopped", "terminating",
                               "exited", "reaped", "notStarted", "killed", "buried"}]
  BY Sizes DEF ManagerInv, TypeOK, ChildTypeOK, BeforeWait
<1>2. /\ Used = 0 .. n - 1 /\ Used' = 0 .. n - 2 /\ mpc' \in {"wait", "done"}
      /\ mpc' = "done" => PIDsSize' = 0
      /\ PIDs' = [PIDs EXCEPT ![p] = PIDs[n - 1], ![n - 1] = None]
      /\ DOMAIN PIDs = Slots
  BY <1>1 DEF Used, TakeOut, Last, TypeOK
<1>3. \A s \in 0 .. n - 2 : /\ s \in Slots /\ s \in 0 .. n - 1 /\ s # n - 1
                            /\ PIDs'[s] = IF s = p THEN PIDs[n - 1] ELSE PIDs[s]
  <2>1. \A s \in 0 .. n - 2 : s \in Slots /\ s \in 0 .. n - 1 /\ s # n - 1
    BY <1>1
  <2>2. p \in Slots /\ n - 1 \in Slots
    BY <1>1
  <2> HIDE DEF n, p
  <2> QED BY <1>2, <2>1, <2>2
<1>4. Waited = PIDs[p] /\ Waited \in Children
  BY <1>1, <1>2 DEF ListComplete, Waited
<1>5. \A s, t \in 0 .. n - 1 : s # t => PIDs[s] # PIDs[t]
  BY <1>2 DEF ManagerInv, SlotsExact, ListComplete
<1>6. \A d \in Children : cpc'[d] = IF d = Waited THEN now ELSE cpc[d]
  BY <1>1
\* Where the process in slot k is from, and where it goes.
<1>7. \A s \in 0 .. n - 2 :
        \E k \in 0 .. n - 1 : k # p /\ PIDs'[s] = PIDs[k]
  <2> SUFFICES ASSUME NEW s \in 0 .. n - 2
               PROVE  \E k \in 0 .. n - 1 : k # p /\ PIDs'[s] = PIDs[k]
    OBVIOUS
  <2>1. CASE s = p
    BY <1>1, <1>3, <2>1
  <2>2. CASE s # p
    BY <1>1, <1>3, <2>2
  <2> QED BY <2>1, <2>2
<1>8. \A k \in 0 .. n - 1 : k # p => \E s \in 0 .. n - 2 : PIDs'[s] = PIDs[k]
  <2> SUFFICES ASSUME NEW k \in 0 .. n - 1, k # p
               PROVE  \E s \in 0 .. n - 2 : PIDs'[s] = PIDs[k]
    OBVIOUS
  <2>1. CASE k = n - 1
    <3>1. p \in 0 .. n - 2
      BY <1>1, <2>1
    <3> QED BY <1>3, <2>1, <3>1
  <2>2. CASE k # n - 1
    <3>1. k \in 0 .. n - 2
      BY <1>1, <2>2
    <3> QED BY <1>3, <3>1
  <2> QED BY <2>1, <2>2
<1> HIDE DEF n, p
<1>9. ASSUME NEW d \in Children, cpc'[d] \in {"running", "stopped", "notStarted"}
      PROVE  \E s \in Used' : PIDs'[s] = d
  <2>1. d # Waited /\ cpc[d] = cpc'[d]
    BY <1>6, <1>9
  <2>2. PICK k \in 0 .. n - 1 : PIDs[k] = d
    BY <1>2, <1>9, <2>1 DEF ListComplete
  <2> QED BY <1>2, <1>4, <1>8, <2>1, <2>2
<1>10. ASSUME NEW s \in Used'
       PROVE  /\ PIDs'[s] \in Children
              /\ cpc'[PIDs'[s]] \in {"running", "stopped", "exited", "notStarted"}
  <2>1. PICK k \in 0 .. n - 1 : k # p /\ PIDs'[s] = PIDs[k]
    BY <1>2, <1>7
  <2>2. p \in 0 .. n - 1
    BY <1>1 DEF n, p
  <2>3. PIDs[k] # Waited
    BY <1>4, <1>5, <2>1, <2>2
  <2>4. PIDs[k] \in Children /\ cpc[PIDs[k]] \in {"running", "stopped", "exited", "notStarted"}
    BY <1>2 DEF ListComplete
  <2> QED BY <1>6, <2>1, <2>3, <2>4
<1>11. \A d \in Children : cpc'[d] \notin {"unborn", "killed"}
  BY <1>6 DEF ListComplete
<1> QED BY <1>2, <1>9, <1>10, <1>11 DEF ListComplete

LEMMA ListCompleteNext ==
  ASSUME Faults \subseteq {"start"}, ManagerInv, ListComplete, [Next]_vars
  PROVE  ListComplete'
<1>1. /\ TypeOK /\ ChildNews /\ BeforeWait /\ Children = 1 .. Len(Pattern)
      /\ Len(Pattern) \in Nat /\ PIDsSize \in Nat
      /\ cpc \in [Children -> {"unborn", "running", "stopped", "terminating",
                               "exited", "reaped", "notStarted", "killed", "buried"}]
  BY Sizes DEF ManagerInv, TypeOK, ChildTypeOK
<1>2. ~ Missing
  BY DEF ListComplete, Missing
\* waitpid is called for a child that it can report, and no other is reported.
<1>3. mpc = "wait" =>
        /\ Waited \in Children /\ Waited # None /\ Reportable = {Waited}
        /\ Shell \notin Reportable
        /\ cpc[Waited] \in {"running", "stopped", "exited", "notStarted"}
  <2>1. mpc = "wait" => PIDsPointer \in Used
    BY <1>1 DEF TypeOK, BeforeWait, Used, Slots
  <2>2. \A c \in Children : c # None /\ c # Shell
    BY <1>1 DEF None, Shell
  <2> QED BY <2>1, <2>2 DEF ListComplete, Waited, Reportable
<1>4. ASSUME NEW c \in Children, Child(c), UNCHANGED managerVars PROVE ListComplete'
  <2>1. /\ \A d \in Children \ {c} : cpc'[d] = cpc[d]
        /\ \/ cpc'[c] = cpc[c]
           \/ cpc[c] = "running" /\ cpc'[c] \in {"stopped", "exited", "notStarted"}
           \/ cpc[c] = "terminating" /\ cpc'[c] = "exited"
    BY <1>1, <1>4 DEF Child, StartFails, Fread, StopAtInstance, Handler, Crash
  <2> QED BY <2>1, <1>4 DEF ListComplete, managerVars, Used
<1>5. CASE UNCHANGED vars
  BY <1>5 DEF vars, childVars, managerVars, ListComplete, Used
<1>6. CASE Fork
  <2>1. /\ mpc = "fork" /\ mpc' \in {"fork", "list"} /\ PIDsSize' = PIDsSize + 1
        /\ mpc' = "list" => PIDsSize + 1 = Len(Pattern)
        /\ cpc' = [cpc EXCEPT ![PIDsSize + 1] = "running"]
    BY <1>6 DEF Fork
  <2>2. \A d \in Children : cpc'[d] = IF d = PIDsSize + 1 THEN "running" ELSE cpc[d]
    BY <1>1, <2>1
  <2>3. \A d \in Children : mpc' = "list" \/ d <= PIDsSize' => d <= PIDsSize \/ d = PIDsSize + 1
    BY <1>1, <2>1
  <2>4. \A d \in Children : /\ cpc'[d] # "killed"
                            /\ mpc' # "fork" \/ d <= PIDsSize' => cpc'[d] # "unborn"
    BY <2>1, <2>2, <2>3 DEF ListComplete
  <2> QED BY <2>1, <2>4 DEF ListComplete
<1>7. CASE InsertChildsToAnArray
  <2>1. /\ mpc = "list" /\ mpc' = (IF PIDsSize = 0 THEN "done" ELSE "wait")
        /\ UNCHANGED <<cpc, PIDsSize>>
        /\ PIDs' = FirstRows(1) /\ PIDsSize = Len(Pattern)
    BY <1>1, <1>7 DEF InsertChildsToAnArray, childVars, BeforeWait
  <2>2. Started = 1 .. Shell /\ \A c \in Children : cpc[c] \notin {"unborn", "killed"}
    BY <1>1, <2>1 DEF ListComplete, Started, Shell
  <2>3. Used' = Slots /\ Slots = 0 .. Len(Pattern) - 1
    BY <2>1 DEF Used, Slots
  <2>4. \A s \in Slots : PIDs'[s] = s + 1
    BY <2>1, <2>2, RowsInOrder
  <2>5. \A c \in Children : c - 1 \in Slots /\ PIDs'[c - 1] = c
    BY <1>1, <2>3, <2>4
  <2>6. \A s \in Slots : PIDs'[s] \in Children
    BY <1>1, <2>3, <2>4
  <2>7. \A c \in Children : cpc[c] \in {"running", "stopped", "exited", "notStarted"}
    BY <1>1, <2>1, <2>2 DEF ListComplete
  <2> QED BY <2>1, <2>2, <2>3, <2>5, <2>6, <2>7 DEF ListComplete
<1>8. CASE WaitExited
  <2>1. /\ mpc = "wait" /\ TakeOut
        /\ \E now \in {"reaped", "buried"} : cpc' = [cpc EXCEPT ![Waited] = now]
    BY <1>1, <1>3, <1>8 DEF WaitExited
  <2> QED BY <2>1, TakeOutLists
<1>9. CASE TerminateChild
  <2>1. mpc = "wait" /\ TakeOut /\ cpc' = [cpc EXCEPT ![Waited] = "terminating"]
    BY <1>9 DEF TerminateChild, WaitStopped, AfterSIGTERMAndSIGCONT
  <2> QED BY <2>1, TakeOutLists
<1>10. CASE ContinueChild
  <2>1. /\ mpc = "wait" /\ cpc[Waited] = "stopped"
        /\ cpc' = [d \in Children |-> IF d = Waited THEN "running" ELSE cpc[d]]
        /\ UNCHANGED <<mpc, PIDs, PIDsSize>>
    BY <1>1, <1>3, <1>10 DEF ContinueChild, WaitStopped, ChildNews
  <2> QED BY <2>1 DEF ListComplete, Used
<1>11. CASE WaitContinued
  BY <1>11 DEF WaitContinued, managerVars, ListComplete, Used
<1>12. ~ TerminateGroup /\ ~ WaitSignaled /\ ~ WaitFails
  BY <1>3 DEF TerminateGroup, WaitStopped, WaitSignaled, WaitFails, ListComplete
<1> QED BY <1>4, <1>5, <1>6, <1>7, <1>8, <1>9, <1>10, <1>11, <1>12 DEF Next, Manager

-----------------------------------------------------------------------------
(* Theorems.                                                               *)

\* IInv holds in every state: ex1's manager, whatever ps lists and whatever fails,
\* keeps its arrays in step with the children, and each child has counted what is
\* up to its pointer.
THEOREM Invariance == Spec => []IInv
<1> QED BY IInvInit, IInvNext, PTL DEF Spec

\* For every pattern, file and bound no child is ever in two slots of the
\* manager's arrays, and if every fork succeeded each slot has the number of
\* stops of its own process, through every move and whatever dies.
THEOREM SlotsAlwaysExact == Spec => []SlotsExact
<1>1. IInv => SlotsExact
  BY DEF IInv, ManagerInv
<1> QED BY <1>1, Invariance, PTL

\* For every file, pattern, size of the buffer and bound: a child that ends has
\* counted the instances of its symbol, and those that the short read left in the
\* buffer again, up to a 0 in each buffer; exactly, or the bound, if every fork
\* succeeded, and never more, whatever the manager and the other children do.
THEOREM InstancesAlwaysCounted == Spec => []InstancesCounted
<1>1. IInv => InstancesCounted
  BY DEF IInv
<1> QED BY <1>1, Invariance, PTL

\* If pids do not wrap, no fork fails and no child dies of a signal, whatever the
\* file, the pattern and the bound, nothing disturbs the manager and it leaves
\* nobody behind: what AllEnd takes for granted to promise an end is what sym_mng.c
\* keeps up for itself, slot by slot, even if children fail to start.
THEOREM NobodyLeftBehind ==
  ASSUME Faults \subseteq {"start"}
  PROVE  Spec => []NobodyLeft
<1>1. Init => ListComplete
  <2>1. Init => /\ mpc \in {"fork", "list"} /\ PIDsSize = 0
                /\ \A c \in Children : cpc[c] = "unborn"
                /\ mpc = "list" => Children = {}
    BY DEF Init, ChildInit, Children
  <2>2. \A c \in Children : ~ (c <= 0)
    BY Sizes
  <2> QED BY <2>1, <2>2 DEF ListComplete
<1>2. IInv /\ ListComplete /\ [Next]_vars => ListComplete'
  BY ListCompleteNext DEF IInv
<1>3. IInv /\ ListComplete => NobodyLeft
  <2> SUFFICES ASSUME IInv, ListComplete PROVE NobodyLeft
    OBVIOUS
  <2>1. \A c \in Children : news[c] = "stopped" => cpc[c] = "stopped"
    BY DEF IInv, ManagerInv, ChildNews
  <2>2. Undisturbed
    BY <2>1 DEF ListComplete, Undisturbed, Missing
  <2>3. ASSUME mpc = "done", NEW c \in Children
        PROVE  cpc[c] \in {"terminating", "exited", "reaped", "buried"}
    <3>1. Used = {}
      BY <2>3 DEF ListComplete, Used
    <3> QED BY <2>3, <3>1 DEF ListComplete, IInv, ManagerInv, TypeOK, ChildTypeOK
  <2> QED BY <2>2, <2>3 DEF NobodyLeft, ListComplete
<1> QED BY <1>1, <1>2, <1>3, Invariance, PTL DEF Spec
=============================================================================
