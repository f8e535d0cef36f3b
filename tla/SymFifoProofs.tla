---------------------------- MODULE SymFifoProofs -----------------------------
(***************************************************************************)
(* Proofs about SymFifo, for every pattern and all faults.                 *)
(***************************************************************************)
EXTENDS SymFifo, TLAPS

\* The list after a symbol was taken from it, element by element (the for loop
\* that moves the last symbol to the place of the one that was read).
LEMMA ListMoved ==
  ASSUME NEW S, query \in Seq(S), query # << >>
  PROVE  /\ LastMoved \in Seq(S)
         /\ Len(LastMoved) = Len(query) - 1
         /\ \A i \in 1 .. Len(query) - 1 :
              LastMoved[i] = IF i = 1 THEN query[Len(query)] ELSE query[i]
<1> DEFINE n == Len(query)
           moved == [query EXCEPT ![1] = query[n]]
<1>1. n \in Nat \ {0}
  OBVIOUS
<1>2. moved \in Seq(S) /\ Len(moved) = n
  BY <1>1
<1>3. \A i \in 1 .. n : moved[i] = IF i = 1 THEN query[n] ELSE query[i]
  BY <1>1
<1>4. LastMoved = SubSeq(moved, 1, n - 1)
  BY <1>2 DEF LastMoved, Front, Last
<1> HIDE DEF moved
<1> QED BY <1>1, <1>2, <1>3, <1>4

\* Taking a symbol from a list without repetition leaves the others, each once.
LEMMA ListWithoutSymbol ==
  ASSUME NEW S, query \in Seq(S), query # << >>, IsInjective(query)
  PROVE  IsInjective(LastMoved) /\ Range(LastMoved) = Range(query) \ {Symbol}
<1> DEFINE n == Len(query)
<1>1. n \in Nat \ {0} /\ DOMAIN query = 1 .. n
  OBVIOUS
<1>2. /\ DOMAIN LastMoved = 1 .. n - 1
      /\ \A i \in 1 .. n - 1 :
           LastMoved[i] = IF i = 1 THEN query[n] ELSE query[i]
  BY ListMoved
<1>3. \A i, j \in 1 .. n : query[i] = query[j] => i = j
  BY <1>1 DEF IsInjective
<1>4. Symbol = query[1]
  BY DEF Symbol
<1> HIDE DEF n
<1>5. IsInjective(LastMoved)
  <2> SUFFICES ASSUME NEW i \in 1 .. n - 1, NEW j \in 1 .. n - 1,
                      LastMoved[i] = LastMoved[j]
               PROVE  i = j
    BY <1>2 DEF IsInjective
  <2> QED BY <1>1, <1>2, <1>3
<1>6. Range(LastMoved) \subseteq Range(query) \ {Symbol}
  <2> SUFFICES ASSUME NEW i \in 1 .. n - 1
               PROVE  LastMoved[i] \in Range(query) /\ LastMoved[i] # Symbol
    BY <1>2 DEF Range
  <2>1. CASE i = 1
    BY <1>1, <1>2, <1>3, <1>4, <2>1 DEF Range
  <2>2. CASE i # 1
    BY <1>1, <1>2, <1>3, <1>4, <2>2 DEF Range
  <2> QED BY <2>1, <2>2
<1>7. Range(query) \ {Symbol} \subseteq Range(LastMoved)
  <2> SUFFICES ASSUME NEW i \in 1 .. n, i # 1
               PROVE  \E j \in 1 .. n - 1 : query[i] = LastMoved[j]
    BY <1>1, <1>2, <1>4 DEF Range
  <2>1. CASE i = n
    BY <1>1, <1>2, <2>1
  <2>2. CASE i # n
    BY <1>1, <1>2, <2>2
  <2> QED BY <2>1, <2>2
<1> QED BY <1>5, <1>6, <1>7

-----------------------------------------------------------------------------
(* The inductive invariant.                                                *)

\* The places of the pattern, and what tells FIFOs from none.
LEMMA Places ==
  /\ Len(Pattern) \in Nat
  /\ \A c \in Children : c \in Int /\ c # None /\ c # OtherFifo /\ Pattern[c] \in Symbols
  /\ \A n \in Int : n \in Children <=> 1 <= n /\ n <= Len(Pattern)
  /\ OtherFifo # None /\ OtherFifo \notin Children
BY PatternAssumption DEF Children, Symbols, None, OtherFifo

\* The manager begins with the whole pattern, and nobody has reported.
LEMMA IInvInit == Init => IInv
<1> SUFFICES ASSUME Init PROVE IInv
  OBVIOUS
<1>1. Len(Pattern) \in Nat
  BY PatternAssumption
<1>2. Pattern # << >> => 0 < Len(Pattern)
  BY PatternAssumption
<1>3. TypeOK
  BY <1>1, PatternAssumption DEF Init, TypeOK, NoFifos
<1>4. Forking
  BY <1>2 DEF Init, Forking
<1>5. ListExact
  <2> SUFFICES ASSUME Pattern = << >>
               PROVE  /\ query = << >> /\ Children = {}
                      /\ Range(query) = {s \in Symbols : reported[s] = Nothing}
    BY DEF Init, ListExact
  <2>1. query = << >> /\ Symbols = {} /\ Children = {}
    BY DEF Init, Symbols, Children
  <2> QED BY <2>1 DEF Range
<1>6. LinesInOrder
  <2>1. Nothing \notin OwnLines
    BY DEF Nothing, OwnLines
  <2> QED BY <2>1, Places DEF Init, LinesInOrder, NoFifos, Fifos
<1>7. Unborn
  BY DEF Init, Unborn
<1> QED BY <1>3, <1>4, <1>5, <1>6, <1>7 DEF IInv

\* Reading a line takes the symbol from the list.
LEMMA TakesOut ==
  ASSUME TypeOK, mpc = "read", NEW line \in OwnLines \cup {"other's"}, TakeOut(line)
  PROVE  /\ query # << >> /\ query \in Seq(Symbols) /\ Symbol \in Symbols
         /\ query' = LastMoved /\ query' \in Seq(Symbols)
         /\ mpc' \in {"open", "done"}
         /\ mpc' = "open" => query' # << >>
         /\ mpc' = "done" => query' = << >>
         /\ fifo' \in [Symbols -> Fifos \cup {None}]
         /\ \A s \in Symbols : fifo'[s] \in {fifo[s], None}
         /\ reported' = [reported EXCEPT ![Symbol] = line]
         /\ pipe' = [pipe EXCEPT ![mfd] = Nothing]
         /\ mfd' = None
         /\ UNCHANGED <<forked, held, childVars>>
<1>1. query # << >> /\ query \in Seq(Symbols)
  BY DEF TypeOK
<1>2. Symbol \in Symbols
  BY <1>1 DEF Symbol
<1>3. LastMoved \in Seq(Symbols) /\ Len(LastMoved) = Len(query) - 1
  BY <1>1, ListMoved
<1>4. /\ LastLine => LastMoved = << >>
      /\ ~ LastLine => LastMoved # << >>
  <2>1. Len(query) \in Nat \ {0}
    BY <1>1
  <2>2. Len(LastMoved) = 0 => LastMoved = << >>
    BY <1>3
  <2>3. ~ LastLine => Len(LastMoved) # 0
    BY <1>3, <2>1 DEF LastLine
  <2>4. LastLine => Len(LastMoved) = 0
    BY <1>3, <2>1 DEF LastLine
  <2> QED BY <2>2, <2>3, <2>4
<1>5. CASE LastLine
  BY <1>1, <1>2, <1>3, <1>4, <1>5 DEF TakeOut, NoFifos, TypeOK
<1>6. CASE ~ LastLine
  BY <1>1, <1>2, <1>3, <1>4, <1>6 DEF TakeOut, TypeOK
<1> QED BY <1>5, <1>6

\* A line is read from a FIFO that is open.
LEMMA LineRead ==
  ASSUME TypeOK, ReadLine \/ ReadOtherLine
  PROVE  /\ mpc = "read" /\ mfd \in Fifos
         /\ \E line \in OwnLines \cup {"other's"} :
              TakeOut(line) /\ (line = "other's" \/ line = pipe[mfd])
<1>1. mpc = "read" /\ mfd \in Fifos
  BY DEF TypeOK, ReadLine, ReadOtherLine
<1>2. CASE ReadLine
  BY <1>1, <1>2 DEF TypeOK, ReadLine
<1>3. CASE ReadOtherLine
  BY <1>3, <1>1 DEF ReadOtherLine
<1> QED BY <1>1, <1>2, <1>3

\* Types.
LEMMA TypesNext ==
  ASSUME IInv, [Next]_vars
  PROVE  TypeOK'
<1> USE DEF childVars
<1>0. TypeOK /\ Forking
  BY DEF IInv
<1>1. Len(Pattern) \in Nat /\ (forked + 1 \in 1 .. Len(Pattern) =>
        /\ Pattern[forked + 1] \in Symbols /\ forked + 1 \in Children
        /\ forked + 1 \in Fifos)
  BY PatternAssumption DEF Symbols, Children, Fifos
<1>2. CASE Fork
  <2>1. forked + 1 \in 1 .. Len(Pattern)
    BY <1>0, <1>1, <1>2 DEF TypeOK, Forking, Fork
  <2> QED BY <1>0, <1>1, <1>2, <2>1 DEF TypeOK, Forking, Fork
<1>3. CASE MkfifoFails \/ ForkFails
  BY <1>0, <1>3 DEF TypeOK, MkfifoFails, ForkFails, ExitWithError, NoFifos
<1>4. CASE OpenFifo
  <2>1. Symbol \in Symbols
    BY <1>0, <1>4 DEF TypeOK, OpenFifo, Symbol
  <2> QED BY <1>0, <1>4, <2>1 DEF TypeOK, OpenFifo
<1>5. CASE OpenFifoFails \/ OpenedByOther
  BY <1>0, <1>5 DEF TypeOK, OpenFifoFails, OpenedByOther, vars
<1>6. CASE ReadEof
  <2>1. mfd \in Fifos /\ held' \subseteq Children
    BY <1>0, <1>6 DEF TypeOK, ReadEof, Fifos
  <2> QED BY <1>0, <1>6, <2>1 DEF TypeOK, ReadEof
<1>7. CASE ReadLine \/ ReadOtherLine
  <2>1. /\ mpc = "read" /\ mfd \in Fifos
        /\ \E line \in OwnLines \cup {"other's"} : TakeOut(line)
    BY <1>0, <1>7, LineRead
  <2>2. PICK line \in OwnLines \cup {"other's"} : TakeOut(line)
    BY <2>1
  <2> QED BY <1>0, <2>1, <2>2, TakesOut DEF TypeOK
<1>8. CASE ManagerHandler
  BY <1>0, <1>8 DEF TypeOK, ManagerHandler, NoFifos
<1>9. CASE OtherManager
  BY <1>0, <1>9 DEF TypeOK, OtherManager, NoFifos, Fifos
<1>10. ASSUME NEW c \in Children, Child(c)
       PROVE  TypeOK'
  <2>1. Pattern[c] \in Symbols
    BY DEF Symbols
  <2>2. CASE Start(c)
    BY <1>0, <2>1, <2>2 DEF TypeOK, Start
  <2>3. CASE StartFails(c) \/ ExecFails(c) \/ CountFails(c) \/ OtherGone(c)
    BY <1>0, <2>3 DEF TypeOK, StartFails, ExecFails, CountFails, OtherGone, NoFifos
  <2>4. CASE WriteLine(c)
    BY <1>0, <2>4 DEF TypeOK, WriteLine, Write, Line, OwnLines
  <2>5. CASE FifoOpened(c) \/ ManagerThere(c) \/ OtherThere(c)
    BY <1>0, <2>5 DEF TypeOK, FifoOpened, ManagerThere, OtherThere
  <2>6. CASE ChildHandler(c)
    <3>1. fifo' \in [Symbols -> Fifos \cup {None}]
      BY <1>0, <2>6 DEF TypeOK, ChildHandler, NoFifos
    <3>2. pipe' \in [Fifos -> OwnLines \cup {Nothing}]
      BY <1>0, <2>6 DEF TypeOK, ChildHandler, Write, OwnLines
    <3> QED BY <1>0, <2>6, <3>1, <3>2 DEF TypeOK, ChildHandler
  <2> QED BY <1>10, <2>2, <2>3, <2>4, <2>5, <2>6 DEF Child
<1>11. CASE UNCHANGED vars
  BY <1>0, <1>11 DEF TypeOK, vars
<1> QED BY <1>2, <1>3, <1>4, <1>5, <1>6, <1>7, <1>8, <1>9, <1>10, <1>11 DEF Next, Manager

\* Steps of anybody but the manager, and failures of it, leave its list alone.
QuietStep ==
  /\ UNCHANGED <<query, reported, forked>>
  /\ \/ mpc' \in {mpc, "failed"}
     \/ {mpc, mpc'} \subseteq {"open", "opening", "read"}
  /\ \A c \in Children : cpc[c] \in {"unborn", "ended"} => cpc'[c] = cpc[c]

LEMMA QuietSteps ==
  ASSUME TypeOK, [Next]_vars
  PROVE  Fork \/ ReadLine \/ ReadOtherLine \/ QuietStep
<1> USE DEF QuietStep, childVars
<1>1. CASE MkfifoFails \/ ForkFails \/ OtherManager
  BY <1>1 DEF MkfifoFails, ForkFails, ExitWithError, OtherManager
<1>2. CASE ManagerHandler
  BY <1>2 DEF ManagerHandler
<1>3. CASE OpenFifo \/ OpenFifoFails \/ OpenedByOther \/ ReadEof
  BY <1>3 DEF OpenFifo, OpenFifoFails, OpenedByOther, ReadEof, vars
<1>4. ASSUME NEW c \in Children, Child(c) PROVE QuietStep
  <2>1. cpc \in [Children -> {"unborn", "start", "opening", "counting", "ended"}]
    BY DEF TypeOK
  <2>2. CASE Start(c)
    BY <2>1, <2>2 DEF Start
  <2>3. CASE StartFails(c) \/ ExecFails(c) \/ CountFails(c) \/ OtherGone(c)
    BY <2>1, <2>3 DEF StartFails, ExecFails, CountFails, OtherGone
  <2>4. CASE FifoOpened(c)
    BY <2>1, <2>4 DEF FifoOpened
  <2>5. CASE ManagerThere(c) \/ OtherThere(c)
    BY <2>1, <2>5 DEF ManagerThere, OtherThere
  <2>6. CASE WriteLine(c) \/ ChildHandler(c)
    BY <2>1, <2>6 DEF WriteLine, ChildHandler
  <2> QED BY <1>4, <2>2, <2>3, <2>4, <2>5, <2>6 DEF Child
<1>5. CASE UNCHANGED vars
  BY <1>5 DEF vars
<1> QED BY <1>1, <1>2, <1>3, <1>4, <1>5 DEF Next, Manager

\* Only a fork brings a child to life, and an ended one stays so.
LEMMA ChildrenNext ==
  ASSUME IInv, [Next]_vars
  PROVE  /\ Unborn'
         /\ \A c \in Children : cpc[c] = "ended" => cpc'[c] = "ended"
         /\ \A s : Ended(s) => Ended(s)'
<1>0. TypeOK /\ Unborn /\ Forking
  BY DEF IInv
<1>1. /\ cpc \in [Children -> {"unborn", "start", "opening", "counting", "ended"}]
      /\ forked \in Int /\ \A c \in Children : c \in Int
  BY <1>0, Places DEF TypeOK
<1>2. Unborn' /\ \A c \in Children : cpc[c] = "ended" => cpc'[c] = "ended"
  <2>1. CASE Fork
    <3>1. forked + 1 \in Children /\ cpc[forked + 1] = "unborn"
      BY <1>0, <1>1, <2>1, Places DEF Fork, Forking, TypeOK, Unborn
    <3>2. \A c \in Children : c > forked + 1 => c > forked /\ c # forked + 1
      BY <1>1
    <3> QED BY <1>0, <1>1, <2>1, <3>1, <3>2 DEF Fork, Unborn
  <2>2. CASE ReadLine \/ ReadOtherLine
    <3>1. PICK line \in OwnLines \cup {"other's"} : TakeOut(line)
      BY <1>0, <2>2, LineRead
    <3> QED BY <1>0, <3>1 DEF TakeOut, Unborn, childVars
  <2>3. CASE QuietStep
    BY <1>0, <2>3 DEF QuietStep, Unborn
  <2> QED BY <1>0, <2>1, <2>2, <2>3, QuietSteps
<1> QED BY <1>2 DEF Ended

\* FIFOs are opened for their own symbols, and own lines are of children that ended.
LEMMA LinesNext ==
  ASSUME IInv, [Next]_vars
  PROVE  LinesInOrder'
<1> USE DEF childVars
<1>0. TypeOK /\ LinesInOrder /\ Forking
  BY DEF IInv
<1>1. /\ cpc \in [Children -> {"unborn", "start", "opening", "counting", "ended"}]
      /\ cfd \in [Children -> Fifos \cup {None}] /\ fifo \in [Symbols -> Fifos \cup {None}]
      /\ pipe \in [Fifos -> OwnLines \cup {Nothing}]
      /\ reported \in [Symbols -> OwnLines \cup {"other's", Nothing}]
      /\ Nothing \notin OwnLines /\ "other's" \notin OwnLines
      /\ Children \subseteq Fifos /\ OtherFifo \in Fifos /\ OtherFifo \notin Children
      /\ None \notin Children /\ None # OtherFifo
      /\ \A c \in Children : Pattern[c] \in Symbols
  BY <1>0, Places DEF TypeOK, OwnLines, Nothing, Fifos
<1>2. \A s : Ended(s) => Ended(s)'
  BY ChildrenNext
\* Steps that open no FIFO and write no line.
<1>3. ASSUME \A s \in Symbols : fifo'[s] \in Children => fifo'[s] = fifo[s],
             mpc' \in {"opening", "read"} =>
               mpc \in {"opening", "read"} /\ UNCHANGED <<query, mfd>>,
             \A f \in Fifos : pipe'[f] \in {pipe[f], Nothing},
             UNCHANGED <<cfd, reported>>
      PROVE  LinesInOrder'
  BY <1>0, <1>1, <1>2, <1>3 DEF LinesInOrder, Symbol
<1>4. CASE Fork
  <2>1. forked + 1 \in Children /\ Pattern[forked + 1] \in Symbols
    BY <1>0, <1>4, Places DEF TypeOK, Fork, Forking
  <2>2. /\ \A s \in Symbols : fifo'[s] \in Children => Pattern[fifo'[s]] = s
        /\ mpc' \in {"fork", "open"} /\ UNCHANGED <<cfd, pipe, reported>>
    BY <1>0, <1>1, <1>4, <2>1 DEF Fork, LinesInOrder
  <2> QED BY <1>0, <1>1, <1>2, <2>2 DEF LinesInOrder
<1>5. CASE MkfifoFails \/ ForkFails \/ ManagerHandler
  BY <1>1, <1>3, <1>5 DEF MkfifoFails, ForkFails, ManagerHandler, ExitWithError, NoFifos
<1>6. CASE OpenFifo
  <2>1. Symbol \in Symbols
    BY <1>0, <1>6 DEF TypeOK, OpenFifo, Symbol
  <2> QED BY <1>0, <1>1, <1>2, <1>6, <2>1 DEF OpenFifo, LinesInOrder, Symbol
<1>7. CASE OpenFifoFails \/ OpenedByOther \/ ReadEof \/ UNCHANGED vars
  BY <1>1, <1>3, <1>7 DEF OpenFifoFails, OpenedByOther, ReadEof, vars
<1>8. CASE ReadLine \/ ReadOtherLine
  <2>1. PICK line \in OwnLines \cup {"other's"} :
          TakeOut(line) /\ (line = "other's" \/ line = pipe[mfd])
    BY <1>0, <1>8, LineRead
  <2>2. mpc = "read" /\ mfd \in Fifos
    BY <1>0, <1>8, LineRead
  <2>3. /\ Symbol \in Symbols /\ mpc' \in {"open", "done"}
        /\ \A s \in Symbols : fifo'[s] \in {fifo[s], None}
        /\ reported' = [reported EXCEPT ![Symbol] = line]
        /\ pipe' = [pipe EXCEPT ![mfd] = Nothing]
        /\ UNCHANGED cfd
    BY <1>0, <2>1, <2>2, TakesOut
  <2>4. line \in OwnLines => Ended(Symbol)
    <3> SUFFICES ASSUME line = pipe[mfd], line \in OwnLines PROVE Ended(Symbol)
      BY <1>1, <2>1
    <3>1. mfd \in Children
      BY <1>0, <1>1, <2>2 DEF LinesInOrder, Fifos
    <3> QED BY <1>0, <1>1, <2>2, <3>1 DEF LinesInOrder
  <2>5. \A s \in Symbols : reported'[s] \in OwnLines => Ended(s)
    BY <1>0, <1>1, <2>3, <2>4 DEF LinesInOrder
  <2> QED BY <1>0, <1>1, <1>2, <2>3, <2>5 DEF LinesInOrder
<1>9. CASE OtherManager
  BY <1>1, <1>3, <1>9 DEF OtherManager, NoFifos
<1>10. ASSUME NEW c \in Children, Child(c)
       PROVE  LinesInOrder'
  <2>1. CASE Start(c)
    <3>1. \A d \in Children : cfd'[d] \in Children =>
            cfd'[d] = cfd[d] \/ (d = c /\ cfd'[d] = fifo[Pattern[c]])
      BY <1>1, <2>1 DEF Start
    <3>2. \A d \in Children : cfd'[d] \in Children => Pattern[cfd'[d]] = Pattern[d]
      BY <1>0, <1>1, <3>1 DEF LinesInOrder
    <3> QED BY <1>0, <1>1, <1>2, <2>1, <3>2 DEF Start, LinesInOrder, Symbol
  <2>2. CASE StartFails(c) \/ ExecFails(c) \/ CountFails(c) \/ OtherGone(c)
    BY <1>1, <1>3, <2>2 DEF StartFails, ExecFails, CountFails, OtherGone, NoFifos
  <2>3. CASE FifoOpened(c) \/ ManagerThere(c) \/ OtherThere(c)
    BY <1>1, <1>3, <2>3 DEF FifoOpened, ManagerThere, OtherThere
  <2>4. CASE WriteLine(c) \/ ChildHandler(c)
    <3>1. /\ UNCHANGED <<mpc, mfd, query, cfd, reported>>
          /\ \A s \in Symbols : fifo'[s] \in Children => fifo'[s] = fifo[s]
          /\ cpc' = [cpc EXCEPT ![c] = "ended"]
      BY <1>1, <2>4 DEF WriteLine, ChildHandler, NoFifos
    <3>2. Ended(Pattern[c])'
      BY <1>1, <3>1 DEF Ended
    <3>3. \A f \in Fifos : pipe'[f] = pipe[f] \/ (f # OtherFifo /\ f = cfd[c])
      BY <1>1, <2>4 DEF WriteLine, ChildHandler, Write
    <3>4. \A f \in Children : pipe'[f] # Nothing => Ended(Pattern[f])'
      BY <1>0, <1>1, <1>2, <3>2, <3>3 DEF LinesInOrder
    <3> QED BY <1>0, <1>1, <1>2, <3>1, <3>3, <3>4 DEF LinesInOrder, Symbol
  <2> QED BY <1>10, <2>1, <2>2, <2>3, <2>4 DEF Child
<1> QED BY <1>4, <1>5, <1>6, <1>7, <1>8, <1>9, <1>10 DEF Next, Manager

\* A step of the program preserves the invariant.
LEMMA IInvNext ==
  ASSUME IInv, [Next]_vars
  PROVE  IInv'
<1>0. TypeOK /\ ListExact /\ Forking
  BY DEF IInv
<1>1. TypeOK' /\ LinesInOrder' /\ Unborn'
  BY TypesNext, LinesNext, ChildrenNext
\* A line of its own children is of a child that ended.
<1>2. IsInjective(Pattern) =>
        \A c \in Children : reported'[Pattern[c]] \in OwnLines => cpc'[c] = "ended"
  <2> SUFFICES ASSUME IsInjective(Pattern), NEW c \in Children,
                      reported'[Pattern[c]] \in OwnLines
               PROVE  cpc'[c] = "ended"
    OBVIOUS
  <2>1. PICK d \in Children : Pattern[d] = Pattern[c] /\ cpc'[d] = "ended"
    BY <1>1, Places DEF LinesInOrder, Ended
  <2>2. d = c
    <3>1. DOMAIN Pattern = Children
      BY PatternAssumption DEF Children
    <3> QED BY <2>1, <3>1 DEF IsInjective
  <2> QED BY <2>1, <2>2
<1>3. CASE QuietStep
  BY <1>0, <1>1, <1>2, <1>3 DEF IInv, QuietStep, ListExact, Forking
<1>4. CASE Fork
  <2>1. Forking'
    BY <1>0, <1>4, Places DEF Fork, Forking, TypeOK
  <2>2. IsInjective(Pattern) => ListExact'
    <3>1. Range(Pattern) = Symbols
      BY PatternAssumption DEF Range, Symbols, Children
    <3> QED BY <1>0, <1>2, <1>4, <3>1 DEF Fork, Forking, ListExact
  <2> QED BY <1>1, <2>1, <2>2 DEF IInv, ListExact
<1>5. CASE ReadLine \/ ReadOtherLine
  <2>0. PICK line \in OwnLines \cup {"other's"} : TakeOut(line)
    BY <1>0, <1>5, LineRead
  <2>1. /\ mpc = "read" /\ query # << >> /\ query \in Seq(Symbols) /\ Symbol \in Symbols
        /\ mpc' \in {"open", "done"} /\ query' = LastMoved
        /\ mpc' = "done" => query' = << >>
        /\ reported' = [reported EXCEPT ![Symbol] = line]
    BY <1>0, <1>5, <2>0, LineRead, TakesOut
  <2>2. Forking'
    BY <2>1 DEF Forking
  <2>3. ASSUME IsInjective(Pattern)
        PROVE  IsInjective(query') /\ Range(query') = {s \in Symbols : reported'[s] = Nothing}
    <3>1. IsInjective(query) /\ Range(query) = {s \in Symbols : reported[s] = Nothing}
      BY <1>0, <2>1, <2>3 DEF ListExact
    <3>2. IsInjective(LastMoved) /\ Range(LastMoved) = Range(query) \ {Symbol}
      BY <2>1, <3>1, ListWithoutSymbol
    <3>3. \A s \in Symbols :
            reported'[s] = Nothing <=> s # Symbol /\ reported[s] = Nothing
      BY <1>0, <2>1 DEF TypeOK, OwnLines, Nothing
    <3> QED BY <2>1, <3>1, <3>2, <3>3
  <2> QED BY <1>1, <1>2, <2>1, <2>2, <2>3 DEF IInv, ListExact
<1> QED BY <1>0, <1>3, <1>4, <1>5, QuietSteps

-----------------------------------------------------------------------------
(* Without faults.                                                         *)

LEMMA PatternPlaces ==
  ASSUME IsInjective(Pattern)
  PROVE  /\ Len(Pattern) \in Nat /\ Children = 1 .. Len(Pattern)
         /\ \A c, d \in Children : Pattern[c] = Pattern[d] => c = d
         /\ \A c \in Children : Pattern[c] \in Symbols
         /\ \A s \in Symbols : \E c \in Children : Pattern[c] = s
<1>1. Len(Pattern) \in Nat /\ DOMAIN Pattern = Children /\ Children = 1 .. Len(Pattern)
  BY PatternAssumption DEF Children
<1>2. \A c, d \in Children : Pattern[c] = Pattern[d] => c = d
  BY <1>1 DEF IsInjective
<1> QED BY <1>1, <1>2 DEF Symbols

\* The symbol the manager is at is one for which no line was read.
LEMMA SymbolOpen ==
  ASSUME IInv, IsInjective(Pattern), mpc \in {"open", "opening", "read"}
  PROVE  Symbol \in Symbols /\ reported[Symbol] = Nothing
<1>1. query \in Seq(Symbols) /\ query # << >>
  BY DEF IInv, TypeOK
<1>2. Symbol \in Range(query)
  BY <1>1 DEF Symbol, Range
<1> QED BY <1>2 DEF IInv, ListExact

\* The FIFO that the manager has opened is that of the child of its symbol.
LEMMA OwnFifoOpen ==
  ASSUME IInv, Meeting, mpc \in {"opening", "read"}
  PROVE  mfd \in Children /\ Pattern[mfd] = Symbol
<1>1. mfd \in Children
  BY DEF IInv, TypeOK, Meeting, Fifos
<1> QED BY <1>1 DEF IInv, LinesInOrder

LEMMA MeetingInit == Init => Meeting
<1> SUFFICES ASSUME Init PROVE Meeting
  OBVIOUS
<1>1. /\ forked = 0 /\ mpc \in {"fork", "done"} /\ held = {}
      /\ mpc = "done" => Pattern = << >>
      /\ \A s \in Symbols : fifo[s] = 0
  BY DEF Init, NoFifos, None
<1>2. Len(Pattern) \in Nat /\ (Pattern = << >> => Len(Pattern) = 0)
  BY PatternAssumption
<1>3. ASSUME NEW c \in Children PROVE InTouch(c)
  <2>1. c > 0 /\ ~ (c <= 0) /\ Pattern[c] \in Symbols /\ c \in Fifos
    BY <1>2 DEF Children, Symbols, Fifos
  <2>2. cpc[c] = "unborn" /\ pipe[c] = Nothing /\ reported[Pattern[c]] = Nothing
    BY <2>1 DEF Init
  <2> QED BY <1>1, <2>1, <2>2 DEF InTouch
<1>4. \A s \in Symbols : fifo[s] \in 0 .. forked
  BY <1>1
<1> QED BY <1>1, <1>2, <1>3, <1>4 DEF Meeting

\* What is said of a child stays when nothing of it changes.
LEMMA StaysInTouch ==
  ASSUME NEW c \in Children, InTouch(c),
         cpc'[c] = cpc[c], cfd'[c] = cfd[c], pipe'[c] = pipe[c],
         reported'[Pattern[c]] = reported[Pattern[c]],
         c > forked <=> c > forked', c <= forked <=> c <= forked',
         fifo'[Pattern[c]] = fifo[Pattern[c]],
         mpc' = "read" /\ mfd' = c <=> mpc = "read" /\ mfd = c
  PROVE  InTouch(c)'
BY DEF InTouch

LEMMA MeetingNext ==
  ASSUME Faults = {}, IsInjective(Pattern), IInv, Meeting, [Next]_vars
  PROVE  Meeting'
<1> USE DEF childVars
<1>1. /\ TypeOK /\ Len(Pattern) \in Nat /\ Children = 1 .. Len(Pattern)
      /\ forked \in 0 .. Len(Pattern)
      /\ cpc \in [Children -> {"unborn", "start", "opening", "counting", "ended"}]
      /\ cfd \in [Children -> Fifos \cup {None}] /\ fifo \in [Symbols -> Fifos \cup {None}]
      /\ pipe \in [Fifos -> OwnLines \cup {Nothing}]
      /\ reported \in [Symbols -> OwnLines \cup {"other's", Nothing}]
      /\ Children \subseteq Fifos /\ OtherFifo \notin Children /\ None \notin Children
      /\ None = 0 /\ OtherFifo # None
      /\ \A c, d \in Children : Pattern[c] = Pattern[d] => c = d
      /\ \A c \in Children : Pattern[c] \in Symbols
      /\ \A s \in Symbols : \E c \in Children : Pattern[c] = s
  BY PatternPlaces, Places DEF IInv, TypeOK, Fifos, None
<1>2. \A c \in Children : InTouch(c)
  BY DEF Meeting
<1>3. CASE UNCHANGED vars
  BY <1>3 DEF vars, Meeting, InTouch
<1>4. CASE Fork
  <2> DEFINE new == forked + 1
  <2>1. /\ mpc = "fork" /\ forked < Len(Pattern) /\ new \in Children
        /\ fifo' = [fifo EXCEPT ![Pattern[new]] = new] /\ forked' = new
        /\ cpc' = [cpc EXCEPT ![new] = "start"]
        /\ mpc' = IF new = Len(Pattern) THEN "open" ELSE "fork"
        /\ UNCHANGED <<query, mfd, held, pipe, cfd, reported>>
    BY <1>1, <1>4 DEF Fork, IInv, Forking
  <2>2. ASSUME NEW c \in Children PROVE InTouch(c)'
    <3>1. c \in Int /\ forked \in Int
      BY <1>1
    <3>2. CASE c = new
      <4>1. pipe[c] = Nothing /\ reported[Pattern[c]] = Nothing
        BY <1>2, <2>1, <3>1, <3>2 DEF InTouch
      <4>2. cpc'[c] = "start" /\ ~ (c > new) /\ fifo'[Pattern[c]] = c
        BY <1>1, <2>1, <3>1, <3>2
      <4> HIDE DEF new
      <4> QED BY <2>1, <3>2, <4>1, <4>2 DEF InTouch
    <3>3. CASE c # new
      <4>1. cpc'[c] = cpc[c] /\ (c > forked <=> c > new) /\ (c <= forked <=> c <= new)
        BY <1>1, <2>1, <3>1, <3>3
      <4>2. fifo'[Pattern[c]] = fifo[Pattern[c]]
        BY <1>1, <2>1, <3>3
      <4> HIDE DEF new
      <4> QED BY <1>2, <2>1, <4>1, <4>2, StaysInTouch
    <3> QED BY <3>2, <3>3
  <2>3. \A s \in Symbols : fifo'[s] \in 0 .. new
    <3>1. 0 .. forked \subseteq 0 .. new /\ new \in 0 .. new
      BY <1>1
    <3> HIDE DEF new
    <3> QED BY <1>1, <2>1, <3>1 DEF Meeting
  <2> QED BY <2>1, <2>2, <2>3 DEF Meeting
<1>5. /\ ~ MkfifoFails /\ ~ ForkFails /\ ~ ManagerHandler /\ ~ OtherManager
      /\ ~ ReadOtherLine /\ ~ OpenedByOther
  <2>1. ~ MkfifoFails
    <3> SUFFICES ASSUME mpc = "fork", fifo[Pattern[forked + 1]] # None PROVE FALSE
      BY DEF MkfifoFails
    <3> DEFINE d == fifo[Pattern[forked + 1]]
    <3>1. forked + 1 \in Children /\ Pattern[forked + 1] \in Symbols
      BY <1>1 DEF IInv, Forking
    <3>2. d \in 1 .. forked /\ d \in Children /\ d # forked + 1
      <4>1. d \in 0 .. forked /\ d # 0
        BY <1>1, <3>1 DEF Meeting
      <4> HIDE DEF d
      <4> QED BY <1>1, <4>1
    <3>3. Pattern[d] = Pattern[forked + 1]
      BY <3>1, <3>2 DEF IInv, LinesInOrder
    <3> HIDE DEF d
    <3> QED BY <1>1, <3>1, <3>2, <3>3
  <2> QED BY <2>1 DEF ForkFails, ManagerHandler, OtherManager, ReadOtherLine, OpenedByOther
<1>6. CASE OpenFifo
  <2>1. /\ UNCHANGED <<forked, query, fifo, held, pipe, cpc, cfd, reported>>
        /\ mpc = "open" /\ mpc' = "opening" /\ mfd' = fifo[Symbol] /\ Symbol \in Symbols
    BY <1>6, SymbolOpen DEF OpenFifo
  <2>2. mfd' # OtherFifo
    <3>1. fifo[Symbol] >= 0
      BY <1>1, <2>1 DEF Meeting
    <3> QED BY <2>1, <3>1 DEF OtherFifo
  <2>3. \A c \in Children : InTouch(c)'
    BY <1>2, <2>1, StaysInTouch
  <2> QED BY <2>1, <2>2, <2>3 DEF Meeting
<1>7. CASE OpenFifoFails
  BY <1>3, <1>7 DEF OpenFifoFails
\* The manager finds no end of a FIFO: whoever opens it writes a line.
<1>8. ~ ReadEof
  <2> SUFFICES ASSUME ReadEof PROVE FALSE
    OBVIOUS
  <2>1. mpc = "read" /\ mfd \in Children
    BY OwnFifoOpen DEF ReadEof
  <2>2. cpc[mfd] = "counting" \/ pipe[mfd] # Nothing
    BY <1>2, <2>1 DEF InTouch
  <2>3. cpc[mfd] = "counting" => cfd[mfd] = mfd
    BY <1>2, <2>1 DEF InTouch
  <2> QED BY <2>1, <2>2, <2>3 DEF ReadEof
<1>9. CASE ReadLine
  <2>0. /\ mpc = "read" /\ pipe[mfd] # Nothing /\ TakeOut(pipe[mfd])
        /\ mfd \in Children /\ Pattern[mfd] = Symbol /\ Symbol \in Symbols
    BY <1>9, OwnFifoOpen, SymbolOpen DEF ReadLine
  <2>1. pipe[mfd] \in OwnLines \cup {"other's"}
    BY <1>1, <2>0
  <2>2. /\ reported' = [reported EXCEPT ![Symbol] = pipe[mfd]]
        /\ pipe' = [pipe EXCEPT ![mfd] = Nothing]
        /\ UNCHANGED <<forked, cpc, cfd, held>> /\ mpc' \in {"open", "done"}
        /\ mpc' = "done" => query' = << >>
        /\ \A s \in Symbols : fifo'[s] \in {fifo[s], None}
        /\ mfd' = None
    BY <1>1, <2>0, <2>1, TakesOut
  <2>3. mpc' = "open" => \A s \in Symbols \ {Symbol} : fifo'[s] = fifo[s]
    BY <1>1, <2>0 DEF TakeOut
  <2>4. mpc' = "done" => \A s \in Symbols : reported'[s] # Nothing
    <3> SUFFICES ASSUME mpc' = "done"
                 PROVE  {s \in Symbols : reported'[s] = Nothing} = {}
      OBVIOUS
    <3>1. Range(query') = {}
      BY <2>2 DEF Range
    <3>2. Range(query') = {s \in Symbols : reported'[s] = Nothing}
      BY IInvNext DEF IInv, ListExact
    <3> QED BY <3>1, <3>2
  <2>5. ASSUME NEW c \in Children PROVE InTouch(c)'
    <3>1. CASE c = mfd
      <4>1. reported'[Pattern[c]] = pipe[c] /\ pipe'[c] = Nothing
        BY <1>1, <2>0, <2>2, <3>1
      <4>2. cpc[c] = "ended" /\ pipe[c] = "finished"
        BY <1>2, <2>0, <3>1 DEF InTouch
      <4> QED BY <1>2, <2>2, <4>1, <4>2 DEF InTouch, Nothing
    <3>2. CASE c # mfd
      <4>1. Pattern[c] # Symbol /\ Pattern[c] \in Symbols
        BY <1>1, <2>0, <3>2
      <4>2. reported'[Pattern[c]] = reported[Pattern[c]] /\ pipe'[c] = pipe[c]
        BY <1>1, <2>0, <2>2, <3>2, <4>1
      <4>3. reported'[Pattern[c]] = Nothing => fifo'[Pattern[c]] = fifo[Pattern[c]]
        BY <2>2, <2>3, <2>4, <4>1
      <4> QED BY <1>1, <1>2, <2>0, <2>2, <3>2, <4>2, <4>3 DEF InTouch
    <3> QED BY <3>1, <3>2
  <2>6. \A s \in Symbols : fifo'[s] \in 0 .. forked
    BY <1>1, <2>2 DEF Meeting
  <2> QED BY <2>0, <2>2, <2>5, <2>6 DEF Meeting
<1>10. ASSUME NEW c \in Children, Child(c) PROVE Meeting'
  <2>1. ~ OtherThere(c) /\ ~ OtherGone(c) /\ ~ StartFails(c) /\ ~ ExecFails(c)
        /\ ~ CountFails(c) /\ ~ ChildHandler(c)
    BY DEF OtherThere, OtherGone, StartFails, ExecFails, CountFails, ChildHandler
  <2>2. ~ ManagerThere(c)
    <3> SUFFICES ASSUME cpc[c] = "opening", mpc = "read", cfd[c] = mfd PROVE FALSE
      BY DEF ManagerThere, Meeting
    <3> QED BY <1>2 DEF InTouch
  <2>3. UNCHANGED <<forked, query, fifo, mfd, held, reported>>
    BY <1>10, <2>1, <2>2 DEF Child, Start, WriteLine, FifoOpened
  <2>4. /\ mpc' = mpc \/ (mpc = "opening" /\ mpc' = "read" /\ mfd = c)
        /\ \A d \in Children \ {c} : /\ cpc'[d] = cpc[d] /\ cfd'[d] = cfd[d]
                                     /\ pipe'[d] = pipe[d]
    <3>1. CASE WriteLine(c)
      <4>1. cfd[c] = c
        BY <1>2, <3>1 DEF WriteLine, InTouch
      <4> QED BY <1>1, <3>1, <4>1 DEF WriteLine, Write
    <3>2. CASE Start(c)
      BY <1>1, <3>2 DEF Start
    <3>3. CASE FifoOpened(c)
      <4>1. cfd[c] = c
        BY <1>2, <3>3 DEF FifoOpened, InTouch
      <4> QED BY <1>1, <3>3, <4>1 DEF FifoOpened
    <3> QED BY <1>10, <2>1, <2>2, <3>1, <3>2, <3>3 DEF Child
  <2>5. ASSUME NEW d \in Children \ {c} PROVE InTouch(d)'
    BY <1>2, <2>3, <2>4, StaysInTouch
  <2>6. InTouch(c)'
    <3>1. CASE Start(c)
      <4>1. cpc[c] = "start" /\ fifo[Pattern[c]] = c
        BY <1>1, <1>2, <3>1 DEF Start, InTouch
      <4>2. cpc'[c] = "opening" /\ cfd'[c] = c /\ UNCHANGED <<mpc, pipe>>
        BY <1>1, <3>1, <4>1 DEF Start
      <4> QED BY <1>2, <2>3, <4>1, <4>2 DEF InTouch
    <3>2. CASE WriteLine(c)
      <4>1. /\ cpc[c] = "counting" /\ cpc'[c] = "ended" /\ mpc' = mpc /\ cfd' = cfd
            /\ cfd[c] = c /\ pipe[c] = Nothing
        BY <1>1, <1>2, <3>2 DEF WriteLine, InTouch
      <4>2. pipe'[c] = "finished"
        BY <1>1, <3>2, <4>1 DEF WriteLine, Write, Line
      <4> QED BY <1>2, <2>3, <4>1, <4>2 DEF InTouch, Nothing
    <3>3. CASE FifoOpened(c)
      <4>1. /\ cpc[c] \in {"opening", "counting"} /\ cpc'[c] = "counting" /\ mpc' = "read"
            /\ mpc = "opening" /\ pipe' = pipe /\ cfd' = cfd /\ mfd = c
        BY <1>1, <1>2, <3>3 DEF FifoOpened, InTouch
      <4> QED BY <1>2, <2>3, <4>1 DEF InTouch
    <3> QED BY <1>10, <2>1, <2>2, <3>1, <3>2, <3>3 DEF Child
  <2>7. /\ mpc' # "failed" /\ (mpc' # "fork" => forked' = Len(Pattern))
        /\ mpc' \in {"opening", "read"} => mfd' # OtherFifo
    BY <2>3, <2>4 DEF Meeting
  <2> QED BY <2>3, <2>5, <2>6, <2>7 DEF Meeting
<1> QED BY <1>3, <1>4, <1>5, <1>6, <1>7, <1>8, <1>9, <1>10 DEF Next, Manager

-----------------------------------------------------------------------------
(* Theorems.                                                               *)

\* IInv holds in every state: the manager of sym_mng.c opens the first FIFO
\* with the whole pattern in its list and keeps the list exact from then on, and
\* a line of its own children is that of the child of the symbol that it is at.
THEOREM Invariance == Spec => []IInv
<1> QED BY IInvInit, IInvNext, PTL DEF Spec

\* Every variable of ex2's manager and children keeps its type: the manager
\* never opens the FIFO of an empty list.
THEOREM TypeCorrect == Spec => []TypeOK
<1>1. IInv => TypeOK
  BY DEF IInv
<1> QED BY <1>1, Invariance, PTL

\* For every pattern without repetition and whatever fails, dies, is removed or
\* is made by another manager, the list is exactly the symbols for which no line
\* was read, and a line of this manager's children is that of one that has ended.
THEOREM ListAlwaysExact == Spec => []ListExact
<1>1. IInv => ListExact
  BY DEF IInv
<1> QED BY <1>1, Invariance, PTL

\* If the symbols of the pattern differ and nothing fails, nothing disturbs the
\* manager, as ManagerEnds takes for granted, and none of the opens and reads that
\* block in sym_mng.c and sym_count.c waits for an end that nobody has or comes to.
THEOREM AlwaysMeet ==
  ASSUME Faults = {}, IsInjective(Pattern)
  PROVE  Spec => []AllMeet
<1>1. IInv /\ Meeting /\ [Next]_vars => Meeting'
  BY MeetingNext
<1>2. IInv /\ Meeting => AllMeet
  <2> SUFFICES ASSUME IInv, Meeting PROVE AllMeet
    OBVIOUS
  <2>1. /\ forked \in 0 .. Len(Pattern) /\ Len(Pattern) \in Nat /\ 1 .. forked \subseteq Children
        /\ cpc \in [Children -> {"unborn", "start", "opening", "counting", "ended"}]
        /\ None \notin Children
    BY PatternPlaces, Places DEF IInv, TypeOK
  <2>2. \A c \in Children : InTouch(c)
    BY DEF Meeting
  <2>3. Undisturbed
    BY <2>1, <2>2 DEF Undisturbed, Meeting, InTouch
\* The child of the symbol that the manager is at.
  <2>4. ASSUME mpc \in {"open", "opening", "read"}
        PROVE  \E c \in Children :
                 /\ Pattern[c] = Symbol /\ fifo[Symbol] = c /\ cpc[c] # "unborn"
                 /\ reported[Pattern[c]] = Nothing
                 /\ mpc # "open" => mfd = c
    <3>1. PICK c \in Children : Pattern[c] = Symbol /\ reported[Pattern[c]] = Nothing
      BY <2>4, SymbolOpen, PatternPlaces
    <3>2. c <= forked /\ ~ (c > forked)
      BY <2>1, <2>4, PatternPlaces DEF Meeting
    <3>3. mpc # "open" => mfd = c
      BY <2>4, <3>1, OwnFifoOpen, PatternPlaces
    <3> QED BY <2>2, <3>1, <3>2, <3>3 DEF InTouch
  <2>5. mpc = "open" => fifo[Symbol] # None
    BY <2>1, <2>4
  <2>6. mpc = "opening" =>
          \E c \in Children : /\ Pattern[c] = Symbol /\ mfd = c
                              /\ cpc[c] = "start" \/ (cpc[c] = "opening" /\ cfd[c] = c)
    BY <2>1, <2>2, <2>4 DEF InTouch
  <2>7. mpc = "read" =>
          \/ pipe[mfd] # Nothing
          \/ \E c \in Children : mfd = c /\ cfd[c] = c /\ cpc[c] = "counting"
    BY <2>2, <2>4 DEF InTouch
  <2>8. ASSUME mpc = "done", NEW c \in Children
        PROVE  cpc[c] = "ended" /\ reported[Pattern[c]] = "finished"
    <3>1. reported[Pattern[c]] # Nothing
      <4>1. query = << >>
        BY <2>8 DEF IInv, ListExact
      <4>2. Range(query) = {}
        BY <4>1 DEF Range
      <4> QED BY <2>8, <4>2, PatternPlaces DEF IInv, ListExact
    <3> QED BY <2>2, <3>1 DEF InTouch
  <2> QED BY <2>3, <2>5, <2>6, <2>7, <2>8 DEF AllMeet
<1> QED BY <1>1, <1>2, MeetingInit, Invariance, PTL DEF Spec
=============================================================================
