------------------------------ MODULE PccProofs -------------------------------
(***************************************************************************)
(* Proofs about Pcc, for every number of clients, size of a byte and data: *)
(* types and AnswersCounted with every fault; AnswerExact with every fault *)
(* but slowStart, and that nobody waits for each other; TotalsComplete and *)
(* ExitsOnlyOnSIGINT for the runs in which they are meant.                 *)
(***************************************************************************)
EXTENDS Pcc, FiniteSetTheorems, WellFoundedInduction, TLAPS

-----------------------------------------------------------------------------
(* Words and streams.                                                      *)

\* The four bytes of an unsigned int (unsignedIntToChars).
LEMMA UnsignedIntToCharsType ==
  ASSUME NEW n \in Nat
  PROVE  /\ UnsignedIntToChars(n) \in Seq(Bytes)
         /\ Len(UnsignedIntToChars(n)) = WordBytes
<1>1. Byte \in Nat \ {0}
  BY ByteAssumption
<1>2. Byte * Byte \in Nat \ {0} /\ Byte * Byte * Byte \in Nat \ {0}
  <2>1. \A a, b \in Nat \ {0} : a * b \in Nat \ {0}
    OBVIOUS
  <2> QED BY <1>1, <2>1
<1>3. \A m \in Nat \ {0} : n \div m \in Nat
  OBVIOUS
<1>4. \A a \in Nat : a % Byte \in Bytes
  BY <1>1 DEF Bytes
<1>5. /\ (n \div (Byte * Byte * Byte)) % Byte \in Bytes
      /\ (n \div (Byte * Byte)) % Byte \in Bytes
      /\ (n \div Byte) % Byte \in Bytes
      /\ n % Byte \in Bytes
  BY <1>1, <1>2, <1>3, <1>4
<1> QED BY <1>5 DEF UnsignedIntToChars, WordBytes

\* The word that charsToUnsignedInt makes of four bytes.
LEMMA CharsToUnsignedIntType ==
  ASSUME NEW s \in Seq(Bytes), Len(s) = WordBytes
  PROVE  CharsToUnsignedInt(s) \in Words
<1>1. \A k \in 1 .. WordBytes : s[k] \in Bytes
  OBVIOUS
<1>2. Byte - 1 \in Bytes
  BY ByteAssumption DEF Bytes
<1> QED BY <1>1, <1>2 DEF CharsToUnsignedInt, Words

LEMMA ValueType ==
  ASSUME NEW w \in Words
  PROVE  Value(w) \in Nat
<1>1. w[1] \in Nat /\ w[2] \in Nat /\ w[3] \in Nat /\ w[4] \in Nat
  BY DEF Words, Bytes, WordBytes
<1>2. \A a, b \in Nat : a * Byte + b \in Nat
  BY ByteAssumption
<1>3. w[1] * Byte + w[2] \in Nat
  BY <1>1, <1>2
<1>4. (w[1] * Byte + w[2]) * Byte + w[3] \in Nat
  BY <1>1, <1>2, <1>3
<1> QED BY <1>1, <1>2, <1>4 DEF Value

LEMMA PrintablesType ==
  ASSUME NEW s \in Seq(Bytes)
  PROVE  PrintablesIn(s) \in Nat /\ PrintablesIn(s) <= Len(s)
<1> DEFINE all == 1 .. Len(s)
           found == {i \in 1 .. Len(s) : s[i] \in Printable}
<1>1. Len(s) \in Nat
  OBVIOUS
<1>2. IsFiniteSet(all) /\ Cardinality(all) = Len(s)
  <2>1. Len(s) = 0 \/ 1 <= Len(s)
    BY <1>1
  <2> QED BY <1>1, <2>1, FS_Interval
<1>3. found \in SUBSET all
  OBVIOUS
<1> HIDE DEF all, found
<1>4. IsFiniteSet(found) /\ Cardinality(found) <= Cardinality(all)
  BY <1>2, <1>3, FS_Subset
<1>5. Cardinality(found) \in Nat
  BY <1>4, FS_CardinalityType
<1> QED BY <1>2, <1>4, <1>5 DEF PrintablesIn, found

\* What a read returns, and what it leaves.
LEMMA ReadableTypes ==
  ASSUME NEW s \in Seq(Bytes), NEW max \in Int, NEW chunk \in Readable(s, max)
  PROVE  /\ chunk \in Seq(Bytes) /\ Len(chunk) \in 1 .. max
         /\ Len(chunk) <= Len(s)
         /\ After(s, chunk) \in Seq(Bytes)
         /\ Len(After(s, chunk)) = Len(s) - Len(chunk)
<1>1. PICK n \in 1 .. Len(s) : n <= max /\ chunk = SubSeq(s, 1, n)
  BY DEF Readable
<1>2. Len(chunk) = n /\ chunk \in Seq(Bytes)
  BY <1>1
<1> QED BY <1>1, <1>2 DEF After

LEMMA FrontTypes ==
  ASSUME NEW s \in Seq(Bytes), s # << >>
  PROVE  Front(s) \in Seq(Bytes) /\ Len(Front(s)) = Len(s) - 1
<1>1. Len(s) \in Nat /\ Len(s) # 0
  OBVIOUS
<1>2. \A n \in Nat : n <= Len(s) =>
        SubSeq(s, 1, n) \in Seq(Bytes) /\ Len(SubSeq(s, 1, n)) = n
  OBVIOUS
<1>3. Len(s) - 1 \in Nat /\ Len(s) - 1 <= Len(s)
  BY <1>1
<1> QED BY <1>2, <1>3 DEF Front

\* Division by the size of a byte, and what is left.
LEMMA DivByte ==
  ASSUME NEW n \in Nat
  PROVE  /\ n \div Byte \in Nat /\ n % Byte \in 0 .. Byte - 1
         /\ n = (n \div Byte) * Byte + (n % Byte)
BY ByteAssumption

LEMMA DivUnique ==
  ASSUME NEW d \in Nat \ {0}, NEW q \in Nat, NEW r \in 0 .. d - 1, NEW n \in Nat,
         n = q * d + r
  PROVE  n \div d = q
<1> DEFINE p == n \div d
<1>1. p \in Int /\ n % d \in 0 .. d - 1 /\ n = p * d + (n % d)
  OBVIOUS
<1> HIDE DEF p
<1>2. ASSUME p < q PROVE FALSE
  <2>1. PICK k \in Nat : q = p + 1 + k
    <3>1. q - p - 1 \in Nat /\ q = p + 1 + (q - p - 1)
      BY <1>1, <1>2
    <3> QED BY <3>1
  <2>2. q * d = p * d + d + k * d /\ k * d \in Nat
    BY <1>1, <2>1
  <2> QED BY <1>1, <2>2
<1>3. ASSUME q < p PROVE FALSE
  <2>1. PICK k \in Nat : p = q + 1 + k
    <3>1. p - q - 1 \in Nat /\ p = q + 1 + (p - q - 1)
      BY <1>1, <1>3
    <3> QED BY <3>1
  <2>2. p * d = q * d + d + k * d /\ k * d \in Nat
    BY <1>1, <2>1
  <2> QED BY <1>1, <2>2
<1>4. p = q
  BY <1>1, <1>2, <1>3
<1> QED BY <1>4 DEF p

\* Dividing twice.
LEMMA DivTwice ==
  ASSUME NEW n \in Nat, NEW d \in Nat \ {0}
  PROVE  /\ n \div (d * Byte) = (n \div d) \div Byte
         /\ d * Byte \in Nat \ {0}
<1> DEFINE q == n \div d
           r == n % d
           p == q \div Byte
           s == q % Byte
<1>1. q \in Nat /\ r \in 0 .. d - 1 /\ n = q * d + r
  OBVIOUS
<1>2. p \in Nat /\ s \in 0 .. Byte - 1 /\ q = p * Byte + s
  BY <1>1, DivByte
<1> HIDE DEF q, r, p, s
<1>3. d * Byte \in Nat \ {0} /\ Byte \in Nat \ {0}
  <2>1. \A a, b \in Nat \ {0} : a * b \in Nat \ {0}
    OBVIOUS
  <2> QED BY <2>1, ByteAssumption
<1>4. n = p * (d * Byte) + (s * d + r)
  <2>1. q * d = (p * Byte) * d + s * d
    BY <1>1, <1>2, <1>3
  <2>2. (p * Byte) * d = p * (d * Byte)
    BY <1>2, <1>3
  <2> QED BY <1>1, <1>2, <1>3, <2>1, <2>2
<1>5. s * d + r \in 0 .. d * Byte - 1
  <2>1. s * d \in Nat /\ s * d + r \in Nat
    BY <1>1, <1>2
  <2>2. PICK k \in Nat : Byte = s + 1 + k
    <3>1. Byte - s - 1 \in Nat /\ Byte = s + 1 + (Byte - s - 1)
      BY <1>2, <1>3
    <3> QED BY <3>1
  <2>3. d * Byte = s * d + d + k * d /\ k * d \in Nat
    BY <1>2, <1>3, <2>2
  <2> QED BY <1>1, <2>1, <2>3
<1>6. n \div (d * Byte) = p
  BY <1>2, <1>3, <1>4, <1>5, DivUnique
<1> QED BY <1>3, <1>6 DEF p, q

\* More significant digits that are not less make a number that is not less.
LEMMA DigitsNotLess ==
  ASSUME NEW a \in Nat, NEW b \in Nat, NEW x \in Nat, NEW y \in Nat,
         a >= b, x >= y
  PROVE  /\ a * Byte + x >= b * Byte + y
         /\ a * Byte + x \in Nat /\ b * Byte + y \in Nat
<1>1. PICK j \in Nat : a = b + j
  <2>1. a - b \in Nat /\ a = b + (a - b)
    OBVIOUS
  <2> QED BY <2>1
<1>2. a * Byte = b * Byte + j * Byte /\ j * Byte \in Nat /\ b * Byte \in Nat
  BY <1>1, ByteAssumption
<1> QED BY <1>2

\* The four bytes of a number below Byte^4 are its digits.
LEMMA ValueOfChars ==
  ASSUME NEW n \in Nat, n < Byte * Byte * Byte * Byte
  PROVE  Value(UnsignedIntToChars(n)) = n
<1> DEFINE q1 == n \div Byte
           q2 == q1 \div Byte
           q3 == q2 \div Byte
<1>1. Byte \in Nat \ {0}
  BY ByteAssumption
<1>2. /\ q1 \in Nat /\ n = q1 * Byte + (n % Byte)
      /\ q2 \in Nat /\ q1 = q2 * Byte + (q1 % Byte)
      /\ q3 \in Nat /\ q2 = q3 * Byte + (q2 % Byte)
      /\ n % Byte \in Nat /\ q1 % Byte \in Nat /\ q2 % Byte \in Nat
  <2>1. q1 \in Nat /\ n = q1 * Byte + (n % Byte) /\ n % Byte \in Nat
    BY <1>1, DivByte
  <2>2. q2 \in Nat /\ q1 = q2 * Byte + (q1 % Byte) /\ q1 % Byte \in Nat
    BY <1>1, <2>1, DivByte
  <2>3. q3 \in Nat /\ q2 = q3 * Byte + (q2 % Byte) /\ q2 % Byte \in Nat
    BY <1>1, <2>2, DivByte
  <2> QED BY <2>1, <2>2, <2>3
<1>3. /\ n \div (Byte * Byte) = q2 /\ Byte * Byte \in Nat \ {0}
      /\ n \div (Byte * Byte * Byte) = q3
  <2>1. n \div (Byte * Byte) = q2 /\ Byte * Byte \in Nat \ {0}
    BY <1>1, DivTwice
  <2>2. n \div (Byte * Byte * Byte) = (n \div (Byte * Byte)) \div Byte
    BY <2>1, DivTwice
  <2> QED BY <2>1, <2>2
<1> HIDE DEF q1, q2, q3
<1>4. q3 < Byte
  <2> SUFFICES ASSUME q3 >= Byte PROVE FALSE
    BY <1>1, <1>2
  <2>1. PICK k \in Nat : q3 = Byte + k
    <3>1. q3 - Byte \in Nat /\ q3 = Byte + (q3 - Byte)
      BY <1>1, <1>2
    <3> QED BY <3>1
  <2>2. \A a, b \in Nat : a >= b =>
          /\ a * Byte >= b * Byte
          /\ a * Byte \in Nat /\ b * Byte \in Nat
    <3> SUFFICES ASSUME NEW a \in Nat, NEW b \in Nat, a >= b
                 PROVE  /\ a * Byte >= b * Byte
                        /\ a * Byte \in Nat /\ b * Byte \in Nat
      OBVIOUS
    <3>1. PICK j \in Nat : a = b + j
      <4>1. a - b \in Nat /\ a = b + (a - b)
        OBVIOUS
      <4> QED BY <4>1
    <3>2. /\ a * Byte = b * Byte + j * Byte
          /\ j * Byte \in Nat /\ b * Byte \in Nat /\ a * Byte \in Nat
      BY <1>1, <3>1
    <3> QED BY <3>2
  <2>3. q2 >= Byte * Byte
    BY <1>1, <1>2, <2>2
  <2>4. q1 >= Byte * Byte * Byte
    BY <1>1, <1>2, <1>3, <2>2, <2>3
  <2>5. Byte * Byte * Byte \in Nat
    BY <1>1, <1>3
  <2>6. n >= Byte * Byte * Byte * Byte /\ Byte * Byte * Byte * Byte \in Nat
    BY <1>1, <1>2, <2>2, <2>4, <2>5
  <2> QED BY <2>6
<1>5. q3 % Byte = q3
  BY <1>1, <1>2, <1>4
<1>6. UnsignedIntToChars(n) = <<q3, q2 % Byte, q1 % Byte, n % Byte>>
  BY <1>3, <1>5 DEF UnsignedIntToChars, q1
<1>7. (q3 * Byte + (q2 % Byte)) * Byte + (q1 % Byte) = q1
  BY <1>2
<1> QED BY <1>2, <1>6, <1>7 DEF Value

\* Bytes that are negative as chars make a number larger.
LEMMA CharsNotLess ==
  ASSUME NEW s \in Seq(Bytes), Len(s) = WordBytes
  PROVE  Value(CharsToUnsignedInt(s)) >= Value(s)
<1>1. \A k \in 1 .. 4 : s[k] \in Bytes
  <2>1. \A k \in 1 .. WordBytes : s[k] \in Bytes
    OBVIOUS
  <2> QED BY <2>1 DEF WordBytes
<1> DEFINE w == CharsToUnsignedInt(s)
<1>2. \A k \in 1 .. 4 : w[k] = s[k] \/ w[k] = Byte - 1
  <2> DEFINE P(k) == \E j \in k + 1 .. WordBytes : Negative(s[j])
  <2>1. w = [k \in 1 .. WordBytes |-> IF P(k) THEN Byte - 1 ELSE s[k]]
    BY Zenon DEF CharsToUnsignedInt
  <2> HIDE DEF w, P
  <2> QED BY <2>1 DEF WordBytes
<1> HIDE DEF w
<1>3. \A k \in 1 .. 4 : w[k] \in Nat /\ s[k] \in Nat /\ w[k] >= s[k]
  <2>1. /\ Byte - 1 \in Nat
        /\ \A b \in Bytes : b \in Nat /\ b >= b /\ Byte - 1 >= b
    BY ByteAssumption DEF Bytes
  <2> QED BY <1>1, <1>2, <2>1
<1>4. /\ w[1] \in Nat /\ s[1] \in Nat /\ w[1] >= s[1]
      /\ w[2] \in Nat /\ s[2] \in Nat /\ w[2] >= s[2]
      /\ w[3] \in Nat /\ s[3] \in Nat /\ w[3] >= s[3]
      /\ w[4] \in Nat /\ s[4] \in Nat /\ w[4] >= s[4]
  BY <1>3
<1>5. /\ w[1] * Byte + w[2] >= s[1] * Byte + s[2]
      /\ w[1] * Byte + w[2] \in Nat /\ s[1] * Byte + s[2] \in Nat
  BY <1>4, DigitsNotLess
<1>6. /\ (w[1] * Byte + w[2]) * Byte + w[3] >= (s[1] * Byte + s[2]) * Byte + s[3]
      /\ (w[1] * Byte + w[2]) * Byte + w[3] \in Nat
      /\ (s[1] * Byte + s[2]) * Byte + s[3] \in Nat
  BY <1>4, <1>5, DigitsNotLess
<1>7. Value(w) >= Value(s)
  BY <1>4, <1>6, DigitsNotLess DEF Value
<1> QED BY <1>7 DEF w

\* Without them it stays what it was.
LEMMA CharsExact ==
  ASSUME NEW s \in Seq(Bytes), Len(s) = WordBytes, SignFree(s)
  PROVE  Value(CharsToUnsignedInt(s)) = Value(s)
<1> DEFINE P(k) == \E j \in k + 1 .. WordBytes : Negative(s[j])
           w == CharsToUnsignedInt(s)
<1>1. \A k \in 1 .. WordBytes : ~ P(k)
  <2>1. \A k \in 1 .. WordBytes : \A j \in k + 1 .. WordBytes : j \in 2 .. WordBytes
    BY DEF WordBytes
  <2> QED BY <2>1 DEF SignFree
<1>2. w = [k \in 1 .. WordBytes |-> IF P(k) THEN Byte - 1 ELSE s[k]]
  BY Zenon DEF CharsToUnsignedInt
<1> HIDE DEF w, P
<1>3. \A k \in 1 .. WordBytes : w[k] = s[k]
  BY <1>1, <1>2
<1>4. w[1] = s[1] /\ w[2] = s[2] /\ w[3] = s[3] /\ w[4] = s[4]
  BY <1>3 DEF WordBytes
<1> QED BY <1>4 DEF Value, w

\* Two streams one after the other.
LEMMA Concat ==
  ASSUME NEW a \in Seq(Bytes), NEW b \in Seq(Bytes)
  PROVE  /\ a \o b \in Seq(Bytes) /\ Len(a \o b) = Len(a) + Len(b)
         /\ Len(a) \in Nat /\ Len(b) \in Nat
         /\ \A k \in 1 .. Len(a) : (a \o b)[k] = a[k]
         /\ \A k \in 1 .. Len(b) : (a \o b)[Len(a) + k] = b[k]
         /\ a \o << >> = a /\ << >> \o b = b
OBVIOUS

\* Streams of the same length are equal if their elements are.
LEMMA Equal ==
  ASSUME NEW a \in Seq(Bytes), NEW b \in Seq(Bytes), Len(a) = Len(b),
         \A k \in 1 .. Len(a) : a[k] = b[k]
  PROVE  a = b
OBVIOUS

LEMMA ConcatCancel ==
  ASSUME NEW a \in Seq(Bytes), NEW b \in Seq(Bytes), NEW c \in Seq(Bytes),
         NEW d \in Seq(Bytes), Len(a) = Len(c), a \o b = c \o d
  PROVE  a = c /\ b = d
<1> DEFINE s == a \o b
           t == c \o d
<1>1. /\ Len(s) = Len(a) + Len(b) /\ Len(a) \in Nat /\ Len(b) \in Nat
      /\ \A k \in 1 .. Len(a) : s[k] = a[k]
      /\ \A k \in 1 .. Len(b) : s[Len(a) + k] = b[k]
  BY Concat, Zenon
<1>2. /\ Len(t) = Len(c) + Len(d) /\ Len(c) \in Nat /\ Len(d) \in Nat
      /\ \A k \in 1 .. Len(c) : t[k] = c[k]
      /\ \A k \in 1 .. Len(d) : t[Len(c) + k] = d[k]
  BY Concat, Zenon
<1>3. s = t
  OBVIOUS
<1> HIDE DEF s, t
<1>4. Len(b) = Len(d)
  BY <1>1, <1>2, <1>3
<1>5. a = c
  BY <1>1, <1>2, <1>3, Equal
<1>6. b = d
  BY <1>1, <1>2, <1>3, <1>4, Equal
<1> QED BY <1>5, <1>6

LEMMA ConcatAssoc ==
  ASSUME NEW a \in Seq(Bytes), NEW b \in Seq(Bytes), NEW c \in Seq(Bytes)
  PROVE  (a \o b) \o c = a \o (b \o c)
<1>1. (a \o b) \o c \in Seq(Bytes) /\ a \o (b \o c) \in Seq(Bytes)
  OBVIOUS
<1>2. Len((a \o b) \o c) = Len(a \o (b \o c))
  OBVIOUS
<1>3. \A k \in 1 .. Len((a \o b) \o c) : ((a \o b) \o c)[k] = (a \o (b \o c))[k]
  OBVIOUS
<1> QED BY <1>1, <1>2, <1>3

\* What a read returns and what it leaves is what was there.
LEMMA ReadWhole ==
  ASSUME NEW s \in Seq(Bytes), NEW max \in Int, NEW chunk \in Readable(s, max)
  PROVE  chunk \o After(s, chunk) = s
<1>1. PICK n \in 1 .. Len(s) : chunk = SubSeq(s, 1, n)
  BY DEF Readable
<1>2. Len(chunk) = n /\ chunk \in Seq(Bytes) /\ \A k \in 1 .. n : chunk[k] = s[k]
  BY <1>1
<1> DEFINE t == SubSeq(s, n + 1, Len(s))
<1>3. /\ t \in Seq(Bytes) /\ Len(t) = Len(s) - n
      /\ \A k \in 1 .. Len(s) - n : t[k] = s[n + k]
  OBVIOUS
<1> HIDE DEF t
<1> DEFINE r == chunk \o t
<1>4. /\ r \in Seq(Bytes) /\ Len(r) = Len(chunk) + Len(t)
      /\ \A k \in 1 .. Len(chunk) : r[k] = chunk[k]
      /\ \A k \in 1 .. Len(t) : r[Len(chunk) + k] = t[k]
  BY <1>2, <1>3, Concat, Zenon
<1> HIDE DEF r
<1>5. ASSUME NEW k \in 1 .. Len(s) PROVE r[k] = s[k]
  <2>1. CASE k <= n
    BY <1>2, <1>4, <2>1
  <2>2. CASE k > n
    <3>1. k - n \in 1 .. Len(s) - n /\ k = n + (k - n)
      BY <2>2
    <3>2. r[n + (k - n)] = t[k - n] /\ t[k - n] = s[n + (k - n)]
      BY <1>2, <1>3, <1>4, <3>1
    <3> QED BY <3>1, <3>2
  <2> QED BY <2>1, <2>2
<1>6. Len(r) = Len(s)
  BY <1>2, <1>3, <1>4
<1>7. r = s
  BY <1>4, <1>5, <1>6, Equal
<1> QED BY <1>2, <1>7 DEF After, t, r

\* A set of naturals has a least element.
LEMMA Least ==
  ASSUME NEW S, S \subseteq Nat, S # {}
  PROVE  \E m \in S : \A k \in S : m <= k
<1>1. PICK m \in S : \A k \in S : ~ (<<k, m>> \in OpToRel(<, Nat))
  BY NatLessThanWellFounded, WFMin
<1>2. ASSUME NEW k \in S PROVE m <= k
  <2>1. k \in Nat /\ m \in Nat /\ ~ (k < m)
    BY <1>1 DEF OpToRel
  <2> QED BY <2>1
<1> QED BY <1>2

-----------------------------------------------------------------------------
(* The invariant, with every fault.                                        *)

\* Clients whose connection main has accepted, or the kernel reset.
Accepted == {c \in Clients : serverEnd[c] \notin {"none", "backlog"}}

\* Clients that some bytes of an answer were sent to.
Answered == {c \in Clients : reply[c] # << >> \/ down[c] # << >>}

\* Threads that have counted and are past the answer.
Counted == {h \in total : hpc[h] \in {"close", "exit", "ended"}}

\* A client reads no more than an answer, and none before it has sent its data.
ClientReads ==
  \A c \in Clients :
    /\ cpc[c] \in {"connect", "random", "length", "data"} => reply[c] = << >>
    /\ cpc[c] = "answer" => Len(reply[c]) < WordBytes
    /\ cpc[c] \in {"print", "printed"} => Len(reply[c]) = WordBytes
    /\ cpc[c] = "connect" => serverEnd[c] = "none"

\* A client is in the backlog once, an open descriptor is that of one accepted
\* client, and main has started a thread for each.
Connections ==
  /\ \A i, j \in 1 .. Len(backlog) : backlog[i] = backlog[j] => i = j
  /\ \A i \in 1 .. Len(backlog) : serverEnd[backlog[i]] = "backlog"
  /\ \A f \in Fds : sock[f] # NoClient => sock[f] \in Accepted
  /\ \A f, g \in Fds : sock[f] = sock[g] /\ sock[f] # NoClient => f = g
  /\ online = Cardinality(Accepted)
  /\ \A h \in Handlers : hpc[h] = "none" <=> h > online

\* Who is between loading and storing the totals has the lock, and the totals
\* are still what it loaded.
Totals ==
  \A h \in Handlers :
    /\ hpc[h] \in {"none", "start"} => got[h] = << >>
    /\ hpc[h] = "store" => lock = h /\ seen[h] = total
    /\ hpc[h] \in {"none", "start", "length", "data", "lock", "store"} =>
         h \notin total
    /\ hpc[h] = "answer" => h \in total

\* At least as many threads are past their answer as clients have one.
Counts == Cardinality(Answered) <= Cardinality(Counted)

PccInv ==
  /\ TypeOK /\ ClientReads /\ Totals /\ Counts
  /\ server = "running" => Connections

LEMMA ClientsFinite ==
  /\ Cardinality(Clients) \in Nat \ {0}
  /\ \A S \in SUBSET Clients :
       /\ IsFiniteSet(S) /\ Cardinality(S) \in Nat
       /\ Cardinality(S) <= Cardinality(Clients)
  /\ \A S \in SUBSET Handlers : IsFiniteSet(S) /\ Cardinality(S) \in Nat
<1>1. IsFiniteSet(Clients) /\ Cardinality(Clients) \in Nat
        /\ Cardinality(Clients) # 0
  BY ClientsAssumption, FS_CardinalityType, FS_EmptySet
<1>2. IsFiniteSet(Handlers)
  BY <1>1, FS_Interval DEF Handlers
<1>3. \A S \in SUBSET Clients :
        IsFiniteSet(S) /\ Cardinality(S) <= Cardinality(Clients)
  BY <1>1, FS_Subset
<1>4. \A S \in SUBSET Handlers : IsFiniteSet(S)
  BY <1>2, FS_Subset
<1> QED BY <1>1, <1>3, <1>4, FS_CardinalityType

\* While somebody waits to be accepted, a descriptor and a thread are free.
LEMMA RoomForConnection ==
  ASSUME TypeOK, Connections, backlog # << >>
  PROVE  /\ Head(backlog) \in Clients \ Accepted
         /\ FreeFd \in Fds /\ sock[FreeFd] = NoClient
         /\ online < Cardinality(Clients)
<1> DEFINE c == Head(backlog)
           Free == {f \in Fds : sock[f] = NoClient}
<1>1. c \in Clients /\ c = backlog[1] /\ 1 \in 1 .. Len(backlog)
  BY DEF TypeOK, SocketsTypeOK
<1>2. c \notin Accepted
  BY <1>1 DEF Connections, Accepted
<1>3. online < Cardinality(Clients)
  <2>1. Accepted \in SUBSET Clients /\ Accepted # Clients
    BY <1>1, <1>2 DEF Accepted
  <2>2. Cardinality(Accepted) # Cardinality(Clients)
    BY <2>1, ClientsAssumption, FS_Subset
  <2> QED BY <2>1, <2>2, ClientsFinite DEF Connections
<1>4. Free # {}
  <2> SUFFICES ASSUME Free = {} PROVE FALSE
    OBVIOUS
  <2>1. sock \in [Fds -> Accepted]
    BY DEF TypeOK, ServerTypeOK, Connections
  <2>2. \A f, g \in Fds : sock[f] = sock[g] => f = g
    BY DEF Connections
  <2>3. sock \in Injection(Fds, Accepted)
    BY <2>1, <2>2 DEF Injection, IsInjective
  <2>4. IsFiniteSet(Accepted)
    BY ClientsFinite DEF Accepted
  <2>5. Cardinality(Fds) <= Cardinality(Accepted)
    BY <2>3, <2>4, FS_Injection
  <2>6. Cardinality(Fds) = Cardinality(Clients)
    BY ClientsFinite, FS_Interval DEF Fds
  <2>7. Cardinality(Accepted) \in Nat /\ online = Cardinality(Accepted)
    BY ClientsFinite DEF Accepted, Connections
  <2> QED BY <1>3, <2>5, <2>6, <2>7, ClientsFinite
<1>5. Free \subseteq Nat
  BY ClientsFinite DEF Fds
<1>6. PICK m \in Free : \A f \in Free : m <= f
  BY <1>4, <1>5, Least
<1>7. \A g \in 1 .. m - 1 : g \in Fds /\ sock[g] # NoClient
  BY <1>5, <1>6, ClientsFinite DEF Fds
<1>8. FreeFd \in Fds /\ sock[FreeFd] = NoClient
  BY <1>6, <1>7 DEF FreeFd
<1> QED BY <1>1, <1>2, <1>3, <1>8

-----------------------------------------------------------------------------
(* Init, and the steps of main.                                            *)

\* Nobody is connected, no thread runs, nothing was counted.
LEMMA PccInvInit == Init => PccInv
<1> SUFFICES ASSUME Init PROVE PccInv
  OBVIOUS
<1> USE DEF Init, SocketsInit, ServerInit, ClientInit
<1>1. SocketsTypeOK
  BY DEF SocketsTypeOK, Ends
<1>2. ServerTypeOK
  <2>1. [k \in 1 .. WordBytes |-> 0] \in Words
    BY ByteAssumption DEF Words, Bytes
  <2>2. 0 <= Value([k \in 1 .. WordBytes |-> 0])
    BY <2>1, ValueType
  <2>3. online \in 0 .. Cardinality(Clients) /\ joined \in 0 .. Cardinality(Clients)
    BY ClientsFinite
  <2>4. \A h \in Handlers : /\ hpc[h] # "length" /\ Len(got[h]) = 0
                            /\ need[h] = [k \in 1 .. WordBytes |-> 0]
    OBVIOUS
  <2>5. \A h \in Handlers :
          /\ hpc[h] = "length" => Len(got[h]) < WordBytes
          /\ hpc[h] # "length" => Len(got[h]) <= Value(need[h])
    BY <2>2, <2>4
  <2>6. need \in [Handlers -> Words]
    BY <2>1
  <2>7. /\ sock \in [Fds -> Clients \cup {NoClient}]
        /\ fd \in [Handlers -> Fds \cup {NoFd}]
        /\ got \in [Handlers -> Seq(Bytes)]
        /\ seen \in [Handlers -> SUBSET Handlers]
    OBVIOUS
  <2>8. hpc \in [Handlers -> {"none", "start", "length", "data", "lock",
                              "store", "answer", "close", "exit", "ended"}]
    OBVIOUS
  <2> QED BY <2>3, <2>5, <2>6, <2>7, <2>8 DEF ServerTypeOK
<1>3. ClientTypeOK
  BY DEF ClientTypeOK
<1>4. Answered = {} /\ Accepted = {}
  BY DEF Answered, Accepted
<1>5. Counted = {}
  BY DEF Counted
<1>6. ClientReads /\ Totals
  BY DEF ClientReads, Totals
<1>7. Counts
  BY <1>4, <1>5, FS_EmptySet DEF Counts
<1>8. Connections
  BY <1>4, FS_EmptySet DEF Connections, Handlers
<1> QED BY <1>1, <1>2, <1>3, <1>6, <1>7, <1>8 DEF PccInv, TypeOK

\* The end of the server's process leaves what was counted and answered.
LEMMA ProcessEnds ==
  ASSUME PccInv, ServerProcessEnds, server' \in {"exited", "failed"},
         mainPc' \in {mainPc, "done"},
         UNCHANGED <<receivedSIGINT, online, joined, fdCell, sock, handler,
                     lock, total, backlog, clientEnd, up, down, clientVars>>
  PROVE  PccInv'
<1> USE DEF handler, clientVars
<1>1. /\ serverEnd' \in [Clients -> Ends]
      /\ \A c \in Clients : serverEnd[c] = "none" => serverEnd'[c] = "none"
  BY DEF PccInv, TypeOK, SocketsTypeOK, ServerProcessEnds, Closed, Ends
<1>2. SocketsTypeOK' /\ ClientTypeOK'
  BY <1>1 DEF PccInv, TypeOK, SocketsTypeOK, ClientTypeOK
<1>3. ServerTypeOK'
  BY DEF PccInv, TypeOK, ServerTypeOK
<1>4. ClientReads'
  BY <1>1 DEF PccInv, ClientReads
<1>5. Totals' /\ Counts'
  BY DEF PccInv, Totals, Counts, Answered, Counted
<1> QED BY <1>2, <1>3, <1>4, <1>5 DEF PccInv, TypeOK

\* Steps of main that touch no connection and no thread.
LEMMA MainSteps ==
  ASSUME PccInv,
         mainPc' \in {mainPc, "check", "call", "accept", "join"},
         receivedSIGINT' \in {TRUE, receivedSIGINT},
         joined' \in 0 .. Cardinality(Clients), fdCell' \in {fdCell, NoFd},
         UNCHANGED <<server, online, sock, handler, lock, total, sockets,
                     clientVars>>
  PROVE  PccInv'
<1> USE DEF handler, sockets, clientVars
<1>1. SocketsTypeOK' /\ ClientTypeOK'
  BY DEF PccInv, TypeOK, SocketsTypeOK, ClientTypeOK
<1>2. ServerTypeOK'
  BY DEF PccInv, TypeOK, ServerTypeOK
<1>3. ClientReads' /\ Totals' /\ Counts'
  BY DEF PccInv, ClientReads, Totals, Counts, Answered, Counted
<1>4. server = "running" => Connections'
  BY DEF PccInv, Connections, Accepted
<1> QED BY <1>1, <1>2, <1>3, <1>4 DEF PccInv, TypeOK

\* A connection is accepted and its thread started: one client leaves the
\* backlog, and takes a descriptor that was free.
LEMMA ConnectionAccepted ==
  ASSUME PccInv, server = "running", GetNewConnection, UNCHANGED clientVars
  PROVE  PccInv'
<1> DEFINE c == Head(backlog)
<1>0. TypeOK /\ Connections /\ Totals /\ ClientReads /\ Counts /\ backlog # << >>
  BY DEF PccInv, GetNewConnection
<1>1. /\ c \in Clients \ Accepted
      /\ FreeFd \in Fds /\ sock[FreeFd] = NoClient
      /\ online < Cardinality(Clients)
  BY <1>0, RoomForConnection
<1>2. online \in Nat /\ online + 1 \in Handlers
  BY <1>0, <1>1, ClientsFinite DEF TypeOK, ServerTypeOK, Handlers
<1>3. /\ serverEnd' = [serverEnd EXCEPT ![c] = "open"]
      /\ sock' = [sock EXCEPT ![FreeFd] = c]
      /\ backlog' = Tail(backlog) /\ fdCell' = FreeFd
      /\ online' = online + 1 /\ mainPc' = "check"
      /\ hpc' = [hpc EXCEPT ![online + 1] = "start"]
      /\ UNCHANGED <<server, receivedSIGINT, joined, fd, got, need, seen, lock,
                     total, clientEnd, up, down, payload, cpc, reply>>
  BY DEF GetNewConnection, clientVars
<1> HIDE DEF c
<1>4. SocketsTypeOK'
  BY <1>0, <1>1, <1>3 DEF TypeOK, SocketsTypeOK, Ends
<1>5. ServerTypeOK'
  <2>1. hpc[online + 1] = "none" /\ hpc'[online + 1] = "start"
    BY <1>0, <1>2, <1>3 DEF Connections, TypeOK, ServerTypeOK
  <2>2. \A h \in Handlers :
          /\ hpc'[h] = "length" => Len(got'[h]) < WordBytes
          /\ hpc'[h] # "length" => Len(got'[h]) <= Value(need'[h])
    BY <1>0, <1>2, <1>3, <2>1 DEF TypeOK, ServerTypeOK
  <2>3. sock' \in [Fds -> Clients \cup {NoClient}]
    BY <1>0, <1>1, <1>3 DEF TypeOK, ServerTypeOK
  <2>4. online' \in 0 .. Cardinality(Clients)
    BY <1>1, <1>2, <1>3, ClientsFinite
  <2>5. /\ fdCell' \in Fds \cup {NoFd}
        /\ hpc' \in [Handlers -> {"none", "start", "length", "data", "lock",
                           "store", "answer", "close", "exit", "ended"}]
    BY <1>0, <1>1, <1>3 DEF TypeOK, ServerTypeOK
  <2> QED BY <1>0, <1>3, <2>2, <2>3, <2>4, <2>5 DEF TypeOK, ServerTypeOK
<1>6. ClientTypeOK'
  BY <1>0, <1>3 DEF TypeOK, ClientTypeOK
<1>7. ClientReads'
  <2>1. serverEnd[c] = "backlog"
    BY <1>0 DEF Connections, TypeOK, SocketsTypeOK, c
  <2> QED BY <1>0, <1>3, <2>1 DEF ClientReads, TypeOK, SocketsTypeOK
<1>8. Totals'
  BY <1>0, <1>2, <1>3 DEF Totals, Connections, TypeOK, ServerTypeOK
<1>9. Counts'
  <2>1. hpc[online + 1] = "none" /\ online + 1 \notin total
    BY <1>0, <1>2 DEF Connections, Totals
  <2>2. Counted' = Counted
    BY <1>0, <1>2, <1>3, <2>1 DEF Counted, TypeOK, ServerTypeOK
  <2>3. Answered' = Answered
    BY <1>3 DEF Answered
  <2> QED BY <1>0, <2>2, <2>3 DEF Counts
<1>10. Accepted' = Accepted \cup {c}
  BY <1>0, <1>1, <1>3 DEF Accepted, TypeOK, SocketsTypeOK
<1>11. Connections'
  <2>1. /\ Len(backlog) \in Nat \ {0} /\ Len(backlog') = Len(backlog) - 1
        /\ \A i \in 1 .. Len(backlog') :
             i + 1 \in 1 .. Len(backlog) /\ backlog'[i] = backlog[i + 1]
        /\ c = backlog[1] /\ 1 \in 1 .. Len(backlog)
    BY <1>0, <1>3 DEF TypeOK, SocketsTypeOK, c
  <2>2. \A i, j \in 1 .. Len(backlog') : backlog'[i] = backlog'[j] => i = j
    BY <1>0, <2>1 DEF Connections
  <2>3. \A i \in 1 .. Len(backlog') : serverEnd'[backlog'[i]] = "backlog"
    <3> SUFFICES ASSUME NEW i \in 1 .. Len(backlog')
                 PROVE  serverEnd'[backlog'[i]] = "backlog"
      OBVIOUS
    <3>1. backlog'[i] = backlog[i + 1] /\ i + 1 \in 1 .. Len(backlog)
      BY <2>1
    <3>2. backlog[i + 1] # c
      BY <1>0, <2>1, <3>1 DEF Connections
    <3>3. backlog[i + 1] \in Clients /\ serverEnd[backlog[i + 1]] = "backlog"
      BY <1>0, <3>1 DEF Connections, TypeOK, SocketsTypeOK
    <3> QED BY <1>0, <1>3, <3>1, <3>2, <3>3 DEF TypeOK, SocketsTypeOK
  <2>4. \A f \in Fds : sock'[f] # NoClient => sock'[f] \in Accepted'
    BY <1>0, <1>3, <1>10 DEF Connections, TypeOK, ServerTypeOK
  <2>5. \A f, g \in Fds : sock'[f] = sock'[g] /\ sock'[f] # NoClient => f = g
    BY <1>0, <1>1, <1>3 DEF Connections, TypeOK, ServerTypeOK
  <2>6. online' = Cardinality(Accepted')
    <3>1. IsFiniteSet(Accepted)
      BY ClientsFinite DEF Accepted
    <3> QED BY <1>0, <1>1, <1>3, <1>10, <3>1, FS_AddElement DEF Connections
  <2>7. \A h \in Handlers : hpc'[h] = "none" <=> h > online'
    <3> SUFFICES ASSUME NEW h \in Handlers
                 PROVE  hpc'[h] = "none" <=> h > online'
      OBVIOUS
    <3>1. h \in Nat /\ (hpc[h] = "none" <=> h > online)
      BY <1>0 DEF Connections, Handlers
    <3>2. hpc'[h] = IF h = online + 1 THEN "start" ELSE hpc[h]
      BY <1>0, <1>2, <1>3 DEF TypeOK, ServerTypeOK
    <3> QED BY <1>2, <1>3, <3>1, <3>2
  <2> QED BY <2>2, <2>3, <2>4, <2>5, <2>6, <2>7 DEF Connections
<1> QED BY <1>4, <1>5, <1>6, <1>7, <1>8, <1>9, <1>11 DEF PccInv, TypeOK

LEMMA MainKeeps ==
  ASSUME PccInv, ServerMain \/ Signal, UNCHANGED clientVars
  PROVE  PccInv'
<1>0. server = "running" /\ TypeOK
  BY DEF ServerMain, Signal, PccInv
<1>1. CASE StartListen \/ TestSIGINT \/ CallAccept \/ FinishMainJoin
             \/ SIGINT_handler
  <2>1. /\ mainPc' \in {mainPc, "check", "call", "accept", "join"}
        /\ receivedSIGINT' \in {TRUE, receivedSIGINT}
        /\ joined' \in 0 .. Cardinality(Clients) /\ fdCell' \in {fdCell, NoFd}
        /\ UNCHANGED <<server, online, sock, handler, lock, total, sockets>>
    <3>1. CASE StartListen \/ TestSIGINT \/ CallAccept
      BY <1>0, <3>1 DEF TypeOK, ServerTypeOK, StartListen, TestSIGINT, CallAccept
    <3>2. CASE FinishMainJoin
      BY <1>0, <3>2, ClientsFinite DEF TypeOK, ServerTypeOK, FinishMainJoin
    <3>3. CASE SIGINT_handler
      BY <1>0, <3>3 DEF TypeOK, ServerTypeOK, SIGINT_handler
    <3> QED BY <1>1, <3>1, <3>2, <3>3
  <2> QED BY <2>1, MainSteps
<1>2. CASE StartFails \/ GetNewConnectionFails \/ FinishMainPrint
  BY <1>2, ProcessEnds
     DEF StartFails, GetNewConnectionFails, FinishMainPrint, Exit
<1>3. CASE GetNewConnection
  BY <1>0, <1>3, ConnectionAccepted
<1> QED BY <1>1, <1>2, <1>3 DEF ServerMain, Signal

-----------------------------------------------------------------------------
(* The steps of the threads.                                               *)

\* What is kept while the connections and their descriptors are.
LEMMA ConnectionsStay ==
  ASSUME Connections, UNCHANGED <<backlog, online, sock, serverEnd>>,
         \A k \in Handlers : hpc'[k] = "none" <=> hpc[k] = "none"
  PROVE  Connections'
BY DEF Connections, Accepted

\* As many answers as before, and as many threads past theirs.
LEMMA CountsStay ==
  ASSUME Counts, ServerTypeOK', Answered' \subseteq Answered,
         Counted \subseteq Counted'
  PROVE  Counts'
<1>1. Answered \in SUBSET Clients /\ Answered' \in SUBSET Clients
  BY DEF Answered
<1>2. Counted' \in SUBSET Handlers
  BY DEF Counted, ServerTypeOK
<1>3. IsFiniteSet(Answered) /\ IsFiniteSet(Counted')
  BY <1>1, <1>2, ClientsFinite
<1>4. /\ Cardinality(Answered') <= Cardinality(Answered)
      /\ Cardinality(Counted) <= Cardinality(Counted')
  BY <1>3, FS_Subset
<1>5. /\ Cardinality(Answered') \in Nat /\ Cardinality(Answered) \in Nat
      /\ Cardinality(Counted) \in Nat /\ Cardinality(Counted') \in Nat
  BY <1>3, FS_Subset, FS_CardinalityType
<1> QED BY <1>4, <1>5 DEF Counts

\* A thread reads: what it has, and whether it goes on, is all that changes.
LEMMA ThreadReads ==
  ASSUME PccInv, server = "running", NEW h \in Handlers,
         SocketsTypeOK', got' \in [Handlers -> Seq(Bytes)],
         need' \in [Handlers -> Words], fd' \in [Handlers -> Fds \cup {NoFd}],
         hpc[h] \in {"start", "length", "data"},
         NEW p \in {"length", "data", "lock", "close"},
         hpc' = [hpc EXCEPT ![h] = p],
         p = "length" => Len(got'[h]) < WordBytes,
         p # "length" => Len(got'[h]) <= Value(need'[h]),
         \A k \in Handlers \ {h} : got'[k] = got[k] /\ need'[k] = need[k],
         UNCHANGED <<server_main, sock, seen, lock, total, backlog, serverEnd,
                     down, clientVars>>
  PROVE  PccInv'
<1> USE DEF server_main, clientVars
<1>0. TypeOK /\ ClientReads /\ Totals /\ Counts /\ Connections
  BY DEF PccInv
<1>1. /\ hpc'[h] = p
      /\ \A k \in Handlers \ {h} : hpc'[k] = hpc[k]
      /\ hpc' \in [Handlers -> {"none", "start", "length", "data", "lock",
                                "store", "answer", "close", "exit", "ended"}]
  BY <1>0 DEF TypeOK, ServerTypeOK
<1>2. ServerTypeOK'
  <2>1. \A k \in Handlers :
          /\ hpc'[k] = "length" => Len(got'[k]) < WordBytes
          /\ hpc'[k] # "length" => Len(got'[k]) <= Value(need'[k])
    BY <1>0, <1>1 DEF TypeOK, ServerTypeOK
  <2> QED BY <1>0, <1>1, <2>1 DEF TypeOK, ServerTypeOK
<1>3. ClientTypeOK' /\ ClientReads'
  BY <1>0 DEF TypeOK, ClientTypeOK, ClientReads
<1>4. Totals'
  BY <1>0, <1>1 DEF Totals
<1>5. Answered' \subseteq Answered /\ Counted \subseteq Counted'
  BY <1>0, <1>1 DEF Answered, Counted, Totals, TypeOK, ServerTypeOK
<1>6. Counts'
  BY <1>0, <1>2, <1>5, CountsStay
<1>7. Connections'
  BY <1>0, <1>1, ConnectionsStay
<1> QED BY <1>2, <1>3, <1>4, <1>6, <1>7 DEF PccInv, TypeOK

\* The streams after a read, and after one that failed.
LEMMA ReceiveTypes ==
  ASSUME TypeOK, NEW h \in Handlers, NEW max \in Int,
         NEW chunk \in Arrived(h, max), Receive(h, chunk)
  PROVE  /\ SocketsTypeOK' /\ UNCHANGED <<backlog, serverEnd, down>>
         /\ chunk \in Seq(Bytes) /\ Len(chunk) \in 1 .. max
<1>1. Conn(h) \in Clients /\ chunk \in Readable(up[Conn(h)], max)
  BY DEF Arrived, Conn, TypeOK, ServerTypeOK
<1>2. up[Conn(h)] \in Seq(Bytes)
  BY <1>1 DEF TypeOK, SocketsTypeOK
<1>3. /\ chunk \in Seq(Bytes) /\ Len(chunk) \in 1 .. max
      /\ After(up[Conn(h)], chunk) \in Seq(Bytes)
  BY <1>1, <1>2, ReadableTypes
<1> QED BY <1>1, <1>3 DEF Receive, TypeOK, SocketsTypeOK

LEMMA ReceiveFailsTypes ==
  ASSUME TypeOK, NEW h \in Handlers, ReceiveFails(h)
  PROVE  SocketsTypeOK' /\ UNCHANGED <<backlog, serverEnd, down>>
BY DEF ReceiveFails, ReadFailed, Conn, TypeOK, SocketsTypeOK, ServerTypeOK, Ends

LEMMA ReadLengthKeeps ==
  ASSUME PccInv, server = "running", NEW h \in Handlers,
         ReadLength(h) \/ ReadLengthFails(h), UNCHANGED clientVars
  PROVE  PccInv'
<1>0. TypeOK /\ hpc[h] = "length" /\ hpc = [hpc EXCEPT ![h] = "length"]
  BY DEF PccInv, TypeOK, ServerTypeOK, ReadLength, ReadLengthFails
<1>1. /\ got[h] \in Seq(Bytes) /\ Len(got[h]) < WordBytes
      /\ got \in [Handlers -> Seq(Bytes)] /\ need \in [Handlers -> Words]
      /\ fd \in [Handlers -> Fds \cup {NoFd}]
  BY <1>0 DEF TypeOK, ServerTypeOK
<1>2. CASE ReadLength(h)
  <2>1. PICK chunk \in Arrived(h, LengthLeft(h)) :
          /\ Receive(h, chunk)
          /\ LET bytes == got[h] \o chunk IN
               IF Len(bytes) = WordBytes
               THEN /\ got' = [got EXCEPT ![h] = << >>]
                    /\ need' = [need EXCEPT ![h] = CharsToUnsignedInt(bytes)]
                    /\ hpc' = [hpc EXCEPT ![h] = "data"]
               ELSE /\ got' = [got EXCEPT ![h] = bytes]
                    /\ UNCHANGED <<hpc, need>>
    BY <1>2 DEF ReadLength
  <2> DEFINE bytes == got[h] \o chunk
  <2>2. LengthLeft(h) \in Int /\ LengthLeft(h) = WordBytes - Len(got[h])
    BY <1>1 DEF LengthLeft, WordBytes
  <2>3. /\ SocketsTypeOK' /\ UNCHANGED <<backlog, serverEnd, down>>
        /\ chunk \in Seq(Bytes) /\ Len(chunk) \in 1 .. LengthLeft(h)
    BY <1>0, <2>1, <2>2, ReceiveTypes
  <2>4. /\ bytes \in Seq(Bytes)
        /\ Len(bytes) \in Nat /\ Len(bytes) <= WordBytes
    BY <1>1, <2>2, <2>3 DEF WordBytes
  <2>5. UNCHANGED <<fd, seen, server_main, sock, lock, total>>
    BY <1>2 DEF ReadLength, HandlerUnchanged
  <2>6. CASE Len(bytes) = WordBytes
    <3>1. /\ got' = [got EXCEPT ![h] = << >>]
          /\ need' = [need EXCEPT ![h] = CharsToUnsignedInt(bytes)]
          /\ hpc' = [hpc EXCEPT ![h] = "data"]
      BY <2>1, <2>6
    <3>2. CharsToUnsignedInt(bytes) \in Words
      BY <2>4, <2>6, CharsToUnsignedIntType
    <3> HIDE DEF bytes
    <3>3. /\ got' \in [Handlers -> Seq(Bytes)] /\ need' \in [Handlers -> Words]
          /\ got'[h] = << >> /\ need'[h] \in Words
          /\ \A k \in Handlers \ {h} : got'[k] = got[k] /\ need'[k] = need[k]
      BY <1>1, <3>1, <3>2
    <3>4. Len(got'[h]) <= Value(need'[h])
      BY <3>3, ValueType
    <3> QED BY <1>0, <1>1, <2>3, <2>5, <3>1, <3>3, <3>4, ThreadReads
  <2>7. CASE Len(bytes) # WordBytes
    <3>0. Len(bytes) < WordBytes
      BY <2>4, <2>7 DEF WordBytes
    <3>1. got' = [got EXCEPT ![h] = bytes] /\ UNCHANGED <<hpc, need>>
      BY <2>1, <2>7
    <3> HIDE DEF bytes
    <3>2. hpc' = [hpc EXCEPT ![h] = "length"]
      BY <1>0, <3>1
    <3>3. /\ got' \in [Handlers -> Seq(Bytes)] /\ got'[h] = bytes
          /\ \A k \in Handlers \ {h} : got'[k] = got[k]
      BY <1>1, <2>4, <3>1
    <3>4. Len(got'[h]) < WordBytes
      BY <3>0, <3>3
    <3>5. /\ need' \in [Handlers -> Words]
          /\ \A k \in Handlers \ {h} : need'[k] = need[k]
      BY <1>1, <3>1
    <3> QED BY <1>0, <1>1, <2>3, <2>5, <3>2, <3>3, <3>4, <3>5, ThreadReads
  <2> QED BY <2>6, <2>7
<1>3. CASE ReadLengthFails(h)
  <2>1. Front(got[h]) \in Seq(Bytes) /\ Len(Front(got[h])) = Len(got[h]) - 1
    BY <1>1, <1>3, FrontTypes DEF ReadLengthFails
  <2>2. /\ got' = [got EXCEPT ![h] = Front(got[h])] /\ need' = need
        /\ hpc' = [hpc EXCEPT ![h] = "length"]
        /\ UNCHANGED <<fd, seen, server_main, sock, lock, total>>
    BY <1>0, <1>3 DEF ReadLengthFails, HandlerUnchanged
  <2>3. SocketsTypeOK' /\ UNCHANGED <<backlog, serverEnd, down>>
    BY <1>0, <1>3, ReceiveFailsTypes DEF ReadLengthFails
  <2>4. /\ got' \in [Handlers -> Seq(Bytes)] /\ got'[h] = Front(got[h])
        /\ \A k \in Handlers \ {h} : got'[k] = got[k]
    BY <1>1, <2>1, <2>2
  <2>5. Len(got'[h]) < WordBytes
    BY <1>1, <2>1, <2>4 DEF WordBytes
  <2> QED BY <1>0, <1>1, <2>2, <2>3, <2>4, <2>5, ThreadReads
<1> QED BY <1>2, <1>3

LEMMA ReadDataKeeps ==
  ASSUME PccInv, server = "running", NEW h \in Handlers,
         ReadData(h) \/ ReadDataFails(h), UNCHANGED clientVars
  PROVE  PccInv'
<1> DEFINE N == Value(need[h])
<1>0. TypeOK /\ hpc[h] = "data" /\ hpc = [hpc EXCEPT ![h] = "data"]
  BY DEF PccInv, TypeOK, ServerTypeOK, ReadData, ReadDataFails
<1>1. /\ got[h] \in Seq(Bytes) /\ Len(got[h]) <= N
      /\ got \in [Handlers -> Seq(Bytes)] /\ need \in [Handlers -> Words]
      /\ fd \in [Handlers -> Fds \cup {NoFd}]
  BY <1>0 DEF TypeOK, ServerTypeOK
<1>2. N \in Nat /\ Len(got[h]) \in Nat
  BY <1>1, ValueType
<1>3. /\ UNCHANGED <<fd, need, seen, server_main, sock, lock, total>>
      /\ \A k \in Handlers \ {h} : need'[k] = need[k]
  BY DEF ReadData, ReadDataFails, HandlerUnchanged
<1> HIDE DEF N
<1>4. CASE ReadData(h)
  <2> DEFINE Chunks == IF N = 0 /\ Conn(h) # NoClient
                       THEN {<< >>} ELSE Arrived(h, N - Len(got[h]))
  <2>1. PICK chunk \in Chunks :
          /\ Receive(h, chunk)
          /\ got' = [got EXCEPT ![h] = got[h] \o chunk]
          /\ hpc' = [hpc EXCEPT ![h] =
               IF Len(got[h] \o chunk) = N THEN "lock" ELSE "data"]
    BY <1>4 DEF ReadData, N
  <2>2. /\ SocketsTypeOK' /\ UNCHANGED <<backlog, serverEnd, down>>
        /\ chunk \in Seq(Bytes) /\ Len(chunk) <= N - Len(got[h])
    <3>1. CASE N = 0 /\ Conn(h) # NoClient
      <4>1. chunk = << >> /\ Len(chunk) = 0 /\ Len(got[h]) = 0
        BY <1>1, <1>2, <2>1, <3>1
      <4>2. Conn(h) \in Clients
        BY <1>0, <3>1 DEF Conn, TypeOK, ServerTypeOK
      <4>3. After(up[Conn(h)], chunk) \in Seq(Bytes)
        BY <1>0, <4>1, <4>2 DEF After, TypeOK, SocketsTypeOK
      <4>4. SocketsTypeOK' /\ UNCHANGED <<backlog, serverEnd, down>>
        BY <1>0, <2>1, <4>2, <4>3 DEF Receive, TypeOK, SocketsTypeOK
      <4> QED BY <3>1, <4>1, <4>4
    <3>2. CASE ~ (N = 0 /\ Conn(h) # NoClient)
      <4>1. chunk \in Arrived(h, N - Len(got[h])) /\ N - Len(got[h]) \in Int
        BY <1>2, <2>1, <3>2
      <4>2. /\ SocketsTypeOK' /\ UNCHANGED <<backlog, serverEnd, down>>
            /\ chunk \in Seq(Bytes) /\ Len(chunk) \in 1 .. N - Len(got[h])
        BY <1>0, <2>1, <4>1, ReceiveTypes
      <4> QED BY <1>2, <4>2
    <3> QED BY <3>1, <3>2
  <2> DEFINE bytes == got[h] \o chunk
             p == IF Len(bytes) = N THEN "lock" ELSE "data"
  <2>3. bytes \in Seq(Bytes) /\ Len(bytes) <= N
    BY <1>1, <1>2, <2>2
  <2>4. got' = [got EXCEPT ![h] = bytes] /\ hpc' = [hpc EXCEPT ![h] = p]
    BY <2>1
  <2>5. p \in {"length", "data", "lock", "close"} /\ p # "length"
    OBVIOUS
  <2> HIDE DEF p, bytes, Chunks
  <2>6. /\ got' \in [Handlers -> Seq(Bytes)] /\ got'[h] = bytes
        /\ \A k \in Handlers \ {h} : got'[k] = got[k]
    BY <1>1, <2>3, <2>4
  <2>7. Len(got'[h]) <= Value(need'[h])
    BY <1>3, <2>3, <2>6 DEF N
  <2> QED BY <1>0, <1>1, <1>3, <2>2, <2>4, <2>5, <2>6, <2>7, ThreadReads
<1>5. CASE ReadDataFails(h)
  <2>1. SocketsTypeOK' /\ UNCHANGED <<backlog, serverEnd, down>>
    BY <1>0, <1>5, ReceiveFailsTypes DEF ReadDataFails
  <2>2. CASE got[h] = << >>
    <3>1. hpc' = [hpc EXCEPT ![h] = "close"] /\ got' = got
      BY <1>5, <2>2 DEF ReadDataFails
    <3>2. Len(got'[h]) <= Value(need'[h])
      BY <1>1, <1>3, <3>1 DEF N
    <3> QED BY <1>0, <1>1, <1>3, <2>1, <3>1, <3>2, ThreadReads
  <2>3. CASE got[h] # << >>
    <3>1. Front(got[h]) \in Seq(Bytes) /\ Len(Front(got[h])) = Len(got[h]) - 1
      BY <1>1, <2>3, FrontTypes
    <3>2. /\ got' = [got EXCEPT ![h] = Front(got[h])]
          /\ hpc' = [hpc EXCEPT ![h] = "data"]
      BY <1>0, <1>5, <2>3 DEF ReadDataFails
    <3>3. /\ got' \in [Handlers -> Seq(Bytes)] /\ got'[h] = Front(got[h])
          /\ \A k \in Handlers \ {h} : got'[k] = got[k]
      BY <1>1, <3>1, <3>2
    <3>4. Len(got'[h]) <= N
      BY <1>1, <1>2, <3>1, <3>3
    <3>5. Len(got'[h]) <= Value(need'[h])
      BY <1>3, <3>4 DEF N
    <3> QED BY <1>0, <1>1, <1>3, <2>1, <3>2, <3>3, <3>5, ThreadReads
  <2> QED BY <2>2, <2>3
<1> QED BY <1>4, <1>5

LEMMA StartHandlerKeeps ==
  ASSUME PccInv, server = "running", NEW h \in Handlers,
         StartHandler(h), UNCHANGED clientVars
  PROVE  PccInv'
<1>1. TypeOK /\ Totals /\ hpc[h] = "start"
  BY DEF PccInv, StartHandler
<1>2. /\ UNCHANGED <<got, need, seen, server_main, sock, lock, total, sockets>>
      /\ fd' = [fd EXCEPT ![h] = fdCell]
      /\ hpc' = [hpc EXCEPT ![h] = "length"]
  BY DEF StartHandler, HandlerUnchanged
<1>3. SocketsTypeOK' /\ UNCHANGED <<backlog, serverEnd, down>>
  BY <1>1, <1>2 DEF TypeOK, SocketsTypeOK, sockets
<1>4. /\ got' \in [Handlers -> Seq(Bytes)] /\ need' \in [Handlers -> Words]
      /\ fd' \in [Handlers -> Fds \cup {NoFd}]
      /\ \A k \in Handlers \ {h} : got'[k] = got[k] /\ need'[k] = need[k]
  BY <1>1, <1>2 DEF TypeOK, ServerTypeOK
<1>5. Len(got'[h]) < WordBytes
  BY <1>1, <1>2 DEF Totals, WordBytes
<1> QED BY <1>1, <1>2, <1>3, <1>4, <1>5, ThreadReads

\* The totals are read and written back by one thread at a time.
LEMMA UpdateTotalsKeeps ==
  ASSUME PccInv, server = "running", NEW h \in Handlers,
         LockTotals(h) \/ StoreTotals(h), UNCHANGED clientVars
  PROVE  PccInv'
<1> USE DEF server_main, sockets, clientVars
<1>0. TypeOK /\ ClientReads /\ Totals /\ Counts /\ Connections
  BY DEF PccInv
<1>1. SocketsTypeOK' /\ ClientTypeOK' /\ ClientReads'
  BY <1>0 DEF LockTotals, StoreTotals, TypeOK, SocketsTypeOK, ClientTypeOK,
              ClientReads
<1>2. /\ hpc[h] \in {"lock", "store"} /\ h # NoHandler
      /\ UNCHANGED <<fd, got, need, server, mainPc, receivedSIGINT, online,
                     joined, fdCell, sock>>
  BY DEF LockTotals, StoreTotals, Handlers, NoHandler
<1>3. CASE LockTotals(h)
  <2>1. /\ hpc' = [hpc EXCEPT ![h] = "store"] /\ lock = NoHandler /\ lock' = h
        /\ seen' = [seen EXCEPT ![h] = total] /\ total' = total
        /\ hpc[h] = "lock"
    BY <1>3 DEF LockTotals
  <2>2. ServerTypeOK'
    BY <1>0, <1>2, <2>1 DEF TypeOK, ServerTypeOK
  <2>3. Totals'
    BY <1>0, <1>2, <2>1 DEF Totals, TypeOK, ServerTypeOK, Handlers, NoHandler
  <2>4. Answered' = Answered /\ Counted \subseteq Counted'
    BY <1>0, <1>3, <2>1
       DEF LockTotals, Answered, Counted, TypeOK, ServerTypeOK
  <2>5. Counts'
    BY <1>0, <2>2, <2>4, CountsStay
  <2>6. Connections'
    <3>1. \A k \in Handlers : hpc'[k] = "none" <=> hpc[k] = "none"
      BY <1>0, <2>1 DEF TypeOK, ServerTypeOK
    <3> QED BY <1>0, <1>3, <3>1, ConnectionsStay DEF LockTotals
  <2> QED BY <1>1, <2>2, <2>3, <2>5, <2>6 DEF PccInv, TypeOK
<1>4. CASE StoreTotals(h)
  <2>1. /\ hpc' = [hpc EXCEPT ![h] = "answer"] /\ lock' = NoHandler
        /\ total' = seen[h] \cup {h} /\ seen' = seen
        /\ hpc[h] = "store"
    BY <1>4 DEF StoreTotals
  <2>2. total' = total \cup {h} /\ lock = h
    BY <1>0, <2>1 DEF Totals
  <2>3. ServerTypeOK'
    BY <1>0, <1>2, <2>1, <2>2 DEF TypeOK, ServerTypeOK
  <2>4. Totals'
    BY <1>0, <1>2, <2>1, <2>2
       DEF Totals, TypeOK, ServerTypeOK, Handlers, NoHandler
  <2>5. Answered' = Answered /\ Counted \subseteq Counted'
    BY <1>0, <1>4, <2>1, <2>2
       DEF StoreTotals, Answered, Counted, TypeOK, ServerTypeOK
  <2>6. Counts'
    BY <1>0, <2>3, <2>5, CountsStay
  <2>7. Connections'
    <3>1. \A k \in Handlers : hpc'[k] = "none" <=> hpc[k] = "none"
      BY <1>0, <2>1 DEF TypeOK, ServerTypeOK
    <3> QED BY <1>0, <1>4, <3>1, ConnectionsStay DEF StoreTotals
  <2> QED BY <1>1, <2>3, <2>4, <2>6, <2>7 DEF PccInv, TypeOK
<1> QED BY <1>3, <1>4

\* An answer makes at most one client answered, and its thread, which has
\* counted, one more that is past the answer.
LEMMA SendAnswerKeeps ==
  ASSUME PccInv, server = "running", NEW h \in Handlers,
         SendAnswer(h), UNCHANGED clientVars
  PROVE  PccInv'
<1> DEFINE c == Conn(h)
<1> USE DEF server_main, clientVars
<1>0. TypeOK /\ ClientReads /\ Totals /\ Counts /\ Connections
  BY DEF PccInv
<1>1. /\ hpc[h] = "answer" /\ c \in Clients
      /\ hpc' = [hpc EXCEPT ![h] = "close"]
      /\ clientEnd' = Written(clientEnd, c)
      /\ down' \in {down, [down EXCEPT ![c] = down[c] \o Answer(h)]}
      /\ UNCHANGED <<fd, got, need, seen, backlog, serverEnd, up, sock, lock,
                     total, server_main, clientVars>>
  BY <1>0 DEF SendAnswer, HandlerUnchanged, Conn, TypeOK, ServerTypeOK
<1> HIDE DEF c
<1>2. Answer(h) \in Seq(Bytes)
  <2>1. got[h] \in Seq(Bytes)
    BY <1>0 DEF TypeOK, ServerTypeOK
  <2> QED BY <2>1, PrintablesType, UnsignedIntToCharsType DEF Answer
<1>3. SocketsTypeOK'
  <2>1. clientEnd' \in [Clients -> Ends]
    BY <1>0, <1>1 DEF TypeOK, SocketsTypeOK, Written, Ends
  <2>2. down[c] \o Answer(h) \in Seq(Bytes)
    BY <1>0, <1>1, <1>2 DEF TypeOK, SocketsTypeOK
  <2>3. down' \in [Clients -> Seq(Bytes)]
    BY <1>0, <1>1, <2>2 DEF TypeOK, SocketsTypeOK
  <2> QED BY <1>0, <1>1, <2>1, <2>3 DEF TypeOK, SocketsTypeOK
<1>4. ServerTypeOK'
  BY <1>0, <1>1 DEF TypeOK, ServerTypeOK
<1>5. ClientTypeOK' /\ ClientReads'
  BY <1>0, <1>1 DEF TypeOK, ClientTypeOK, ClientReads
<1>6. Totals'
  BY <1>0, <1>1 DEF Totals, TypeOK, ServerTypeOK
<1>7. Counts'
  <2>1. Answered' \subseteq Answered \cup {c}
    <3> SUFFICES ASSUME NEW d \in Clients, d # c PROVE down'[d] = down[d]
      BY <1>1 DEF Answered
    <3> QED BY <1>0, <1>1 DEF TypeOK, SocketsTypeOK
  <2>2. h \in total /\ h \notin Counted
    BY <1>0, <1>1 DEF Totals, Counted
  <2>3. Counted' = Counted \cup {h}
    BY <1>0, <1>1, <2>2 DEF Counted, TypeOK, ServerTypeOK
  <2>4. /\ IsFiniteSet(Answered) /\ IsFiniteSet(Counted)
        /\ Cardinality(Answered) \in Nat /\ Cardinality(Counted) \in Nat
    <3>1. Answered \in SUBSET Clients /\ Counted \in SUBSET Handlers
      BY <1>0 DEF Answered, Counted, TypeOK, ServerTypeOK
    <3> QED BY <3>1, ClientsFinite
  <2>5. /\ IsFiniteSet(Answered \cup {c})
        /\ Cardinality(Answered \cup {c}) <= Cardinality(Answered) + 1
    <3>1. IsFiniteSet(Answered \cup {c})
      BY <2>4, FS_AddElement
    <3>2. CASE c \in Answered
      <4>1. Answered \cup {c} = Answered
        BY <3>2
      <4>2. Cardinality(Answered) <= Cardinality(Answered) + 1
        BY <2>4
      <4> QED BY <3>1, <4>1, <4>2
    <3>3. CASE c \notin Answered
      BY <2>4, <3>1, <3>3, FS_AddElement
    <3> QED BY <3>2, <3>3
  <2>6. Cardinality(Counted') = Cardinality(Counted) + 1
    BY <2>2, <2>3, <2>4, FS_AddElement
  <2>7. Cardinality(Answered') <= Cardinality(Answered \cup {c})
    BY <2>1, <2>5, FS_Subset
  <2>8. /\ Cardinality(Answered') \in Nat
        /\ Cardinality(Answered \cup {c}) \in Nat
    BY <2>1, <2>5, FS_Subset, FS_CardinalityType
  <2>9. Cardinality(Answered) <= Cardinality(Counted)
    BY <1>0 DEF Counts
  <2> QED BY <2>4, <2>5, <2>6, <2>7, <2>8, <2>9 DEF Counts
<1>8. Connections'
  <2>1. \A k \in Handlers : hpc'[k] = "none" <=> hpc[k] = "none"
    BY <1>0, <1>1 DEF TypeOK, ServerTypeOK
  <2> QED BY <1>0, <1>1, <2>1, ConnectionsStay
<1> QED BY <1>3, <1>4, <1>5, <1>6, <1>7, <1>8 DEF PccInv, TypeOK

LEMMA CloseConnectionKeeps ==
  ASSUME PccInv, server = "running", NEW h \in Handlers,
         CloseConnection(h), UNCHANGED clientVars
  PROVE  PccInv'
<1> DEFINE c == Conn(h)
<1> USE DEF server_main, clientVars
<1>0. TypeOK /\ ClientReads /\ Totals /\ Counts /\ Connections
  BY DEF PccInv
<1>1. PICK p \in {"exit", "ended"} :
      /\ hpc[h] = "close" /\ hpc' = [hpc EXCEPT ![h] = p]
      /\ UNCHANGED <<fd, got, need, seen, lock, total, backlog, clientEnd, up,
                     down, server_main, clientVars>>
  BY DEF CloseConnection, AfterClose
<1>2. \/ c = NoClient /\ UNCHANGED <<serverEnd, sock>>
      \/ /\ c \in Accepted /\ fd[h] \in Fds /\ sock[fd[h]] = c
         /\ serverEnd' = [serverEnd EXCEPT ![c] = Closed(up[c])]
         /\ sock' = [sock EXCEPT ![fd[h]] = NoClient]
  BY <1>0 DEF CloseConnection, Conn, Connections, TypeOK, ServerTypeOK
<1>3. Closed(up[c]) \in {"closed", "reset"}
  BY DEF Closed
<1>4. /\ hpc' \in [Handlers -> {"none", "start", "length", "data", "lock",
                                "store", "answer", "close", "exit", "ended"}]
      /\ \A k \in Handlers :
           \/ hpc'[k] = hpc[k]
           \/ hpc[k] = "close" /\ hpc'[k] \in {"exit", "ended"}
  BY <1>0, <1>1 DEF TypeOK, ServerTypeOK
<1> HIDE DEF c
<1>5. SocketsTypeOK' /\ sock' \in [Fds -> Clients \cup {NoClient}]
  BY <1>0, <1>1, <1>2, <1>3 DEF TypeOK, SocketsTypeOK, ServerTypeOK, Ends
<1>6. ServerTypeOK'
  BY <1>0, <1>1, <1>4, <1>5 DEF TypeOK, ServerTypeOK
<1>7. ClientTypeOK' /\ ClientReads'
  <2>1. \A d \in Clients : serverEnd[d] = "none" => serverEnd'[d] = "none"
    BY <1>0, <1>2 DEF TypeOK, SocketsTypeOK, Accepted
  <2> QED BY <1>0, <1>1, <2>1 DEF TypeOK, ClientTypeOK, ClientReads
<1>8. Totals'
  BY <1>0, <1>1, <1>4 DEF Totals
<1>9. Answered' = Answered /\ Counted \subseteq Counted'
  BY <1>0, <1>1, <1>4 DEF Answered, Counted, TypeOK, ServerTypeOK
<1>10. Counts'
  BY <1>0, <1>6, <1>9, CountsStay
<1>11. Connections'
  <2>1. \A k \in Handlers : hpc'[k] = "none" <=> hpc[k] = "none"
    BY <1>1, <1>4
  <2>2. CASE c = NoClient /\ UNCHANGED <<serverEnd, sock>>
    BY <1>0, <1>1, <2>1, <2>2, ConnectionsStay
  <2>3. CASE /\ c \in Accepted /\ fd[h] \in Fds /\ sock[fd[h]] = c
             /\ serverEnd' = [serverEnd EXCEPT ![c] = Closed(up[c])]
             /\ sock' = [sock EXCEPT ![fd[h]] = NoClient]
    <3>1. Accepted' = Accepted
      BY <1>0, <1>3, <2>3 DEF Accepted, TypeOK, SocketsTypeOK
    <3>2. \A i \in 1 .. Len(backlog) : serverEnd'[backlog[i]] = "backlog"
      <4> SUFFICES ASSUME NEW i \in 1 .. Len(backlog)
                   PROVE  serverEnd'[backlog[i]] = "backlog"
        OBVIOUS
      <4>1. serverEnd[backlog[i]] = "backlog" /\ backlog[i] \in Clients
        BY <1>0 DEF Connections, TypeOK, SocketsTypeOK
      <4> QED BY <1>0, <2>3, <4>1 DEF Accepted, TypeOK, SocketsTypeOK
    <3>3. \A f \in Fds : sock'[f] = IF f = fd[h] THEN NoClient ELSE sock[f]
      BY <1>0, <2>3 DEF TypeOK, ServerTypeOK
    <3> QED BY <1>0, <1>1, <2>1, <3>1, <3>2, <3>3 DEF Connections
  <2> QED BY <1>2, <2>2, <2>3
<1> QED BY <1>5, <1>6, <1>7, <1>8, <1>10, <1>11 DEF PccInv, TypeOK

LEMMA ThreadKeeps ==
  ASSUME PccInv, NEW h \in Handlers, Handler(h), UNCHANGED clientVars
  PROVE  PccInv'
<1>1. server = "running"
  BY DEF Handler
<1>2. CASE ReadLengthExits(h) \/ CallocFails(h) \/ SendAnswerExits(h)
             \/ ExitProcess(h)
  BY <1>2, ProcessEnds
     DEF ReadLengthExits, CallocFails, SendAnswerExits, ExitProcess, Exit
<1>3. CASE ReadLength(h) \/ ReadLengthFails(h)
  BY <1>1, <1>3, ReadLengthKeeps
<1>4. CASE ReadData(h) \/ ReadDataFails(h)
  BY <1>1, <1>4, ReadDataKeeps
<1>5. CASE LockTotals(h) \/ StoreTotals(h)
  BY <1>1, <1>5, UpdateTotalsKeeps
<1>6. CASE StartHandler(h)
  BY <1>1, <1>6, StartHandlerKeeps
<1>7. CASE SendAnswer(h)
  BY <1>1, <1>7, SendAnswerKeeps
<1>8. CASE CloseConnection(h)
  BY <1>1, <1>8, CloseConnectionKeeps
<1> QED BY <1>2, <1>3, <1>4, <1>5, <1>6, <1>7, <1>8 DEF Handler

-----------------------------------------------------------------------------
(* The steps of the clients.                                               *)

ClientStates == {"connect", "random", "length", "data", "answer", "print",
                 "printed", "failed", "dead"}

\* A client moves and the server does nothing: no client is answered by that,
\* and who is accepted or waits to be stays so.
LEMMA ClientMoves ==
  ASSUME PccInv, NEW c \in Clients, NEW p \in ClientStates,
         UNCHANGED <<serverVars, payload>>, SocketsTypeOK',
         cpc' = [cpc EXCEPT ![c] = p], reply' \in [Clients -> Seq(Bytes)],
         \A d \in Clients \ {c} : reply'[d] = reply[d] /\ down'[d] = down[d],
         reply'[c] # << >> \/ down'[c] # << >> =>
           reply[c] # << >> \/ down[c] # << >>,
         p \in {"random", "length", "data"} => reply'[c] = << >>,
         p = "answer" => Len(reply'[c]) < WordBytes,
         p \in {"print", "printed"} => Len(reply'[c]) = WordBytes,
         p # "connect",
         \A d \in Clients : serverEnd[d] = "none" /\ d # c => serverEnd'[d] = "none",
         server = "running" => Connections'
  PROVE  PccInv'
<1> USE DEF serverVars
<1>0. TypeOK /\ ClientReads /\ Totals /\ Counts
  BY DEF PccInv
<1>1. ServerTypeOK'
  BY <1>0 DEF TypeOK, ServerTypeOK
<1>2. cpc'[c] = p /\ \A d \in Clients \ {c} : cpc'[d] = cpc[d]
  BY <1>0 DEF TypeOK, ClientTypeOK
<1>3. ClientTypeOK'
  BY <1>0 DEF TypeOK, ClientTypeOK, ClientStates
<1>4. ClientReads'
  <2> SUFFICES ASSUME NEW d \in Clients
               PROVE  /\ cpc'[d] \in {"connect", "random", "length", "data"}
                           => reply'[d] = << >>
                      /\ cpc'[d] = "answer" => Len(reply'[d]) < WordBytes
                      /\ cpc'[d] \in {"print", "printed"}
                           => Len(reply'[d]) = WordBytes
                      /\ cpc'[d] = "connect" => serverEnd'[d] = "none"
    BY DEF ClientReads
  <2>1. CASE d = c
    BY <1>2, <2>1
  <2>2. CASE d # c
    BY <1>0, <1>2, <2>2 DEF ClientReads
  <2> QED BY <2>1, <2>2
<1>5. Totals'
  BY <1>0 DEF Totals
<1>6. Answered' \subseteq Answered
  <2> SUFFICES ASSUME NEW d \in Answered' PROVE d \in Answered
    OBVIOUS
  <2>1. d \in Clients /\ (reply'[d] # << >> \/ down'[d] # << >>)
    BY DEF Answered
  <2>2. CASE d = c
    BY <2>1, <2>2 DEF Answered
  <2>3. CASE d # c
    BY <2>1, <2>3 DEF Answered
  <2> QED BY <2>2, <2>3
<1>7. Counted' = Counted
  BY DEF Counted
<1>8. Counts'
  BY <1>0, <1>1, <1>6, <1>7, CountsStay
<1> QED BY <1>1, <1>3, <1>4, <1>5, <1>8 DEF PccInv, TypeOK

\* The server's ends after a write of a client, or a failed read.
LEMMA EndsMoved ==
  ASSUME PccInv, UNCHANGED <<serverVars, backlog>>, NEW c \in Clients,
         serverEnd' \in {serverEnd, Written(serverEnd, c),
                         [serverEnd EXCEPT ![c] = "gone"]},
         serverEnd' = [serverEnd EXCEPT ![c] = "gone"] =>
           serverEnd[c] \in {"reset", "gone"}
  PROVE  /\ serverEnd' \in [Clients -> Ends]
         /\ \A d \in Clients : serverEnd[d] = "none" => serverEnd'[d] = "none"
         /\ server = "running" => Connections'
<1>0. serverEnd \in [Clients -> Ends] /\ backlog \in Seq(Clients)
  BY DEF PccInv, TypeOK, SocketsTypeOK
<1>1. /\ serverEnd' \in [Clients -> Ends]
      /\ \A d \in Clients :
           \/ serverEnd'[d] = serverEnd[d]
           \/ serverEnd[d] \in {"closed", "reset"}
                /\ serverEnd'[d] \in {"reset", "gone"}
  <2>1. CASE serverEnd' = serverEnd
    BY <1>0, <2>1
  <2>2. CASE serverEnd' = Written(serverEnd, c)
    BY <1>0, <2>2 DEF Written, Ends
  <2>3. CASE /\ serverEnd' = [serverEnd EXCEPT ![c] = "gone"]
             /\ serverEnd[c] \in {"reset", "gone"}
    BY <1>0, <2>3 DEF Ends
  <2> QED BY <2>1, <2>2, <2>3
<1>2. ASSUME server = "running" PROVE Connections'
  <2>0. Connections
    BY <1>2 DEF PccInv
  <2>1. Accepted' = Accepted
    BY <1>1 DEF Accepted
  <2>2. \A i \in 1 .. Len(backlog) : serverEnd'[backlog[i]] = "backlog"
    BY <1>0, <1>1, <2>0 DEF Connections
  <2> QED BY <2>0, <2>1, <2>2 DEF Connections, serverVars
<1> QED BY <1>1, <1>2

\* The kernel completes a connection: its client was not in the backlog.
LEMMA GetConnectionKeeps ==
  ASSUME PccInv, NEW c \in Clients, GetConnection(c, Listening),
         UNCHANGED serverVars
  PROVE  PccInv'
<1>0. TypeOK /\ ClientReads /\ server = "running" /\ Connections
  BY DEF GetConnection, Listening, PccInv
<1>1. /\ cpc[c] = "connect" /\ cpc' = [cpc EXCEPT ![c] = "random"]
      /\ backlog' = Append(backlog, c)
      /\ clientEnd' = [clientEnd EXCEPT ![c] = "open"]
      /\ serverEnd' = [serverEnd EXCEPT ![c] = "backlog"]
      /\ UNCHANGED <<payload, reply, up, down>>
  BY DEF GetConnection
<1>2. SocketsTypeOK' /\ reply' \in [Clients -> Seq(Bytes)]
  BY <1>0, <1>1 DEF TypeOK, SocketsTypeOK, ClientTypeOK, Ends
<1>3. reply'[c] = << >> /\ serverEnd[c] = "none"
  BY <1>0, <1>1 DEF ClientReads
<1>4. /\ serverEnd'[c] = "backlog"
      /\ \A d \in Clients \ {c} : serverEnd'[d] = serverEnd[d]
  BY <1>0, <1>1 DEF TypeOK, SocketsTypeOK
<1>5. Connections'
  <2>1. Accepted' = Accepted
    BY <1>3, <1>4 DEF Accepted
  <2>2. /\ Len(backlog) \in Nat /\ Len(backlog') = Len(backlog) + 1
        /\ backlog'[Len(backlog) + 1] = c
        /\ \A i \in 1 .. Len(backlog) :
             backlog'[i] = backlog[i] /\ backlog[i] \in Clients
    BY <1>0, <1>1 DEF TypeOK, SocketsTypeOK
  <2>3. \A i \in 1 .. Len(backlog) : backlog[i] # c
    BY <1>0, <1>3 DEF Connections
  <2>4. \A i, j \in 1 .. Len(backlog') : backlog'[i] = backlog'[j] => i = j
    <3> SUFFICES ASSUME NEW i \in 1 .. Len(backlog'), NEW j \in 1 .. Len(backlog'),
                        backlog'[i] = backlog'[j]
                 PROVE  i = j
      OBVIOUS
    <3>1. \A k \in 1 .. Len(backlog') :
            k \in 1 .. Len(backlog) \/ k = Len(backlog) + 1
      BY <2>2
    <3>2. CASE i \in 1 .. Len(backlog) /\ j \in 1 .. Len(backlog)
      BY <1>0, <2>2, <3>2 DEF Connections
    <3>3. CASE i = Len(backlog) + 1 \/ j = Len(backlog) + 1
      BY <2>2, <2>3, <3>1, <3>3
    <3> QED BY <3>1, <3>2, <3>3
  <2>5. \A i \in 1 .. Len(backlog') : serverEnd'[backlog'[i]] = "backlog"
    <3> SUFFICES ASSUME NEW i \in 1 .. Len(backlog')
                 PROVE  serverEnd'[backlog'[i]] = "backlog"
      OBVIOUS
    <3>1. CASE i \in 1 .. Len(backlog)
      BY <1>0, <1>4, <2>2, <2>3, <3>1 DEF Connections
    <3>2. CASE i = Len(backlog) + 1
      BY <1>4, <2>2, <3>2
    <3> QED BY <2>2, <3>1, <3>2
  <2> QED BY <1>0, <2>1, <2>4, <2>5 DEF Connections, serverVars
<1> QED BY <1>1, <1>2, <1>3, <1>4, <1>5, ClientMoves DEF ClientStates

LEMMA SendToServerKeeps ==
  ASSUME PccInv, NEW c \in Clients, NEW bytes \in Seq(Bytes),
         NEW next \in {"data", "answer"}, UNCHANGED serverVars,
         cpc[c] \in {"length", "data"}, SendToServer(c, bytes, next)
  PROVE  PccInv'
<1>0. TypeOK /\ reply[c] = << >>
  BY DEF PccInv, ClientReads
<1>1. UNCHANGED <<payload, reply, backlog, down>>
  BY DEF SendToServer
<1>2. serverEnd' \in {serverEnd, Written(serverEnd, c)}
  BY DEF SendToServer
<1>3. /\ serverEnd' \in [Clients -> Ends]
      /\ \A d \in Clients : serverEnd[d] = "none" => serverEnd'[d] = "none"
      /\ server = "running" => Connections'
  <2>1. serverEnd' = [serverEnd EXCEPT ![c] = "gone"] =>
          serverEnd[c] \in {"reset", "gone"}
    <3>1. Written(serverEnd, c)[c] # "gone" \/ serverEnd[c] = "gone"
      BY <1>0 DEF Written, TypeOK, SocketsTypeOK
    <3>2. [serverEnd EXCEPT ![c] = "gone"][c] = "gone"
      BY <1>0 DEF TypeOK, SocketsTypeOK
    <3>3. CASE Broken(serverEnd[c])
      BY <3>3, <3>2 DEF SendToServer, Broken
    <3>4. CASE ~ Broken(serverEnd[c])
      <4>1. serverEnd[c] # "gone" /\ serverEnd' = Written(serverEnd, c)
        BY <3>4 DEF SendToServer, Broken
      <4> QED BY <3>1, <3>2, <4>1
    <3> QED BY <3>3, <3>4
  <2> QED BY <1>1, <1>2, <2>1, EndsMoved
<1>4. clientEnd' \in [Clients -> Ends] /\ up' \in [Clients -> Seq(Bytes)]
  <2>1. CASE Broken(serverEnd[c])
    BY <1>0, <2>1 DEF SendToServer, ClientEnds, Closed, TypeOK, SocketsTypeOK, Ends
  <2>2. CASE ~ Broken(serverEnd[c])
    <3>1. up[c] \o bytes \in Seq(Bytes) /\ clientEnd' = clientEnd
      BY <1>0, <2>2 DEF SendToServer, TypeOK, SocketsTypeOK
    <3> QED BY <1>0, <2>2, <3>1 DEF SendToServer, TypeOK, SocketsTypeOK
  <2> QED BY <2>1, <2>2
<1>5. SocketsTypeOK' /\ reply' \in [Clients -> Seq(Bytes)]
  BY <1>0, <1>1, <1>3, <1>4 DEF TypeOK, SocketsTypeOK, ClientTypeOK
<1>6. PICK p \in {next, "failed"} : cpc' = [cpc EXCEPT ![c] = p]
  BY DEF SendToServer, ClientEnds
<1>7. Len(reply'[c]) < WordBytes
  BY <1>0, <1>1 DEF WordBytes
<1> QED BY <1>0, <1>1, <1>3, <1>5, <1>6, <1>7, ClientMoves DEF ClientStates

LEMMA ReadAnswerKeeps ==
  ASSUME PccInv, NEW c \in Clients, UNCHANGED serverVars,
         ReadAnswer(c) \/ ReadAnswerFails(c)
  PROVE  PccInv'
<1>0. TypeOK /\ cpc[c] = "answer" /\ cpc = [cpc EXCEPT ![c] = "answer"]
  BY DEF PccInv, TypeOK, ClientTypeOK, ReadAnswer, ReadAnswerFails
<1>1. /\ reply[c] \in Seq(Bytes) /\ Len(reply[c]) < WordBytes
      /\ down[c] \in Seq(Bytes) /\ reply \in [Clients -> Seq(Bytes)]
      /\ down \in [Clients -> Seq(Bytes)]
  BY <1>0 DEF PccInv, ClientReads, TypeOK, SocketsTypeOK, ClientTypeOK
<1>2. CASE ReadAnswer(c)
  <2>1. PICK chunk \in Readable(down[c], WordBytes - Len(reply[c])) :
          /\ reply' = [reply EXCEPT ![c] = reply[c] \o chunk]
          /\ down' = [down EXCEPT ![c] = After(down[c], chunk)]
          /\ cpc' = [cpc EXCEPT ![c] =
               IF Len(reply[c] \o chunk) = WordBytes THEN "print" ELSE "answer"]
    BY <1>2 DEF ReadAnswer
  <2>2. /\ chunk \in Seq(Bytes) /\ Len(chunk) \in 1 .. WordBytes - Len(reply[c])
        /\ Len(chunk) <= Len(down[c]) /\ After(down[c], chunk) \in Seq(Bytes)
    <3>1. WordBytes - Len(reply[c]) \in Int
      BY <1>1 DEF WordBytes
    <3> QED BY <1>1, <3>1, ReadableTypes
  <2>3. down[c] # << >>
    BY <1>1, <2>2
  <2> DEFINE bytes == reply[c] \o chunk
             p == IF Len(bytes) = WordBytes THEN "print" ELSE "answer"
  <2>4. /\ bytes \in Seq(Bytes) /\ Len(bytes) <= WordBytes
        /\ Len(bytes) # WordBytes => Len(bytes) < WordBytes
    BY <1>1, <2>2 DEF WordBytes
  <2>5. /\ p \in {"print", "answer"} /\ cpc' = [cpc EXCEPT ![c] = p]
        /\ reply' = [reply EXCEPT ![c] = bytes]
        /\ p = "print" => Len(bytes) = WordBytes
        /\ p = "answer" => Len(bytes) < WordBytes
    BY <2>1, <2>4
  <2> HIDE DEF p, bytes
  <2>6. /\ reply' \in [Clients -> Seq(Bytes)] /\ reply'[c] = bytes
        /\ down' \in [Clients -> Seq(Bytes)]
        /\ \A d \in Clients \ {c} : reply'[d] = reply[d] /\ down'[d] = down[d]
    BY <1>1, <2>1, <2>2, <2>4, <2>5
  <2>7. UNCHANGED <<payload, backlog, clientEnd, serverEnd, up>>
    BY <1>2 DEF ReadAnswer
  <2>8. SocketsTypeOK'
    BY <1>0, <2>6, <2>7 DEF TypeOK, SocketsTypeOK
  <2>9. server = "running" => Connections'
    BY <2>7 DEF PccInv, Connections, Accepted, serverVars
  <2>10. /\ p \in {"random", "length", "data"} => reply'[c] = << >>
         /\ p = "answer" => Len(reply'[c]) < WordBytes
         /\ p \in {"print", "printed"} => Len(reply'[c]) = WordBytes
         /\ p # "connect" /\ p \in ClientStates
    BY <2>5, <2>6 DEF ClientStates
  <2> QED BY <2>3, <2>5, <2>6, <2>7, <2>8, <2>9, <2>10, ClientMoves
<1>3. CASE ReadAnswerFails(c)
  <2>1. /\ serverEnd[c] = "reset" /\ serverEnd' = [serverEnd EXCEPT ![c] = "gone"]
        /\ UNCHANGED <<payload, backlog, up, down>>
    BY <1>3 DEF ReadAnswerFails, ReadFailed
  <2>2. /\ serverEnd' \in [Clients -> Ends]
        /\ \A d \in Clients : serverEnd[d] = "none" => serverEnd'[d] = "none"
        /\ server = "running" => Connections'
    BY <2>1, EndsMoved
  <2>3. clientEnd' \in [Clients -> Ends]
    BY <1>0, <1>3
       DEF ReadAnswerFails, ClientEnds, Closed, TypeOK, SocketsTypeOK, Ends
  <2>4. SocketsTypeOK'
    BY <1>0, <2>1, <2>2, <2>3 DEF TypeOK, SocketsTypeOK
  <2>5. CASE reply[c] = << >>
    <3>1. cpc' = [cpc EXCEPT ![c] = "failed"] /\ reply' = reply
      BY <1>3, <2>5 DEF ReadAnswerFails, ClientEnds
    <3> QED BY <1>1, <2>1, <2>2, <2>4, <3>1, ClientMoves DEF ClientStates
  <2>6. CASE reply[c] # << >>
    <3>1. /\ reply' = [reply EXCEPT ![c] = Front(reply[c])]
          /\ cpc' = [cpc EXCEPT ![c] = "answer"]
      BY <1>0, <1>3, <2>6 DEF ReadAnswerFails
    <3>2. Front(reply[c]) \in Seq(Bytes) /\ Len(Front(reply[c])) = Len(reply[c]) - 1
      BY <1>1, <2>6, FrontTypes
    <3>3. /\ reply' \in [Clients -> Seq(Bytes)] /\ reply'[c] = Front(reply[c])
          /\ \A d \in Clients \ {c} : reply'[d] = reply[d]
      BY <1>1, <3>1, <3>2
    <3>4. Len(reply'[c]) < WordBytes
      BY <1>1, <3>2, <3>3 DEF WordBytes
    <3> QED BY <2>1, <2>2, <2>4, <2>6, <3>1, <3>3, <3>4, ClientMoves
            DEF ClientStates
  <2> QED BY <2>5, <2>6
<1> QED BY <1>2, <1>3

LEMMA ClientKeeps ==
  ASSUME PccInv, NEW c \in Clients, UNCHANGED serverVars,
         Client(c, Listening) \/ Die(c)
  PROVE  PccInv'
<1>0. TypeOK /\ ClientReads
  BY DEF PccInv
<1>1. CASE GetConnection(c, Listening)
  BY <1>1, GetConnectionKeeps
<1>2. CASE SendLengthToServer(c)
  <2>1. UnsignedIntToChars(Len(payload[c])) \in Seq(Bytes)
    <3>1. payload[c] \in Seq(Bytes)
      BY <1>0, PayloadsAssumption DEF TypeOK, ClientTypeOK
    <3> QED BY <3>1, UnsignedIntToCharsType
  <2> QED BY <1>2, <2>1, SendToServerKeeps DEF SendLengthToServer
<1>3. CASE SendRandomCharsToServer(c)
  <2>1. payload[c] \in Seq(Bytes)
    BY <1>0, PayloadsAssumption DEF TypeOK, ClientTypeOK
  <2> QED BY <1>3, <2>1, SendToServerKeeps DEF SendRandomCharsToServer
<1>4. CASE ReadAnswer(c) \/ ReadAnswerFails(c)
  BY <1>4, ReadAnswerKeeps
<1>5. CASE \/ GetConnectionFails(c, Listening) \/ GetRandomChars(c)
           \/ PrintAndExit(c)                  \/ Die(c)
  <2>1. PICK p \in {"failed", "length", "printed", "dead"} :
          /\ cpc' = [cpc EXCEPT ![c] = p]
          /\ p = "length" => cpc[c] = "random"
          /\ p = "printed" => cpc[c] = "print"
    BY <1>5 DEF GetConnectionFails, GetRandomChars, PrintAndExit, Die, ClientEnds
  <2>2. UNCHANGED <<payload, reply, backlog, serverEnd, down>>
    BY <1>5 DEF GetConnectionFails, GetRandomChars, PrintAndExit, Die, sockets
  <2>3. clientEnd' \in [Clients -> Ends] /\ up' \in [Clients -> Seq(Bytes)]
    <3>1. CASE GetConnectionFails(c, Listening) \/ PrintAndExit(c)
      BY <1>0, <3>1 DEF GetConnectionFails, PrintAndExit, ClientEnds, Closed,
                        TypeOK, SocketsTypeOK, Ends
    <3>2. CASE GetRandomChars(c)
      BY <1>0, <3>2 DEF GetRandomChars, sockets, TypeOK, SocketsTypeOK
    <3>3. CASE Die(c)
      <4>1. PICK n \in 0 .. Len(up[c]), end \in {Closed(down[c]), "reset"} :
              /\ up' = [up EXCEPT ![c] = SubSeq(up[c], 1, n)]
              /\ clientEnd' = [clientEnd EXCEPT ![c] =
                                 IF clientEnd[c] = "open" THEN end ELSE clientEnd[c]]
        BY <3>3 DEF Die
      <4>2. up[c] \in Seq(Bytes)
        BY <1>0 DEF TypeOK, SocketsTypeOK
      <4>3. SubSeq(up[c], 1, n) \in Seq(Bytes)
        BY <4>2
      <4>4. end \in Ends
        BY DEF Closed, Ends
      <4> QED BY <1>0, <4>1, <4>3, <4>4 DEF TypeOK, SocketsTypeOK
    <3> QED BY <1>5, <3>1, <3>2, <3>3
  <2>4. SocketsTypeOK' /\ reply' \in [Clients -> Seq(Bytes)]
    BY <1>0, <2>2, <2>3 DEF TypeOK, SocketsTypeOK, ClientTypeOK
  <2>5. server = "running" => Connections'
    BY <2>2 DEF PccInv, Connections, Accepted, serverVars
  <2>6. /\ p = "length" => reply'[c] = << >>
        /\ p = "printed" => Len(reply'[c]) = WordBytes
        /\ p \in ClientStates
    BY <1>0, <2>1, <2>2 DEF ClientReads, ClientStates
  <2> QED BY <2>1, <2>2, <2>4, <2>5, <2>6, ClientMoves
<1> QED BY <1>1, <1>2, <1>3, <1>4, <1>5 DEF Client

-----------------------------------------------------------------------------
(* The theorems.                                                           *)

LEMMA PccInvNext == PccInv /\ [Next]_vars => PccInv'
<1> SUFFICES ASSUME PccInv, [Next]_vars PROVE PccInv'
  OBVIOUS
<1>1. CASE (ServerMain \/ Signal) /\ UNCHANGED clientVars
  BY <1>1, MainKeeps
<1>2. ASSUME NEW h \in Handlers, Handler(h), UNCHANGED clientVars PROVE PccInv'
  BY <1>2, ThreadKeeps
<1>3. ASSUME NEW c \in Clients, Client(c, Listening) \/ Die(c),
             UNCHANGED serverVars
      PROVE  PccInv'
  BY <1>3, ClientKeeps
<1>4. CASE UNCHANGED vars
  <2> USE <1>4 DEF vars, sockets, serverVars, clientVars
  <2>1. TypeOK'
    BY DEF PccInv, TypeOK, SocketsTypeOK, ServerTypeOK, ClientTypeOK
  <2>2. ClientReads' /\ Totals' /\ Counts'
    BY DEF PccInv, ClientReads, Totals, Counts, Answered, Counted
  <2>3. server' = "running" => Connections'
    BY DEF PccInv, Connections, Accepted
  <2> QED BY <2>1, <2>2, <2>3 DEF PccInv
<1> QED BY <1>1, <1>2, <1>3, <1>4 DEF Next

LEMMA PccInvAlways == Spec => []PccInv
BY PccInvInit, PccInvNext, PTL DEF Spec

\* Every variable has its type: no thread's buffer is overrun, no descriptor or
\* thread is taken that does not exist.
THEOREM TypeCorrect == Spec => []TypeOK
<1>1. PccInv => TypeOK
  BY DEF PccInv
<1> QED BY <1>1, PccInvAlways, PTL

\* No client has an answer whose counts are not in the totals, whatever fails
\* and in either version of the server: updatePcc_total comes before the answer
\* is written, and no update is lost.
THEOREM AnswersAlwaysCounted == Spec => []AnswersCounted
<1>1. PccInv => AnswersCounted
  <2> SUFFICES ASSUME PccInv PROVE AnswersCounted
    OBVIOUS
  <2> DEFINE printed == {c \in Clients : cpc[c] = "printed"}
  <2>1. printed \subseteq Answered
    <3> SUFFICES ASSUME NEW c \in Clients, cpc[c] = "printed" PROVE c \in Answered
      OBVIOUS
    <3>1. Len(reply[c]) = WordBytes
      BY DEF PccInv, ClientReads
    <3>2. reply[c] # << >>
      BY <3>1 DEF WordBytes
    <3> QED BY <3>2 DEF Answered
  <2>2. Counted \subseteq total /\ total \in SUBSET Handlers
    BY DEF PccInv, TypeOK, ServerTypeOK, Counted
  <2>3. IsFiniteSet(Answered) /\ IsFiniteSet(total)
    BY <2>2, ClientsFinite DEF Answered
  <2>4. /\ Cardinality(printed) <= Cardinality(Answered)
        /\ Cardinality(Counted) <= Cardinality(total)
    BY <2>1, <2>2, <2>3, FS_Subset
  <2>5. /\ Cardinality(printed) \in Nat /\ Cardinality(Answered) \in Nat
        /\ Cardinality(Counted) \in Nat /\ Cardinality(total) \in Nat
    BY <2>1, <2>2, <2>3, FS_Subset, FS_CardinalityType
  <2>6. Cardinality(Answered) <= Cardinality(Counted)
    BY DEF PccInv, Counts
  <2> HIDE DEF printed
  <2>7. Cardinality(printed) <= Cardinality(total)
    BY <2>4, <2>5, <2>6
  <2> QED BY <2>7 DEF AnswersCounted, printed
<1> QED BY <1>1, PccInvAlways, PTL

-----------------------------------------------------------------------------
(* Threads and their connections, where each copies its descriptor in time; *)
(* the totals, where only SIGINT and the death of clients may come.         *)

\* Each thread copies its descriptor before main overwrites it.
InTime == "slowStart" \notin Faults

\* ex5_old's server, in time and with the calls that may fail not failing.
Regular == Faults \subseteq {"sigint", "client"} /\ ~ ExitAfterConnection

Active == {"start", "length", "data", "lock", "store", "answer", "close"}

Dead(c) == cpc[c] = "dead"

Complete(c) == Len(reply[c]) + Len(down[c]) = WordBytes

Unanswered(c) ==
  reply[c] = << >> /\ down[c] = << >> /\ (clientEnd[c] = "open" \/ Dead(c))

\* Each open descriptor is that of one thread, which main waits for to copy it.
Owners ==
  /\ \A h \in Handlers : hpc[h] = "start" => mainPc = "check" /\ h = online
  /\ \A h \in Handlers :
       hpc[h] \in Active => Own(h) \in Fds /\ sock[Own(h)] # NoClient
  /\ \A h, k \in Handlers :
       hpc[h] \in Active /\ hpc[k] \in Active /\ Own(h) = Own(k) => h = k
  /\ \A f \in Fds :
       sock[f] # NoClient => \E h \in Handlers : hpc[h] \in Active /\ Own(h) = f

\* Who was accepted has no answer before its thread wrote one, and has one, or
\* is dead, when its thread is done.
Served ==
  /\ \A c \in Clients : serverEnd[c] = "backlog" => Unanswered(c)
  /\ \A c \in Clients : serverEnd[c] = "none" =>
       cpc[c] \in {"connect", "failed"} /\ reply[c] = << >> /\ down[c] = << >>
  /\ \A h \in Handlers : hpc[h] \in Active => serverEnd[sock[Own(h)]] = "open"
  /\ \A h \in Handlers :
       hpc[h] \in Active \ {"close"} => Unanswered(sock[Own(h)])
  /\ \A h \in Handlers :
       hpc[h] = "close" => Complete(sock[Own(h)]) \/ Dead(sock[Own(h)])
  /\ \A c \in Accepted : (\E f \in Fds : sock[f] = c) \/ Complete(c) \/ Dead(c)

\* In the Regular server, who is done has counted, unless a client died, and
\* who was joined is done.
Joining ==
  /\ \A h \in Handlers : hpc[h] # "exit"
  /\ \A h \in Handlers :
       hpc[h] \in {"close", "ended"} => h \in total \/ \E c \in Clients : Dead(c)
  /\ \A h \in 1 .. joined : hpc[h] = "ended"
  /\ joined <= online
  /\ mainPc = "join" => receivedSIGINT
  /\ mainPc # "done"

Working == Owners /\ Served /\ (Regular => Joining)

RegularInv ==
  /\ PccInv
  /\ server = "running" => Working
  /\ TotalsComplete
  /\ ExitsOnlyOnSIGINT

LEMMA RegularInit == Init => RegularInv
<1> SUFFICES ASSUME Init PROVE RegularInv
  OBVIOUS
<1>1. PccInv
  BY PccInvInit
<1> USE DEF Init, SocketsInit, ServerInit, ClientInit
<1>2. Owners
  BY DEF Owners, Active
<1>3. Served
  BY DEF Served, Active, Accepted
<1>4. Joining
  BY DEF Joining
<1>5. TotalsComplete /\ ExitsOnlyOnSIGINT
  BY DEF TotalsComplete, ExitsOnlyOnSIGINT
<1> QED BY <1>1, <1>2, <1>3, <1>4, <1>5 DEF RegularInv, Working

\* While the process runs, main is not done and the properties are idle.
LEMMA RunningQuiet ==
  ASSUME server' = "running", mainPc' # "done"
  PROVE  TotalsComplete' /\ ExitsOnlyOnSIGINT'
BY DEF TotalsComplete, ExitsOnlyOnSIGINT

\* Steps of main that leave threads and connections alone: fdCell is only
\* overwritten when no thread has yet to copy it.
LEMMA MainStepsWork ==
  ASSUME InTime, PccInv, Working,
         StartListen \/ TestSIGINT \/ CallAccept \/ FinishMainJoin \/ SIGINT_handler,
         UNCHANGED clientVars
  PROVE  Working'
<1> USE DEF sockets, handler, clientVars
<1>0. TypeOK
  BY DEF PccInv
<1>1. UNCHANGED <<server, online, sock, handler, lock, total, sockets>>
  BY DEF StartListen, TestSIGINT, CallAccept, FinishMainJoin, SIGINT_handler
<1>2. /\ fdCell' = fdCell \/ \A h \in Handlers : hpc[h] # "start"
      /\ mainPc = "check" => mainPc' = "check" \/ \A h \in Handlers : hpc[h] # "start"
  <2>1. CASE TestSIGINT
    BY <2>1 DEF TestSIGINT, ThreadsStarted, InTime
  <2>2. CASE StartListen \/ CallAccept \/ FinishMainJoin
    BY <2>2 DEF StartListen, CallAccept, FinishMainJoin
  <2>3. CASE SIGINT_handler
    BY <2>3 DEF SIGINT_handler, Working, Owners
  <2> QED BY <2>1, <2>2, <2>3
<1>3. \A h \in Handlers : hpc[h] \in Active => Own(h)' = Own(h)
  BY <1>1, <1>2 DEF Own
<1>4. Owners'
  BY <1>1, <1>2, <1>3 DEF Working, Owners
<1>5. Served'
  <2>1. \A d : /\ Unanswered(d)' = Unanswered(d)
               /\ Complete(d)' = Complete(d) /\ Dead(d)' = Dead(d)
    BY <1>1 DEF Unanswered, Complete, Dead
  <2>2. \A h \in Handlers : hpc[h] \in Active => sock'[Own(h)'] = sock[Own(h)]
    BY <1>1, <1>3
  <2>3. ASSUME NEW h \in Handlers, hpc'[h] \in Active
        PROVE  \A d : d = sock'[Own(h)'] =>
                 /\ serverEnd'[d] = "open"
                 /\ hpc'[h] # "close" => Unanswered(d)'
                 /\ hpc'[h] = "close" => Complete(d)' \/ Dead(d)'
    BY <1>1, <2>1, <2>2, <2>3 DEF Working, Served
  <2>4. /\ \A d \in Clients : serverEnd'[d] = "backlog" => Unanswered(d)'
        /\ \A d \in Clients : serverEnd'[d] = "none" =>
             /\ cpc'[d] \in {"connect", "failed"}
             /\ reply'[d] = << >> /\ down'[d] = << >>
    BY <1>1, <2>1 DEF Working, Served
  <2>5. \A d \in Accepted' :
          (\E f \in Fds : sock'[f] = d) \/ Complete(d)' \/ Dead(d)'
    BY <1>1, <2>1 DEF Working, Served, Accepted
  <2> QED BY <2>3, <2>4, <2>5 DEF Served, Active
<1>6. Regular => Joining'
  <2> SUFFICES ASSUME Regular, Joining PROVE Joining'
    BY DEF Working
  <2>1. /\ joined \in Nat /\ online \in Nat
        /\ \/ joined' = joined
           \/ joined < online /\ joined' = joined + 1 /\ hpc[joined + 1] = "ended"
    BY <1>0, ClientsFinite
       DEF TypeOK, ServerTypeOK, StartListen, TestSIGINT, CallAccept,
           FinishMainJoin, SIGINT_handler
  <2>2. /\ joined' <= online'
        /\ \A h \in 1 .. joined' : hpc'[h] = "ended"
    BY <1>1, <2>1 DEF Working, Joining
  <2>3. mainPc' # "done" /\ (mainPc' = "join" => receivedSIGINT')
    BY DEF Working, Joining, StartListen, TestSIGINT, CallAccept,
           FinishMainJoin, SIGINT_handler
  <2> QED BY <1>1, <2>2, <2>3 DEF Working, Joining, Dead
<1> QED BY <1>4, <1>5, <1>6 DEF Working

\* The new thread is the only one that has yet to copy its descriptor.
LEMMA GetNewConnectionWorks ==
  ASSUME InTime, PccInv, Working, server = "running", GetNewConnection,
         UNCHANGED clientVars
  PROVE  Working'
<1>0. TypeOK /\ Connections /\ backlog # << >> /\ Totals
  BY DEF PccInv, GetNewConnection
<1>a. /\ Head(backlog) \in Clients \ Accepted
      /\ FreeFd \in Fds /\ sock[FreeFd] = NoClient
      /\ online \in Nat /\ online + 1 \in Handlers
  <2>1. /\ Head(backlog) \in Clients \ Accepted
        /\ FreeFd \in Fds /\ sock[FreeFd] = NoClient
        /\ online < Cardinality(Clients)
    BY <1>0, RoomForConnection
  <2> QED BY <1>0, <2>1, ClientsFinite DEF TypeOK, ServerTypeOK, Handlers
<1>b. PICK c \in Clients, n \in Handlers, free \in Fds :
        c = Head(backlog) /\ n = online + 1 /\ free = FreeFd
  BY <1>a
<1>1. c \in Clients \ Accepted /\ sock[free] = NoClient
  BY <1>a, <1>b
<1>2. /\ serverEnd' = [serverEnd EXCEPT ![c] = "open"]
      /\ sock' = [sock EXCEPT ![free] = c] /\ fdCell' = free
      /\ hpc' = [hpc EXCEPT ![n] = "start"] /\ mainPc' = "check"
      /\ online' = n /\ mainPc = "accept"
      /\ UNCHANGED <<receivedSIGINT, joined, fd, total, clientEnd, down, cpc,
                     reply>>
  BY <1>b DEF GetNewConnection, clientVars
<1>3. online \in Nat /\ n = online + 1 /\ joined \in Nat
  BY <1>0, <1>a, <1>b, ClientsFinite DEF TypeOK, ServerTypeOK
<1>4. hpc[n] = "none" /\ serverEnd[c] = "backlog" /\ c # NoClient
  <2>1. hpc[n] = "none"
    BY <1>0, <1>3 DEF Connections
  <2>2. serverEnd[c] = "backlog"
    BY <1>0, <1>b DEF Connections, TypeOK, SocketsTypeOK
  <2> QED BY <1>1, <2>1, <2>2, ClientsAssumption
<1>5. /\ \A h \in Handlers : hpc[h] # "start"
      /\ \A h \in Handlers : hpc[h] \in Active =>
           /\ fd[h] \in Fds /\ fd[h] # free /\ sock[fd[h]] # NoClient
           /\ sock[fd[h]] \in Clients /\ sock[fd[h]] # c
  BY <1>0, <1>1, <1>2, <1>4
     DEF Working, Owners, Served, Own, TypeOK, ServerTypeOK
<1>6. /\ \A h \in Handlers \ {n} : hpc'[h] = hpc[h]
      /\ hpc'[n] = "start"
      /\ \A f \in Fds : sock'[f] = IF f = free THEN c ELSE sock[f]
      /\ \A d \in Clients : serverEnd'[d] = IF d = c THEN "open" ELSE serverEnd[d]
  BY <1>0, <1>1, <1>2, <1>3 DEF TypeOK, ServerTypeOK, SocketsTypeOK
<1>7. /\ Own(n)' = free
      /\ \A h \in Handlers \ {n} : hpc[h] \in Active => Own(h)' = fd[h]
  BY <1>2, <1>5, <1>6 DEF Own
<1>8. Owners'
  <2>1. \A h \in Handlers : hpc'[h] = "start" => mainPc' = "check" /\ h = online'
    BY <1>2, <1>5, <1>6
  <2>2. \A h \in Handlers :
          hpc'[h] \in Active => Own(h)' \in Fds /\ sock'[Own(h)'] # NoClient
    BY <1>1, <1>4, <1>5, <1>6, <1>7
  <2>3. \A h, k \in Handlers :
          hpc'[h] \in Active /\ hpc'[k] \in Active /\ Own(h)' = Own(k)' => h = k
    <3> SUFFICES ASSUME NEW h \in Handlers, NEW k \in Handlers,
                        hpc'[h] \in Active, hpc'[k] \in Active,
                        Own(h)' = Own(k)'
                 PROVE  h = k
      OBVIOUS
    <3>1. CASE h = n \/ k = n
      BY <1>5, <1>6, <1>7, <3>1
    <3>2. CASE h # n /\ k # n
      <4>1. /\ hpc[h] \in Active /\ hpc[k] \in Active /\ fd[h] = fd[k]
            /\ Own(h) = fd[h] /\ Own(k) = fd[k]
        BY <1>5, <1>6, <1>7, <3>2 DEF Own
      <4> QED BY <4>1 DEF Working, Owners
    <3> QED BY <3>1, <3>2
  <2>4. ASSUME NEW f \in Fds, sock'[f] # NoClient
        PROVE  \E h \in Handlers : hpc'[h] \in Active /\ Own(h)' = f
    <3>1. CASE f = free
      BY <1>3, <1>6, <1>7, <3>1 DEF Active
    <3>2. CASE f # free
      <4>1. PICK h \in Handlers : hpc[h] \in Active /\ Own(h) = f
        BY <1>6, <2>4, <3>2 DEF Working, Owners
      <4>2. h # n /\ fd[h] = f
        BY <1>4, <1>5, <4>1 DEF Own, Active
      <4> QED BY <1>6, <1>7, <4>1, <4>2
    <3> QED BY <3>1, <3>2
  <2> QED BY <2>1, <2>2, <2>3, <2>4 DEF Owners
<1>9. Served'
  <2> USE DEF Unanswered, Complete, Dead
  <2>1. \A d \in Clients : /\ Unanswered(d)' = Unanswered(d)
                           /\ Complete(d)' = Complete(d) /\ Dead(d)' = Dead(d)
    BY <1>2
  <2>2. Unanswered(c)
    BY <1>1, <1>4 DEF Working, Served
  <2> HIDE DEF Unanswered, Complete, Dead
  <2>3. /\ \A d \in Clients : serverEnd'[d] = "backlog" => Unanswered(d)'
        /\ \A d \in Clients : serverEnd'[d] = "none" =>
             /\ cpc'[d] \in {"connect", "failed"}
             /\ reply'[d] = << >> /\ down'[d] = << >>
    BY <1>2, <1>6, <2>1 DEF Working, Served
  <2>4. ASSUME NEW h \in Handlers, hpc'[h] \in Active
        PROVE  \A d \in Clients : d = sock'[Own(h)'] =>
                 /\ serverEnd'[d] = "open"
                 /\ hpc'[h] # "close" => Unanswered(d)'
                 /\ hpc'[h] = "close" => Complete(d)' \/ Dead(d)'
    <3>1. CASE h = n
      BY <1>1, <1>6, <1>7, <2>1, <2>2, <3>1
    <3>2. CASE h # n
      <4>1. /\ hpc'[h] = hpc[h] /\ hpc[h] \in Active /\ hpc[h] # "start"
            /\ Own(h) = fd[h] /\ Own(h)' = fd[h] /\ sock'[fd[h]] = sock[fd[h]]
        BY <1>5, <1>6, <1>7, <2>4, <3>2 DEF Own
      <4>2. sock[fd[h]] \in Clients /\ serverEnd'[sock[fd[h]]] = "open"
        BY <1>5, <1>6, <4>1 DEF Working, Served
      <4>3. /\ hpc[h] # "close" => Unanswered(sock[fd[h]])
            /\ hpc[h] = "close" => Complete(sock[fd[h]]) \/ Dead(sock[fd[h]])
        BY <4>1 DEF Working, Served
      <4> QED BY <2>1, <4>1, <4>2, <4>3
    <3> QED BY <3>1, <3>2
  <2>5. ASSUME NEW d \in Accepted'
        PROVE  (\E f \in Fds : sock'[f] = d) \/ Complete(d)' \/ Dead(d)'
    <3>1. CASE d = c
      BY <1>1, <1>6, <3>1
    <3>2. CASE d # c
      <4>1. d \in Accepted /\ d # NoClient
        BY <1>6, <3>2, ClientsAssumption DEF Accepted
      <4>2. (\E f \in Fds : sock[f] = d) \/ Complete(d) \/ Dead(d)
        BY <4>1 DEF Working, Served
      <4> QED BY <1>1, <1>6, <2>1, <4>1, <4>2 DEF Accepted
    <3> QED BY <3>1, <3>2
  <2>6. \A h \in Handlers : hpc'[h] \in Active => sock'[Own(h)'] \in Clients
    BY <1>1, <1>5, <1>6, <1>7
  <2> QED BY <2>3, <2>4, <2>5, <2>6 DEF Served, Active
<1>10. Regular => Joining'
  <2> SUFFICES ASSUME Regular, Joining PROVE Joining'
    BY DEF Working
  <2>1. \A h \in 1 .. joined : h # n /\ h \in Handlers
    BY <1>3, ClientsFinite DEF Working, Joining, Handlers
  <2>2. joined' <= online'
    BY <1>2, <1>3 DEF Working, Joining
  <2> QED BY <1>2, <1>6, <2>1, <2>2 DEF Working, Joining, Dead
<1> QED BY <1>8, <1>9, <1>10 DEF Working

\* A thread goes on with its connection: nobody else's is touched.
LEMMA ThreadWorks ==
  ASSUME PccInv, server = "running", Working,
         NEW h \in Handlers, hpc[h] \in Active,
         NEW p \in Active \ {"start"}, hpc' = [hpc EXCEPT ![h] = p],
         NEW c \in Clients, c = sock[Own(h)], fd' = [fd EXCEPT ![h] = Own(h)],
         total \subseteq total',
         UNCHANGED <<mainPc, online, joined, receivedSIGINT, fdCell, sock,
                     serverEnd, cpc, reply>>,
         \A d \in Clients \ {c} :
           clientEnd'[d] = clientEnd[d] /\ down'[d] = down[d],
         p # "close" => Unanswered(c)',
         p = "close" => /\ h \in total' \/ Dead(c)
                        /\ Complete(c)' \/ Dead(c)
  PROVE  Working'
<1>0. TypeOK
  BY DEF PccInv
<1>1. /\ \A k \in Handlers \ {h} : hpc'[k] = hpc[k] /\ fd'[k] = fd[k]
      /\ hpc'[h] = p /\ fd'[h] = Own(h)
  BY <1>0 DEF TypeOK, ServerTypeOK
<1>2. \A k \in Handlers :
        /\ hpc'[k] \in Active <=> hpc[k] \in Active
        /\ Own(k)' = Own(k)
  BY <1>1 DEF Own
<1>3. \A k \in Handlers : hpc[k] \in Active /\ sock[Own(k)] = c => k = h
  <2> SUFFICES ASSUME NEW k \in Handlers, hpc[k] \in Active, sock[Own(k)] = c
               PROVE  k = h
    OBVIOUS
  <2>1. Own(k) \in Fds /\ Own(h) \in Fds /\ sock[Own(k)] # NoClient
    BY DEF Working, Owners
  <2>2. Own(k) = Own(h)
    BY <2>1 DEF PccInv, Connections
  <2> QED BY <2>2 DEF Working, Owners
<1>4. /\ \A d \in Clients \ {c} :
           Unanswered(d)' = Unanswered(d) /\ Complete(d)' = Complete(d)
      /\ \A d : Dead(d)' = Dead(d)
  BY DEF Unanswered, Complete, Dead
<1>5. Owners'
  BY <1>1, <1>2 DEF Working, Owners
<1>6. Served'
  <2>1. serverEnd[c] = "open" /\ Own(h) \in Fds
    BY DEF Working, Served, Owners
  <2>2. /\ \A d \in Clients : serverEnd'[d] = "backlog" => Unanswered(d)'
        /\ \A d \in Clients : serverEnd'[d] = "none" =>
             /\ cpc'[d] \in {"connect", "failed"}
             /\ reply'[d] = << >> /\ down'[d] = << >>
    BY <1>4, <2>1 DEF Working, Served
  <2>3. ASSUME NEW k \in Handlers, hpc'[k] \in Active
        PROVE  \A d \in Clients : d = sock'[Own(k)'] =>
                 /\ serverEnd'[d] = "open"
                 /\ hpc'[k] # "close" => Unanswered(d)'
                 /\ hpc'[k] = "close" => Complete(d)' \/ Dead(d)'
    <3>1. CASE k = h
      BY <1>1, <1>2, <1>4, <2>1, <3>1
    <3>2. CASE k # h
      <4>1. /\ hpc[k] = hpc'[k] /\ Own(k)' = Own(k) /\ sock[Own(k)] # c
            /\ hpc[k] \in Active
        BY <1>1, <1>2, <1>3, <2>3, <3>2
      <4> QED BY <1>4, <4>1 DEF Working, Served
    <3> QED BY <3>1, <3>2
  <2>4. \A k \in Handlers : hpc'[k] \in Active => sock'[Own(k)'] \in Clients
    <3>1. \A k \in Handlers :
            hpc[k] \in Active => Own(k) \in Fds /\ sock[Own(k)] # NoClient
      BY DEF Working, Owners
    <3> QED BY <1>0, <1>2, <3>1 DEF TypeOK, ServerTypeOK
  <2>5. ASSUME NEW d \in Accepted'
        PROVE  (\E f \in Fds : sock'[f] = d) \/ Complete(d)' \/ Dead(d)'
    <3>1. CASE d = c
      BY <2>1, <3>1
    <3>2. CASE d # c
      <4>1. d \in Accepted /\ d \in Clients
        BY DEF Accepted
      <4> QED BY <1>4, <3>2, <4>1 DEF Working, Served
    <3> QED BY <3>1, <3>2
  <2> QED BY <2>2, <2>3, <2>4, <2>5 DEF Served, Active
<1>7. Regular => Joining'
  <2> SUFFICES ASSUME Regular, Joining PROVE Joining'
    BY DEF Working
  <2>1. /\ \A k \in Handlers : hpc'[k] # "exit"
        /\ mainPc' = "join" => receivedSIGINT'
        /\ mainPc' # "done" /\ joined' <= online'
    BY <1>1 DEF Working, Joining, Active
  <2>2. \A k \in 1 .. joined' : hpc'[k] = "ended"
    <3>1. joined \in Nat /\ joined <= Cardinality(Clients)
      BY <1>0, ClientsFinite DEF TypeOK, ServerTypeOK
    <3>2. \A k \in 1 .. joined : k \in Handlers /\ k # h
      BY <3>1, ClientsFinite DEF Working, Joining, Handlers, Active
    <3> QED BY <1>1, <3>2 DEF Working, Joining
  <2>3. \A k \in Handlers : hpc'[k] \in {"close", "ended"} =>
          k \in total' \/ \E d \in Clients : Dead(d)'
    <3> SUFFICES ASSUME NEW k \in Handlers, hpc'[k] \in {"close", "ended"}
                 PROVE  k \in total' \/ \E d \in Clients : Dead(d)'
      OBVIOUS
    <3>1. CASE k = h
      BY <1>1, <1>4, <3>1 DEF Active
    <3>2. CASE k # h
      BY <1>1, <1>4, <3>2 DEF Working, Joining
    <3> QED BY <3>1, <3>2
  <2> QED BY <2>1, <2>2, <2>3 DEF Joining
<1> QED BY <1>5, <1>6, <1>7 DEF Working

\* The connection of a thread that is at work, and what the client's end of it
\* may be before the answer.
LEMMA ThreadConnection ==
  ASSUME PccInv, Working, NEW h \in Handlers, hpc[h] \in Active
  PROVE  /\ sock[Own(h)] \in Clients /\ Own(h) \in Fds
         /\ hpc[h] # "start" =>
              Conn(h) = sock[Own(h)] /\ Own(h) = fd[h] /\ Conn(h) # NoClient
         /\ hpc[h] # "close" => Unanswered(sock[Own(h)])
<1>1. Own(h) \in Fds /\ sock[Own(h)] # NoClient
  BY DEF Working, Owners
<1>2. sock[Own(h)] \in Clients
  BY <1>1 DEF PccInv, TypeOK, ServerTypeOK
<1>3. hpc[h] # "start" => Own(h) = fd[h] /\ fd[h] # NoFd
  BY <1>1 DEF Own, Fds, NoFd
<1> QED BY <1>1, <1>2, <1>3 DEF Conn, Working, Served

\* A client that is alive and has no answer has its end open: only a dead
\* client's thread can fail to read.
LEMMA ReadErrorOfDead ==
  ASSUME PccInv, Working, NEW h \in Handlers,
         hpc[h] \in {"length", "data"}, ReadError(h)
  PROVE  Dead(Conn(h))
BY ThreadConnection DEF ReadError, Active, Unanswered

LEMMA ThreadStepsWork ==
  ASSUME InTime, PccInv, server = "running", Working, NEW h \in Handlers,
         \/ StartHandler(h) \/ ReadLength(h) \/ ReadLengthFails(h) \/ ReadData(h)
         \/ ReadDataFails(h) \/ LockTotals(h) \/ StoreTotals(h) \/ SendAnswer(h),
         UNCHANGED clientVars
  PROVE  Working'
<1> USE DEF server_main, clientVars, sockets
<1>0. TypeOK /\ Totals
  BY DEF PccInv
<1>1. PICK c \in Clients : c = sock[Own(h)]
  <2>1. hpc[h] \in Active
    BY DEF Active, StartHandler, ReadLength, ReadLengthFails, ReadData,
           ReadDataFails, LockTotals, StoreTotals, SendAnswer
  <2> QED BY <2>1, ThreadConnection
<1>2. CASE StartHandler(h)
  <2>1. /\ hpc[h] = "start" /\ Own(h) = fdCell /\ fd' = [fd EXCEPT ![h] = Own(h)]
        /\ hpc' = [hpc EXCEPT ![h] = "length"]
        /\ UNCHANGED <<server_main, sock, total, sockets>>
    BY <1>2 DEF StartHandler, HandlerUnchanged, Own
  <2>2. Unanswered(c)'
    BY <1>1, <2>1, ThreadConnection DEF Active, Unanswered, Dead
  <2>3. /\ total \subseteq total' /\ hpc[h] \in Active
        /\ fd' = [fd EXCEPT ![h] = Own(h)]
        /\ "length" \in Active \ {"start"} /\ hpc' = [hpc EXCEPT ![h] = "length"]
        /\ \A d \in Clients \ {c} :
             clientEnd'[d] = clientEnd[d] /\ down'[d] = down[d]
        /\ UNCHANGED <<mainPc, online, joined, receivedSIGINT, fdCell, sock,
                       serverEnd, cpc, reply>>
    BY <2>1 DEF Active
  <2> QED BY <1>1, <2>2, <2>3, ThreadWorks
<1>3. ASSUME hpc[h] \in Active \ {"start"}
      PROVE  /\ c = Conn(h) /\ Conn(h) # NoClient /\ Own(h) = fd[h]
             /\ fd = [fd EXCEPT ![h] = Own(h)]
             /\ hpc[h] # "close" => Unanswered(c)
             /\ \A p : hpc[h] = p => hpc = [hpc EXCEPT ![h] = p]
  <2>1. Own(h) = fd[h] /\ c = Conn(h) /\ Conn(h) # NoClient
    BY <1>1, <1>3, ThreadConnection
  <2>2. hpc[h] # "close" => Unanswered(c)
    BY <1>1, <1>3, ThreadConnection
  <2> QED BY <1>0, <2>1, <2>2 DEF TypeOK, ServerTypeOK
<1>4. CASE ReadLength(h) \/ ReadData(h)
  <2>1. /\ hpc[h] \in {"length", "data"}
        /\ UNCHANGED <<fd, server_main, sock, total, clientEnd, serverEnd, down>>
    BY <1>4 DEF ReadLength, ReadData, HandlerUnchanged, Receive
  <2>2. PICK p \in {"length", "data", "lock"} : hpc' = [hpc EXCEPT ![h] = p]
    <3>1. CASE ReadLength(h)
      <4>1. UNCHANGED hpc \/ hpc' = [hpc EXCEPT ![h] = "data"]
        BY <3>1 DEF ReadLength
      <4>2. hpc[h] = "length" /\ hpc = [hpc EXCEPT ![h] = "length"]
        BY <1>3, <3>1 DEF ReadLength, Active
      <4> QED BY <4>1, <4>2
    <3>2. CASE ReadData(h)
      BY <3>2 DEF ReadData
    <3> QED BY <1>4, <3>1, <3>2
  <2>3. Unanswered(c)'
    BY <1>3, <2>1 DEF Active, Unanswered, Dead
  <2> QED BY <1>1, <1>3, <2>1, <2>2, <2>3, ThreadWorks DEF Active
<1>5. CASE ReadLengthFails(h) \/ ReadDataFails(h)
  <2>1. /\ hpc[h] \in {"length", "data"} /\ ReadError(h)
        /\ UNCHANGED <<fd, server_main, sock, total, serverEnd, down>>
    BY <1>5 DEF ReadLengthFails, ReadDataFails, HandlerUnchanged, ReceiveFails
  <2>2. c = Conn(h) /\ Conn(h) # NoClient /\ Dead(c) /\ Unanswered(c)
    BY <1>3, <2>1, ReadErrorOfDead DEF Active
  <2>3. /\ Unanswered(c)'
        /\ \A d \in Clients \ {c} : clientEnd'[d] = clientEnd[d]
    <3>1. clientEnd' = [clientEnd EXCEPT ![c] = "gone"]
      BY <1>5, <2>2
         DEF ReadLengthFails, ReadDataFails, ReceiveFails, ReadFailed
    <3> QED BY <1>0, <2>1, <2>2, <3>1
            DEF Unanswered, Dead, TypeOK, SocketsTypeOK
  <2>4. PICK p \in {"length", "data", "close"} : hpc' = [hpc EXCEPT ![h] = p]
    <3>1. UNCHANGED hpc \/ hpc' = [hpc EXCEPT ![h] = "close"]
      BY <1>5 DEF ReadLengthFails, ReadDataFails
    <3>2. hpc = [hpc EXCEPT ![h] = hpc[h]]
      BY <1>3, <2>1 DEF Active
    <3> QED BY <2>1, <3>1, <3>2
  <2> QED BY <1>1, <1>3, <2>1, <2>2, <2>3, <2>4, ThreadWorks DEF Active
<1>6. CASE LockTotals(h) \/ StoreTotals(h)
  <2>1. /\ hpc[h] \in {"lock", "store"}
        /\ UNCHANGED <<fd, server_main, sock, sockets>>
    BY <1>6 DEF LockTotals, StoreTotals
  <2>2. total \subseteq total'
    BY <1>0, <1>6 DEF LockTotals, StoreTotals, Totals
  <2>3. PICK p \in {"store", "answer"} : hpc' = [hpc EXCEPT ![h] = p]
    BY <1>6 DEF LockTotals, StoreTotals
  <2>4. Unanswered(c)'
    BY <1>3, <2>1 DEF Active, Unanswered, Dead
  <2> QED BY <1>1, <1>3, <2>1, <2>2, <2>3, <2>4, ThreadWorks DEF Active
<1>7. CASE SendAnswer(h)
  <2>1. /\ hpc[h] = "answer" /\ hpc' = [hpc EXCEPT ![h] = "close"]
        /\ UNCHANGED <<fd, server_main, sock, total, serverEnd>>
        /\ clientEnd' = Written(clientEnd, Conn(h))
        /\ IF clientEnd[Conn(h)] = "open"
           THEN down' = [down EXCEPT ![Conn(h)] = down[Conn(h)] \o Answer(h)]
           ELSE down' = down
    BY <1>7 DEF SendAnswer, HandlerUnchanged
  <2>2. c = Conn(h) /\ Unanswered(c) /\ h \in total
    BY <1>0, <1>3, <2>1 DEF Active, Totals
  <2>3. Answer(h) \in Seq(Bytes) /\ Len(Answer(h)) = WordBytes
    <3>1. got[h] \in Seq(Bytes)
      BY <1>0 DEF TypeOK, ServerTypeOK
    <3> QED BY <3>1, PrintablesType, UnsignedIntToCharsType DEF Answer
  <2>4. \A d \in Clients \ {c} : clientEnd'[d] = clientEnd[d] /\ down'[d] = down[d]
    BY <1>0, <2>1, <2>2 DEF Written, TypeOK, SocketsTypeOK
  <2>5. Complete(c)' \/ Dead(c)
    <3>1. CASE clientEnd[c] = "open"
      <4>1. down'[c] = << >> \o Answer(h) /\ reply'[c] = << >>
        BY <1>0, <2>1, <2>2, <3>1 DEF Unanswered, TypeOK, SocketsTypeOK
      <4>2. Len(reply'[c]) = 0 /\ Len(down'[c]) = WordBytes
        BY <2>3, <4>1
      <4> QED BY <4>2 DEF Complete, WordBytes
    <3>2. CASE clientEnd[c] # "open"
      BY <2>2, <3>2 DEF Unanswered
    <3> QED BY <3>1, <3>2
  <2> QED BY <1>1, <1>3, <2>1, <2>2, <2>4, <2>5, ThreadWorks DEF Active
<1> QED BY <1>2, <1>4, <1>5, <1>6, <1>7

\* A thread closes its connection, which has its answer or whose client died.
LEMMA CloseConnectionWorks ==
  ASSUME InTime, PccInv, server = "running", Working, NEW h \in Handlers,
         CloseConnection(h), UNCHANGED clientVars
  PROVE  Working'
<1> USE DEF server_main, clientVars
<1>0. TypeOK /\ hpc[h] = "close"
  BY DEF PccInv, CloseConnection
<1>1. PICK c \in Clients, f \in Fds :
        /\ c = Conn(h) /\ c # NoClient /\ f = fd[h] /\ f = Own(h) /\ sock[f] = c
        /\ serverEnd[c] = "open" /\ (Complete(c) \/ Dead(c))
  BY <1>0, ThreadConnection DEF Active, Working, Served
<1>2. /\ hpc' = [hpc EXCEPT ![h] = AfterClose]
      /\ AfterClose \in {"exit", "ended"} /\ (Regular => AfterClose = "ended")
      /\ serverEnd' = [serverEnd EXCEPT ![c] = Closed(up[c])]
      /\ sock' = [sock EXCEPT ![f] = NoClient]
      /\ UNCHANGED <<fd, total, mainPc, receivedSIGINT, online, joined, fdCell,
                     clientEnd, down, reply, cpc>>
  BY <1>1 DEF CloseConnection, AfterClose, Regular
<1>3. /\ hpc'[h] = AfterClose /\ \A k \in Handlers \ {h} : hpc'[k] = hpc[k]
      /\ sock'[f] = NoClient /\ \A g \in Fds \ {f} : sock'[g] = sock[g]
      /\ serverEnd'[c] \in {"closed", "reset"}
      /\ \A d \in Clients \ {c} : serverEnd'[d] = serverEnd[d]
  BY <1>0, <1>2 DEF Closed, TypeOK, ServerTypeOK, SocketsTypeOK
<1>4. \A k \in Handlers : hpc'[k] \in Active =>
        /\ k # h /\ hpc[k] \in Active /\ hpc'[k] = hpc[k]
        /\ Own(k)' = Own(k) /\ Own(k) \in Fds \ {f}
        /\ sock'[Own(k)] = sock[Own(k)] /\ sock[Own(k)] \in Clients \ {c}
  <2> SUFFICES ASSUME NEW k \in Handlers, hpc'[k] \in Active
               PROVE  /\ k # h /\ hpc[k] \in Active /\ hpc'[k] = hpc[k]
                      /\ Own(k)' = Own(k) /\ Own(k) \in Fds \ {f}
                      /\ sock'[Own(k)] = sock[Own(k)]
                      /\ sock[Own(k)] \in Clients \ {c}
    OBVIOUS
  <2>1. k # h /\ hpc'[k] = hpc[k] /\ hpc[k] \in Active
    BY <1>2, <1>3 DEF Active
  <2>2. Own(k)' = Own(k)
    BY <1>2, <2>1 DEF Own
  <2>3. Own(k) # Own(h) /\ Own(k) \in Fds /\ sock[Own(k)] # NoClient
    BY <1>0, <2>1 DEF Working, Owners, Active
  <2>4. sock[Own(k)] \in Clients /\ sock[Own(k)] # sock[f]
    BY <1>0, <1>1, <2>3 DEF PccInv, Connections, TypeOK, ServerTypeOK
  <2> QED BY <1>1, <1>3, <2>1, <2>2, <2>3, <2>4
<1>5. Owners'
  <2>1. \A k \in Handlers : hpc'[k] = "start" => mainPc' = "check" /\ k = online'
    BY <1>2, <1>3 DEF Working, Owners
  <2>2. \A k \in Handlers :
          hpc'[k] \in Active => Own(k)' \in Fds /\ sock'[Own(k)'] # NoClient
    BY <1>4, ClientsAssumption
  <2>3. \A j, k \in Handlers :
          hpc'[j] \in Active /\ hpc'[k] \in Active /\ Own(j)' = Own(k)' => j = k
    BY <1>4 DEF Working, Owners
  <2>4. ASSUME NEW g \in Fds, sock'[g] # NoClient
        PROVE  \E k \in Handlers : hpc'[k] \in Active /\ Own(k)' = g
    <3>1. g # f /\ sock[g] # NoClient
      BY <1>3, <2>4
    <3>2. PICK k \in Handlers : hpc[k] \in Active /\ Own(k) = g
      BY <3>1 DEF Working, Owners
    <3>3. k # h
      BY <1>1, <3>1, <3>2
    <3> QED BY <1>3, <1>4, <3>2, <3>3
  <2> QED BY <2>1, <2>2, <2>3, <2>4 DEF Owners
<1>6. Served'
  <2>1. \A d : /\ Unanswered(d)' = Unanswered(d)
               /\ Complete(d)' = Complete(d) /\ Dead(d)' = Dead(d)
    BY <1>2 DEF Unanswered, Complete, Dead
  <2>2. /\ \A d \in Clients : serverEnd'[d] = "backlog" => Unanswered(d)'
        /\ \A d \in Clients : serverEnd'[d] = "none" =>
             /\ cpc'[d] \in {"connect", "failed"}
             /\ reply'[d] = << >> /\ down'[d] = << >>
    BY <1>2, <1>3, <2>1 DEF Working, Served
  <2>3. ASSUME NEW k \in Handlers, hpc'[k] \in Active
        PROVE  \A d : d = sock'[Own(k)'] =>
                 /\ serverEnd'[d] = "open"
                 /\ hpc'[k] # "close" => Unanswered(d)'
                 /\ hpc'[k] = "close" => Complete(d)' \/ Dead(d)'
    <3>1. /\ hpc[k] \in Active /\ hpc'[k] = hpc[k]
          /\ sock'[Own(k)'] = sock[Own(k)] /\ sock[Own(k)] \in Clients \ {c}
      BY <1>4, <2>3
    <3>2. serverEnd'[sock[Own(k)]] = "open"
      BY <1>3, <3>1 DEF Working, Served
    <3> QED BY <2>1, <3>1, <3>2 DEF Working, Served
  <2>4. ASSUME NEW d \in Accepted'
        PROVE  (\E g \in Fds : sock'[g] = d) \/ Complete(d)' \/ Dead(d)'
    <3>1. CASE d = c
      BY <1>1, <2>1, <3>1
    <3>2. CASE d # c
      <4>1. d \in Accepted
        BY <1>3, <3>2 DEF Accepted
      <4>2. (\E g \in Fds : sock[g] = d) \/ Complete(d) \/ Dead(d)
        BY <4>1 DEF Working, Served
      <4> QED BY <1>1, <1>3, <2>1, <3>2, <4>2
    <3> QED BY <3>1, <3>2
  <2> QED BY <2>2, <2>3, <2>4 DEF Served, Active
<1>7. Regular => Joining'
  <2> SUFFICES ASSUME Regular, Joining PROVE Joining'
    BY DEF Working
  <2>1. \A k \in 1 .. joined' : hpc'[k] = "ended"
    <3>1. joined \in Nat /\ joined <= Cardinality(Clients)
      BY <1>0, ClientsFinite DEF TypeOK, ServerTypeOK
    <3>2. \A k \in 1 .. joined : k \in Handlers
      BY <3>1, ClientsFinite DEF Handlers
    <3> QED BY <1>2, <1>3, <3>2 DEF Working, Joining
  <2>2. \A k \in Handlers : hpc'[k] # "exit"
    BY <1>2, <1>3 DEF Working, Joining
  <2>3. \A k \in Handlers : hpc'[k] \in {"close", "ended"} =>
          k \in total' \/ \E d \in Clients : Dead(d)'
    BY <1>0, <1>2, <1>3 DEF Working, Joining, Dead
  <2> QED BY <1>2, <2>1, <2>2, <2>3 DEF Working, Joining
<1> QED BY <1>5, <1>6, <1>7 DEF Working

-----------------------------------------------------------------------------
(* The clients, while the server runs and after it.                        *)

\* No step of a client makes an answer complete or incomplete, or revives a
\* client.
LEMMA CompleteStays ==
  ASSUME PccInv, NEW c \in Clients, Client(c, Listening) \/ Die(c),
         NEW d \in Clients
  PROVE  (Complete(d)' <=> Complete(d)) /\ (Dead(d) => Dead(d)')
<1>0. /\ TypeOK /\ ClientReads /\ cpc \in [Clients -> ClientStates]
      /\ reply \in [Clients -> Seq(Bytes)] /\ down \in [Clients -> Seq(Bytes)]
  BY DEF PccInv, TypeOK, ClientTypeOK, SocketsTypeOK, ClientStates
<1>1. Dead(d) => Dead(d)'
  <2>1. cpc[c] # "dead"
    BY DEF Client, GetConnection, GetConnectionFails, GetRandomChars,
           SendLengthToServer, SendRandomCharsToServer, ReadAnswer,
           ReadAnswerFails, PrintAndExit, Die
  <2>2. \E p : cpc' = [cpc EXCEPT ![c] = p]
    <3>1. CASE ReadAnswerFails(c)
      <4>1. cpc = [cpc EXCEPT ![c] = cpc[c]]
        BY <1>0
      <4> QED BY <3>1, <4>1 DEF ReadAnswerFails, ClientEnds
    <3>2. CASE ReadAnswer(c)
      BY <3>2 DEF ReadAnswer
    <3>3. CASE SendLengthToServer(c) \/ SendRandomCharsToServer(c)
      BY <3>3 DEF SendLengthToServer, SendRandomCharsToServer, SendToServer,
                  ClientEnds
    <3>4. CASE \/ GetConnection(c, Listening) \/ GetConnectionFails(c, Listening)
               \/ GetRandomChars(c) \/ PrintAndExit(c) \/ Die(c)
      BY <3>4 DEF GetConnection, GetConnectionFails, GetRandomChars,
                  PrintAndExit, Die, ClientEnds
    <3> QED BY <3>1, <3>2, <3>3, <3>4 DEF Client
  <2> QED BY <1>0, <2>1, <2>2 DEF Dead
<1>2. Complete(d)' <=> Complete(d)
  <2>1. CASE ReadAnswer(c)
    <3>1. PICK chunk \in Readable(down[c], WordBytes - Len(reply[c])) :
            /\ reply' = [reply EXCEPT ![c] = reply[c] \o chunk]
            /\ down' = [down EXCEPT ![c] = After(down[c], chunk)]
      BY <2>1 DEF ReadAnswer
    <3>2. WordBytes - Len(reply[c]) \in Int
      BY <1>0 DEF WordBytes
    <3>3. /\ chunk \in Seq(Bytes)
          /\ Len(After(down[c], chunk)) = Len(down[c]) - Len(chunk)
      BY <1>0, <3>2, ReadableTypes
    <3>4. CASE d = c
      <4>1. /\ Len(reply'[d]) = Len(reply[d]) + Len(chunk)
            /\ Len(down'[d]) = Len(down[d]) - Len(chunk)
        BY <1>0, <3>1, <3>3, <3>4
      <4>2. Len(reply'[d]) + Len(down'[d]) = Len(reply[d]) + Len(down[d])
        BY <1>0, <3>3, <4>1
      <4> QED BY <4>2 DEF Complete
    <3>5. CASE d # c
      BY <1>0, <3>1, <3>5 DEF Complete
    <3> QED BY <3>4, <3>5
  <2>2. CASE ReadAnswerFails(c)
    <3>1. /\ down[c] = << >> /\ cpc[c] = "answer" /\ down' = down
          /\ reply' \in {reply, [reply EXCEPT ![c] = Front(reply[c])]}
          /\ reply[c] = << >> => reply' = reply
      BY <2>2 DEF ReadAnswerFails
    <3>2. CASE reply' = reply
      BY <3>1, <3>2 DEF Complete
    <3>3. CASE reply' = [reply EXCEPT ![c] = Front(reply[c])] /\ reply[c] # << >>
      <4>1. Len(Front(reply[c])) = Len(reply[c]) - 1 /\ Len(reply[c]) < WordBytes
        BY <1>0, <3>1, <3>3, FrontTypes DEF ClientReads
      <4>2. CASE d = c
        <5>1. /\ Len(reply'[d]) = Len(reply[d]) - 1
              /\ Len(down[d]) = 0 /\ down'[d] = down[d]
          BY <1>0, <3>1, <3>3, <4>1, <4>2
        <5>2. Len(reply[d]) \in 0 .. 3
          BY <1>0, <4>1, <4>2 DEF WordBytes
        <5>3. \A m \in 0 .. 3 : m + 0 # 4 /\ (m - 1) + 0 # 4
          OBVIOUS
        <5>4. ~ Complete(d)
          BY <5>1, <5>2, <5>3 DEF Complete, WordBytes
        <5>5. ~ Complete(d)'
          BY <5>1, <5>2, <5>3 DEF Complete, WordBytes
        <5> QED BY <5>4, <5>5
      <4>3. CASE d # c
        BY <1>0, <3>1, <3>3, <4>3 DEF Complete
      <4> QED BY <4>2, <4>3
    <3> QED BY <3>1, <3>2, <3>3
  <2>3. CASE SendLengthToServer(c) \/ SendRandomCharsToServer(c)
    BY <2>3 DEF SendLengthToServer, SendRandomCharsToServer, SendToServer,
                Complete
  <2>4. CASE \/ GetConnection(c, Listening) \/ GetConnectionFails(c, Listening)
             \/ GetRandomChars(c) \/ PrintAndExit(c) \/ Die(c)
    BY <2>4 DEF GetConnection, GetConnectionFails, GetRandomChars,
                PrintAndExit, Die, sockets, Complete
  <2> QED BY <2>1, <2>2, <2>3, <2>4 DEF Client
<1> QED BY <1>1, <1>2

\* Before its connection is closed a client gets no answer but from its thread,
\* and it does not close its end alive.
LEMMA ClientEffects ==
  ASSUME PccInv, Working, NEW c \in Clients, Client(c, Listening) \/ Die(c)
  PROVE  /\ \A d \in Clients \ {c} :
              /\ cpc'[d] = cpc[d] /\ reply'[d] = reply[d] /\ down'[d] = down[d]
              /\ clientEnd'[d] = clientEnd[d] /\ serverEnd'[d] = serverEnd[d]
         /\ serverEnd[c] = "none" =>
              \/ /\ serverEnd'[c] = "none" /\ cpc'[c] = "failed"
                 /\ reply'[c] = << >> /\ down'[c] = << >>
              \/ serverEnd'[c] = "backlog" /\ Unanswered(c)'
         /\ serverEnd[c] \in {"backlog", "open"} =>
              /\ serverEnd'[c] = serverEnd[c]
              /\ Unanswered(c) => Unanswered(c)'
         /\ serverEnd[c] \notin {"none", "backlog"} =>
              serverEnd'[c] \notin {"none", "backlog"}
<1> USE DEF Unanswered, Dead
<1>0. /\ cpc \in [Clients -> ClientStates]
      /\ reply \in [Clients -> Seq(Bytes)] /\ down \in [Clients -> Seq(Bytes)]
      /\ clientEnd \in [Clients -> Ends] /\ serverEnd \in [Clients -> Ends]
      /\ cpc[c] = "connect" => serverEnd[c] = "none"
      /\ cpc[c] = "print" => Len(reply[c]) = WordBytes
      /\ serverEnd[c] = "none" =>
           /\ cpc[c] \in {"connect", "failed"}
           /\ reply[c] = << >> /\ down[c] = << >>
  BY DEF PccInv, TypeOK, ClientTypeOK, SocketsTypeOK, ClientStates, ClientReads,
         Working, Served
<1>1. CASE GetConnection(c, Listening)
  BY <1>0, <1>1 DEF GetConnection
<1>2. CASE GetConnectionFails(c, Listening)
  BY <1>0, <1>2 DEF GetConnectionFails, ClientEnds
<1>3. CASE GetRandomChars(c)
  BY <1>0, <1>3 DEF GetRandomChars, sockets
<1>4. CASE SendLengthToServer(c) \/ SendRandomCharsToServer(c)
  <2>0. PICK next \in {"data", "answer"} : \E bytes : SendToServer(c, bytes, next)
    BY <1>4 DEF SendLengthToServer, SendRandomCharsToServer
  <2>1. PICK bytes : SendToServer(c, bytes, next)
    BY <2>0
  <2>2. serverEnd[c] # "none" /\ reply' = reply /\ down' = down
    BY <1>0, <1>4, <2>1
       DEF SendLengthToServer, SendRandomCharsToServer, SendToServer
  <2>3. CASE Broken(serverEnd[c])
    BY <1>0, <2>1, <2>2, <2>3 DEF SendToServer, ClientEnds, Broken
  <2>4. CASE ~ Broken(serverEnd[c])
    <3>1. /\ serverEnd' = Written(serverEnd, c) /\ clientEnd' = clientEnd
          /\ cpc' = [cpc EXCEPT ![c] = next]
      BY <2>1, <2>4 DEF SendToServer
    <3>2. cpc[c] # "dead"
      BY <1>4 DEF SendLengthToServer, SendRandomCharsToServer
    <3> QED BY <1>0, <2>2, <3>1, <3>2 DEF Written
  <2> QED BY <2>3, <2>4
<1>5. CASE ReadAnswer(c)
  <2>1. PICK chunk \in Readable(down[c], WordBytes - Len(reply[c])) :
          /\ reply' = [reply EXCEPT ![c] = reply[c] \o chunk]
          /\ down' = [down EXCEPT ![c] = After(down[c], chunk)]
    BY <1>5 DEF ReadAnswer
  <2>2. down[c] # << >>
    BY <1>0, <2>1 DEF Readable
  <2>3. /\ cpc[c] = "answer" /\ UNCHANGED <<clientEnd, serverEnd>>
        /\ \E p : cpc' = [cpc EXCEPT ![c] = p]
    BY <1>5 DEF ReadAnswer
  <2> QED BY <1>0, <2>1, <2>2, <2>3
<1>6. CASE ReadAnswerFails(c)
  <2>1. /\ serverEnd[c] = "reset" /\ serverEnd' = [serverEnd EXCEPT ![c] = "gone"]
        /\ down' = down
    BY <1>6 DEF ReadAnswerFails, ReadFailed
  <2>2. \A d \in Clients \ {c} :
          /\ cpc'[d] = cpc[d] /\ reply'[d] = reply[d]
          /\ clientEnd'[d] = clientEnd[d]
    BY <1>0, <1>6 DEF ReadAnswerFails, ClientEnds
  <2> QED BY <1>0, <2>1, <2>2
<1>7. CASE PrintAndExit(c)
  <2>1. reply[c] # << >>
    <3>1. Len(reply[c]) = WordBytes
      BY <1>0, <1>7 DEF PrintAndExit
    <3> QED BY <3>1 DEF WordBytes
  <2> QED BY <1>0, <1>7, <2>1 DEF PrintAndExit, ClientEnds
<1>8. CASE Die(c)
  <2>1. PICK end \in {Closed(down[c]), "reset"} :
          clientEnd' = [clientEnd EXCEPT ![c] =
                          IF clientEnd[c] = "open" THEN end ELSE clientEnd[c]]
    BY <1>8 DEF Die
  <2> QED BY <1>0, <1>8, <2>1 DEF Die
<1> QED BY <1>1, <1>2, <1>3, <1>4, <1>5, <1>6, <1>7, <1>8 DEF Client

LEMMA ClientWorks ==
  ASSUME PccInv, Working, NEW c \in Clients, Client(c, Listening) \/ Die(c),
         UNCHANGED serverVars
  PROVE  Working'
<1> USE DEF serverVars
<1>0. \A h \in Handlers :
        /\ Own(h)' = Own(h)
        /\ hpc[h] \in Active => sock[Own(h)] \in Clients
  BY ThreadConnection DEF Own
<1>1. \A d \in Clients :
        /\ (Complete(d)' <=> Complete(d))
        /\ Dead(d) => Dead(d)'
  BY CompleteStays
<1>2. \A d \in Clients :
        /\ serverEnd[d] = "open" => serverEnd'[d] = "open"
        /\ serverEnd[d] = "open" /\ Unanswered(d) => Unanswered(d)'
        /\ serverEnd'[d] = "backlog" => Unanswered(d)'
        /\ serverEnd'[d] = "none" =>
             /\ cpc'[d] \in {"connect", "failed"}
             /\ reply'[d] = << >> /\ down'[d] = << >>
        /\ d \in Accepted' => d \in Accepted
  <2> SUFFICES ASSUME NEW d \in Clients
               PROVE  /\ serverEnd[d] = "open" => serverEnd'[d] = "open"
                      /\ serverEnd[d] = "open" /\ Unanswered(d) => Unanswered(d)'
                      /\ serverEnd'[d] = "backlog" => Unanswered(d)'
                      /\ serverEnd'[d] = "none" =>
                           /\ cpc'[d] \in {"connect", "failed"}
                           /\ reply'[d] = << >> /\ down'[d] = << >>
                      /\ serverEnd'[d] \notin {"none", "backlog"} =>
                           serverEnd[d] \notin {"none", "backlog"}
    BY DEF Accepted
  <2>1. CASE d # c
    <3>1. /\ cpc'[d] = cpc[d] /\ reply'[d] = reply[d] /\ down'[d] = down[d]
          /\ clientEnd'[d] = clientEnd[d] /\ serverEnd'[d] = serverEnd[d]
      BY <2>1, ClientEffects
    <3>2. Unanswered(d)' <=> Unanswered(d)
      BY <3>1 DEF Unanswered, Dead
    <3> QED BY <3>1, <3>2 DEF Working, Served
  <2>2. CASE d = c
    <3>1. serverEnd[d] = "backlog" => Unanswered(d)
      BY DEF Working, Served
    <3> QED BY <2>2, <3>1, ClientEffects
  <2> QED BY <2>1, <2>2
<1>3. Owners'
  BY <1>0 DEF Working, Owners
<1>4. Served'
  <2>1. ASSUME NEW h \in Handlers, hpc[h] \in Active
        PROVE  \A d \in Clients : d = sock'[Own(h)'] =>
                 /\ serverEnd'[d] = "open"
                 /\ hpc[h] # "close" => Unanswered(d)'
                 /\ hpc[h] = "close" => Complete(d)' \/ Dead(d)'
    BY <1>0, <1>1, <1>2, <2>1 DEF Working, Served
  <2>2. \A d \in Accepted' :
          (\E f \in Fds : sock'[f] = d) \/ Complete(d)' \/ Dead(d)'
    <3> SUFFICES ASSUME NEW d \in Accepted'
                 PROVE  (\E f \in Fds : sock'[f] = d) \/ Complete(d)' \/ Dead(d)'
      OBVIOUS
    <3>1. d \in Clients /\ d \in Accepted
      BY <1>2 DEF Accepted
    <3> QED BY <1>1, <3>1 DEF Working, Served
  <2> QED BY <1>0, <1>2, <2>1, <2>2 DEF Served, Active
<1>5. Regular => Joining'
  BY <1>1 DEF Working, Joining
<1> QED BY <1>3, <1>4, <1>5 DEF Working

-----------------------------------------------------------------------------
(* The totals that are printed.                                            *)

\* What finishMain prints when it has joined every thread.
LEMMA TotalsPrinted ==
  ASSUME Regular, PccInv, server = "running", Working, FinishMainPrint,
         UNCHANGED clientVars
  PROVE  TotalsComplete' /\ ExitsOnlyOnSIGINT'
<1> DEFINE answered == {c \in Clients : Complete(c)}
           dead == {c \in Clients : Dead(c)}
<1>0. TypeOK /\ Connections /\ Totals /\ Counts
  BY DEF PccInv
<1>1. /\ joined = online /\ mainPc = "join"
      /\ UNCHANGED <<receivedSIGINT, online, down, total, cpc, reply>>
  BY DEF FinishMainPrint, clientVars
<1>2. /\ online \in 0 .. Cardinality(Clients) /\ total \in SUBSET Handlers
      /\ Cardinality(Clients) \in Nat
      /\ reply \in [Clients -> Seq(Bytes)] /\ down \in [Clients -> Seq(Bytes)]
  BY <1>0, ClientsFinite
     DEF TypeOK, ServerTypeOK, SocketsTypeOK, ClientTypeOK
<1>3. \A h \in Handlers : hpc[h] = IF h <= online THEN "ended" ELSE "none"
  <2> SUFFICES ASSUME NEW h \in Handlers
               PROVE  hpc[h] = IF h <= online THEN "ended" ELSE "none"
    OBVIOUS
  <2>1. h \in Nat \ {0}
    BY <1>2 DEF Handlers
  <2>2. CASE h <= online
    BY <1>1, <1>2, <2>1, <2>2 DEF Working, Joining
  <2>3. CASE ~ h <= online
    BY <1>0, <1>2, <2>1, <2>3 DEF Connections
  <2> QED BY <2>2, <2>3
<1>4. total \subseteq 1 .. online
  <2>1. \A h \in total : h \in Handlers /\ h <= online
    BY <1>0, <1>2, <1>3 DEF Totals
  <2> QED BY <1>2, <2>1 DEF Handlers
<1>5. dead = {} => total = 1 .. online
  <2> SUFFICES ASSUME dead = {}, NEW h \in 1 .. online PROVE h \in total
    BY <1>4
  <2>1. h \in Handlers /\ hpc[h] = "ended"
    BY <1>2, <1>3 DEF Handlers
  <2> QED BY <2>1 DEF Working, Joining
<1>6. Accepted \subseteq answered \cup dead
  <2> SUFFICES ASSUME NEW c \in Accepted PROVE Complete(c) \/ Dead(c)
    BY DEF Accepted
  <2>1. \A f \in Fds : sock[f] # c
    <3> SUFFICES ASSUME NEW f \in Fds, sock[f] = c PROVE FALSE
      OBVIOUS
    <3>1. c # NoClient
      BY ClientsAssumption DEF Accepted
    <3>2. PICK h \in Handlers : hpc[h] \in Active
      BY <3>1 DEF Working, Owners
    <3> QED BY <1>3, <3>2 DEF Active
  <2> QED BY <2>1 DEF Working, Served
<1>7. answered \subseteq Answered
  <2> SUFFICES ASSUME NEW c \in Clients, Complete(c) PROVE c \in Answered
    OBVIOUS
  <2>1. Len(reply[c]) + Len(down[c]) = 4
    BY DEF Complete, WordBytes
  <2>2. ASSUME reply[c] = << >>, down[c] = << >> PROVE FALSE
    <3>1. Len(reply[c]) = 0 /\ Len(down[c]) = 0
      BY <2>2
    <3> QED BY <2>1, <3>1
  <2> QED BY <2>2 DEF Answered
<1>8. /\ answered \cup dead \in SUBSET Clients /\ answered \ dead \in SUBSET Clients
      /\ Accepted \in SUBSET Clients /\ Answered \in SUBSET Clients
      /\ Counted \in SUBSET Handlers
      /\ Counted \subseteq total
  BY <1>2 DEF Accepted, Answered, Counted
<1> HIDE DEF answered, dead
<1>9. /\ IsFiniteSet(answered \cup dead) /\ IsFiniteSet(Answered)
      /\ IsFiniteSet(total) /\ IsFiniteSet(1 .. online)
      /\ Cardinality(1 .. online) = online
  <2>1. /\ IsFiniteSet(answered \cup dead) /\ IsFiniteSet(Answered)
        /\ IsFiniteSet(total)
    BY <1>2, <1>8, ClientsFinite
  <2>2. 1 \in Int /\ online \in Int /\ online >= 0
    BY <1>2
  <2>3. IsFiniteSet(1 .. online) /\ Cardinality(1 .. online) = online
    BY <2>2, FS_Interval
  <2> QED BY <2>1, <2>3
<1>10. /\ Cardinality(answered \ dead) <= Cardinality(Answered)
       /\ Cardinality(Counted) <= Cardinality(total)
       /\ Cardinality(total) <= online
       /\ Cardinality(Accepted) <= Cardinality(answered \cup dead)
  <2>1. answered \ dead \subseteq Answered
    BY <1>7
  <2> QED BY <1>4, <1>6, <1>8, <1>9, <2>1, FS_Subset
<1>11. /\ Cardinality(answered \ dead) \in Nat /\ Cardinality(Answered) \in Nat
       /\ Cardinality(Counted) \in Nat /\ Cardinality(total) \in Nat
  BY <1>2, <1>8, ClientsFinite
<1>12. /\ dead = {} => total = 1 .. online
       /\ Cardinality(answered \ dead) <= Cardinality(total)
       /\ Cardinality(total) <= online
       /\ online <= Cardinality(answered \cup dead)
  <2>1. Cardinality(Answered) <= Cardinality(Counted)
    BY <1>0 DEF Counts
  <2>2. Cardinality(answered \ dead) <= Cardinality(total)
    BY <1>10, <1>11, <2>1
  <2>3. online = Cardinality(Accepted)
    BY <1>0 DEF Connections
  <2> QED BY <1>5, <1>10, <2>2, <2>3
<1>13. TotalsComplete'
  BY <1>1, <1>12 DEF TotalsComplete, answered, dead, Complete, Dead
<1>14. ExitsOnlyOnSIGINT'
  BY <1>1 DEF ExitsOnlyOnSIGINT, Working, Joining
<1> QED BY <1>13, <1>14

\* Once they were printed, no client's step makes them wrong.
LEMMA TotalsStay ==
  ASSUME PccInv, TotalsComplete, ExitsOnlyOnSIGINT, NEW c \in Clients,
         Client(c, Listening) \/ Die(c), UNCHANGED serverVars
  PROVE  TotalsComplete' /\ ExitsOnlyOnSIGINT'
<1> USE DEF serverVars
<1> DEFINE answered == {d \in Clients : Complete(d)}
           dead == {d \in Clients : Dead(d)}
<1>1. \A d \in Clients :
        (Complete(d)' <=> Complete(d)) /\ (Dead(d) => Dead(d)')
  BY CompleteStays
<1>2. /\ answered' = answered /\ dead \subseteq dead'
      /\ answered \in SUBSET Clients /\ dead' \in SUBSET Clients
  BY <1>1
<1>3. mainPc = "done" =>
        /\ dead = {} => total = 1 .. online
        /\ Cardinality(answered \ dead) <= Cardinality(total)
        /\ Cardinality(total) <= online
        /\ online <= Cardinality(answered \cup dead)
  BY DEF TotalsComplete, Complete, Dead
<1>4. ASSUME mainPc = "done"
      PROVE  /\ dead' = {} => total' = 1 .. online'
             /\ Cardinality(answered' \ dead') <= Cardinality(total')
             /\ Cardinality(total') <= online'
             /\ online' <= Cardinality(answered' \cup dead')
  <2> HIDE DEF answered, dead
  <2>1. /\ answered \ dead' \subseteq answered \ dead
        /\ answered \cup dead \subseteq answered \cup dead'
        /\ answered \ dead \in SUBSET Clients /\ answered \ dead' \in SUBSET Clients
        /\ answered \cup dead' \in SUBSET Clients
        /\ answered \cup dead \in SUBSET Clients
    BY <1>2
  <2>2. /\ Cardinality(answered \ dead') <= Cardinality(answered \ dead)
        /\ Cardinality(answered \cup dead) <= Cardinality(answered \cup dead')
    BY <2>1, ClientsFinite, FS_Subset
  <2>3. /\ Cardinality(answered \ dead') \in Nat
        /\ Cardinality(answered \ dead) \in Nat
        /\ Cardinality(answered \cup dead) \in Nat
        /\ Cardinality(answered \cup dead') \in Nat
        /\ Cardinality(total) \in Nat /\ online \in Nat
    BY <2>1, ClientsFinite DEF PccInv, TypeOK, ServerTypeOK
  <2>4. /\ Cardinality(answered \ dead') <= Cardinality(total)
        /\ online <= Cardinality(answered \cup dead')
    BY <1>3, <1>4, <2>2, <2>3
  <2> QED BY <1>2, <1>3, <1>4, <2>4
<1>5. TotalsComplete'
  BY <1>4 DEF TotalsComplete, Complete, Dead
<1>6. ExitsOnlyOnSIGINT'
  BY <1>1 DEF ExitsOnlyOnSIGINT, Dead
<1> QED BY <1>5, <1>6

\* The process ends in no other way but on the death of a client.
LEMMA EndsOfClient ==
  ASSUME Regular, PccInv, Working, NEW h \in Handlers,
         \/ ReadLengthExits(h) \/ CallocFails(h) \/ SendAnswerExits(h)
         \/ ExitProcess(h)
  PROVE  /\ server' = "failed" /\ mainPc' = mainPc
         /\ \E c \in Clients : cpc[c] = "dead"
<1>1. CASE ReadLengthExits(h)
  <2>1. Dead(Conn(h)) /\ Conn(h) \in Clients
    BY <1>1, ReadErrorOfDead, ThreadConnection DEF ReadLengthExits, Active
  <2> QED BY <1>1, <2>1 DEF ReadLengthExits, Exit, Dead
<1>2. CASE CallocFails(h)
  BY <1>2 DEF CallocFails, Regular
<1>3. CASE SendAnswerExits(h)
  <2>1. /\ hpc[h] = "answer" /\ Conn(h) \in Clients
        /\ Unanswered(Conn(h)) /\ Broken(clientEnd[Conn(h)])
    BY <1>3, ThreadConnection DEF SendAnswerExits, Active
  <2>2. Dead(Conn(h))
    BY <2>1 DEF Unanswered, Broken
  <2> QED BY <1>3, <2>1, <2>2 DEF SendAnswerExits, Exit, Dead
<1>4. CASE ExitProcess(h)
  BY <1>4 DEF ExitProcess, Working, Joining
<1> QED BY <1>1, <1>2, <1>3, <1>4

LEMMA WorkingStays == UNCHANGED vars /\ Working => Working'
<1> SUFFICES ASSUME UNCHANGED vars, Working PROVE Working'
  OBVIOUS
<1> USE DEF vars, sockets, serverVars, clientVars
<1>1. \A h : Own(h)' = Own(h)
  BY DEF Own
<1>2. \A c : /\ (Complete(c)' <=> Complete(c)) /\ (Dead(c)' <=> Dead(c))
             /\ (Unanswered(c)' <=> Unanswered(c))
  BY DEF Complete, Dead, Unanswered
<1>3. Accepted' = Accepted
  BY DEF Accepted
<1>4. Owners' /\ (Regular => Joining')
  BY <1>1, <1>2 DEF Working, Owners, Joining
<1>5. Served'
  BY <1>1, <1>2, <1>3 DEF Working, Served
<1> QED BY <1>4, <1>5 DEF Working

LEMMA RegularNext == Regular /\ RegularInv /\ [Next]_vars => RegularInv'
<1> SUFFICES ASSUME Regular, RegularInv, [Next]_vars PROVE RegularInv'
  OBVIOUS
<1>0. InTime /\ PccInv /\ PccInv' /\ TotalsComplete /\ ExitsOnlyOnSIGINT
  BY PccInvNext DEF RegularInv, Regular, InTime
<1>1. CASE (ServerMain \/ Signal) /\ UNCHANGED clientVars
  <2>0. server = "running" /\ Working
    BY <1>1 DEF ServerMain, Signal, RegularInv
  <2>1. CASE \/ StartListen    \/ TestSIGINT \/ CallAccept
             \/ FinishMainJoin \/ SIGINT_handler \/ GetNewConnection
    <3>1. Working'
      BY <1>0, <1>1, <2>0, <2>1, MainStepsWork, GetNewConnectionWorks
    <3>2. server' = "running"
      BY <2>0, <2>1 DEF StartListen, TestSIGINT, CallAccept, FinishMainJoin,
                        SIGINT_handler, GetNewConnection
    <3> QED BY <1>0, <3>1, <3>2, RunningQuiet DEF RegularInv, Working, Joining
  <2>2. CASE FinishMainPrint
    <3>1. server' # "running"
      BY <2>2 DEF FinishMainPrint
    <3> QED BY <1>0, <1>1, <2>0, <2>2, <3>1, TotalsPrinted DEF RegularInv
  <2>3. CASE StartFails \/ GetNewConnectionFails
    BY <2>3 DEF StartFails, GetNewConnectionFails, Regular
  <2> QED BY <1>1, <2>1, <2>2, <2>3 DEF ServerMain, Signal
<1>2. ASSUME NEW h \in Handlers, Handler(h), UNCHANGED clientVars
      PROVE  RegularInv'
  <2>0. server = "running" /\ Working
    BY <1>2 DEF Handler, RegularInv
  <2>1. CASE \/ ReadLengthExits(h) \/ CallocFails(h) \/ SendAnswerExits(h)
             \/ ExitProcess(h)
    <3>1. /\ server' = "failed" /\ mainPc' = mainPc
          /\ \E c \in Clients : cpc[c] = "dead"
      BY <1>0, <2>0, <2>1, EndsOfClient
    <3>2. TotalsComplete'
      BY <2>0, <3>1 DEF TotalsComplete, Working, Joining
    <3>3. ExitsOnlyOnSIGINT'
      BY <1>2, <3>1 DEF ExitsOnlyOnSIGINT, clientVars
    <3> QED BY <1>0, <3>1, <3>2, <3>3 DEF RegularInv
  <2>2. CASE \/ StartHandler(h) \/ ReadLength(h) \/ ReadLengthFails(h)
             \/ ReadData(h) \/ ReadDataFails(h) \/ LockTotals(h)
             \/ StoreTotals(h) \/ SendAnswer(h) \/ CloseConnection(h)
    <3>1. Working'
      <4>1. CASE CloseConnection(h)
        BY <1>0, <1>2, <2>0, <4>1, CloseConnectionWorks
      <4>2. CASE ~ CloseConnection(h)
        BY <1>0, <1>2, <2>0, <2>2, <4>2, ThreadStepsWork
      <4> QED BY <4>1, <4>2
    <3>2. server' = "running"
      BY <2>0, <2>2 DEF StartHandler, ReadLength, ReadLengthFails, ReadData,
           ReadDataFails, LockTotals, StoreTotals, SendAnswer, CloseConnection,
           HandlerUnchanged, server_main
    <3> QED BY <1>0, <3>1, <3>2, RunningQuiet DEF RegularInv, Working, Joining
  <2> QED BY <1>2, <2>1, <2>2 DEF Handler
<1>3. ASSUME NEW c \in Clients, Client(c, Listening) \/ Die(c),
             UNCHANGED serverVars
      PROVE  RegularInv'
  <2>1. TotalsComplete' /\ ExitsOnlyOnSIGINT'
    BY <1>0, <1>3, TotalsStay
  <2>2. server' = "running" => Working'
    BY <1>0, <1>3, ClientWorks DEF RegularInv, serverVars
  <2> QED BY <1>0, <2>1, <2>2 DEF RegularInv
<1>4. CASE UNCHANGED vars
  <2> USE <1>4 DEF vars, sockets, serverVars, clientVars
  <2>1. TotalsComplete' /\ ExitsOnlyOnSIGINT'
    BY <1>0 DEF TotalsComplete, ExitsOnlyOnSIGINT
  <2>2. server' = "running" => Working'
    <3>1. Working => Working'
      BY WorkingStays
    <3> QED BY <3>1 DEF RegularInv
  <2> QED BY <1>0, <2>1, <2>2 DEF RegularInv
<1> QED BY <1>1, <1>2, <1>3, <1>4 DEF Next

\* The totals that the server prints after SIGINT are those of every connection
\* it accepted, in any interleaving of threads, signals, clients and deaths of
\* clients (finishMain joins every thread; updatePcc_total loses no update).
THEOREM TotalsAlwaysComplete ==
  ASSUME Regular
  PROVE  Spec => []TotalsComplete
<1>1. RegularInv /\ [Next]_vars => RegularInv'
  BY RegularNext
<1>2. RegularInv => TotalsComplete
  BY DEF RegularInv
<1> QED BY <1>1, <1>2, RegularInit, PTL DEF Spec

\* Nothing but SIGINT and the death of a client ends the server.
THEOREM ExitsAlwaysOnSIGINT ==
  ASSUME Regular
  PROVE  Spec => []ExitsOnlyOnSIGINT
<1>1. RegularInv /\ [Next]_vars => RegularInv'
  BY RegularNext
<1>2. RegularInv => ExitsOnlyOnSIGINT
  BY DEF RegularInv
<1> QED BY <1>1, <1>2, RegularInit, PTL DEF Spec

-----------------------------------------------------------------------------
(* Answers: what a client sends, its thread reads in order, and the other    *)
(* way round.                                                                *)

\* What c sends and is to be answered; its length, decoded, is not less than
\* it is.
LEMMA SentTypes ==
  ASSUME TypeOK, NEW c \in Clients
  PROVE  /\ payload[c] \in Seq(Bytes) /\ Len(payload[c]) \in Nat \ {0}
         /\ LengthOf(c) \in Seq(Bytes) /\ Len(LengthOf(c)) = WordBytes
         /\ AnswerOf(c) \in Seq(Bytes) /\ Len(AnswerOf(c)) = WordBytes
         /\ Sent(c) \in {<< >>, LengthOf(c), LengthOf(c) \o payload[c]}
         /\ Sent(c) \in Seq(Bytes)
         /\ Value(CharsToUnsignedInt(LengthOf(c))) \in Nat
         /\ Value(CharsToUnsignedInt(LengthOf(c))) >= Len(payload[c])
<1>1. /\ payload[c] \in Seq(Bytes) /\ payload[c] # << >>
      /\ Len(payload[c]) < Byte * Byte * Byte * Byte
  BY PayloadsAssumption, LengthAssumption DEF TypeOK, ClientTypeOK
<1>2. Len(payload[c]) \in Nat \ {0}
  BY <1>1
<1>3. LengthOf(c) \in Seq(Bytes) /\ Len(LengthOf(c)) = WordBytes
  BY <1>2, UnsignedIntToCharsType DEF LengthOf
<1>4. AnswerOf(c) \in Seq(Bytes) /\ Len(AnswerOf(c)) = WordBytes
  BY <1>1, PrintablesType, UnsignedIntToCharsType DEF AnswerOf
<1>5. Sent(c) \in {<< >>, LengthOf(c), LengthOf(c) \o payload[c]}
  BY DEF Sent
<1>6. Sent(c) \in Seq(Bytes)
  <2>1. << >> \in Seq(Bytes) /\ LengthOf(c) \o payload[c] \in Seq(Bytes)
    BY <1>1, <1>3, Concat
  <2> QED BY <1>3, <1>5, <2>1
<1>7. Value(LengthOf(c)) = Len(payload[c])
  BY <1>1, <1>2, ValueOfChars DEF LengthOf
<1>8. Value(CharsToUnsignedInt(LengthOf(c))) >= Value(LengthOf(c))
  BY <1>3, CharsNotLess
<1>9. Value(CharsToUnsignedInt(LengthOf(c))) \in Nat
  BY <1>3, CharsToUnsignedIntType, ValueType
<1> QED BY <1>1, <1>2, <1>3, <1>4, <1>5, <1>6, <1>7, <1>8, <1>9

LEMMA OrderInit == Init => RequestsInOrder /\ AnswersInOrder
<1> SUFFICES ASSUME Init PROVE RequestsInOrder /\ AnswersInOrder
  OBVIOUS
<1> USE DEF Init, SocketsInit, ServerInit, ClientInit
<1>1. RequestsInOrder
  BY DEF RequestsInOrder, RequestRead, Sent
<1>2. AnswersInOrder
  BY DEF AnswersInOrder
<1> QED BY <1>1, <1>2

\* A step of thread h on its connection: the others' are left alone.
LEMMA ThreadRequests ==
  ASSUME PccInv, server = "running", Working, RequestsInOrder,
         NEW h \in Handlers, hpc[h] \in Active, NEW c \in Clients,
         c = sock[Own(h)], hpc'[h] # "start", fd'[h] = Own(h),
         \A k \in Handlers \ {h} :
           /\ hpc'[k] = hpc[k] /\ got'[k] = got[k] /\ need'[k] = need[k]
           /\ fd'[k] = fd[k],
         UNCHANGED <<sock, fdCell, cpc, payload, serverEnd>>,
         \A d \in Clients \ {c} : up'[d] = up[d],
         ~ Dead(c) => RequestRead(h, c)'
  PROVE  RequestsInOrder'
<1>1. \A k \in Handlers : Own(k)' = Own(k)
  BY DEF Own
<1>2. Own(h) \in Fds /\ serverEnd[c] = "open" /\ cpc[c] # "connect"
  <2>1. serverEnd[c] = "open"
    BY DEF Working, Served
  <2> QED BY <2>1, ThreadConnection DEF PccInv, ClientReads
<1>3. \A k \in Handlers : hpc[k] \in Active /\ sock[Own(k)] = c => k = h
  <2> SUFFICES ASSUME NEW k \in Handlers, hpc[k] \in Active, sock[Own(k)] = c
               PROVE  k = h
    OBVIOUS
  <2>1. Own(k) \in Fds /\ sock[Own(k)] # NoClient
    BY DEF Working, Owners
  <2>2. Own(k) = Own(h)
    BY <1>2, <2>1 DEF PccInv, Connections
  <2> QED BY <2>2 DEF Working, Owners
<1>4. \A d \in Clients : Sent(d)' = Sent(d) /\ LengthOf(d)' = LengthOf(d)
  BY DEF Sent, LengthOf
<1> SUFFICES ASSUME NEW d \in Clients, cpc'[d] # "dead"
             PROVE  /\ cpc'[d] = "connect" \/ serverEnd'[d] = "backlog" =>
                         up'[d] = Sent(d)'
                    /\ \A k \in Handlers : Own(k)' \in Fds =>
                         (sock'[Own(k)'] = d => RequestRead(k, d)')
  BY DEF RequestsInOrder
<1>5. cpc'[d] = "connect" \/ serverEnd'[d] = "backlog" => up'[d] = Sent(d)'
  BY <1>2, <1>4 DEF RequestsInOrder
<1>6. ASSUME NEW k \in Handlers, Own(k)' \in Fds, sock'[Own(k)'] = d
      PROVE  RequestRead(k, d)'
  <2>1. Own(k) \in Fds /\ sock[Own(k)] = d
    BY <1>1, <1>6
  <2>2. CASE k = h
    <3>1. d = c /\ ~ Dead(c)
      BY <2>1, <2>2 DEF Dead
    <3> QED BY <2>2, <3>1
  <2>3. CASE k # h /\ d # c
    <3>1. RequestRead(k, d)
      BY <2>1 DEF RequestsInOrder
    <3> QED BY <1>4, <2>3, <3>1 DEF RequestRead
  <2>4. CASE k # h /\ d = c
    <3>1. hpc'[k] \notin Active
      BY <1>3, <2>1, <2>4
    <3> QED BY <3>1 DEF RequestRead, Active
  <2> QED BY <2>2, <2>3, <2>4
<1> QED BY <1>5, <1>6

\* The thread's connection, and what RequestsInOrder says of it.
LEMMA ThreadRequest ==
  ASSUME PccInv, server = "running", Working, RequestsInOrder,
         NEW h \in Handlers, hpc[h] \in Active
  PROVE  \E c \in Clients :
           /\ c = sock[Own(h)] /\ (~ Dead(c) => RequestRead(h, c))
           /\ hpc[h] # "start" => c = Conn(h) /\ Own(h) = fd[h]
           /\ hpc[h] # "close" => Unanswered(c)
<1>1. /\ sock[Own(h)] \in Clients /\ Own(h) \in Fds
      /\ hpc[h] # "start" => Conn(h) = sock[Own(h)] /\ Own(h) = fd[h]
      /\ hpc[h] # "close" => Unanswered(sock[Own(h)])
  BY ThreadConnection
<1>2. ~ Dead(sock[Own(h)]) => RequestRead(h, sock[Own(h)])
  BY <1>1 DEF RequestsInOrder, Dead
<1> QED BY <1>1, <1>2

\* A thread copies its descriptor, before main overwrites it.
LEMMA StartRequests ==
  ASSUME PccInv, server = "running", Working, RequestsInOrder,
         NEW h \in Handlers, StartHandler(h), UNCHANGED clientVars
  PROVE  RequestsInOrder'
<1> USE DEF server_main, sockets, clientVars
<1>0. /\ TypeOK /\ hpc[h] = "start" /\ hpc[h] \in Active /\ got[h] = << >>
  BY DEF PccInv, Totals, StartHandler, Active
<1>1. PICK c \in Clients : c = sock[Own(h)] /\ (~ Dead(c) => RequestRead(h, c))
  BY <1>0, ThreadRequest
<1>2. /\ hpc'[h] = "length" /\ fd'[h] = Own(h)
      /\ \A k \in Handlers \ {h} : hpc'[k] = hpc[k] /\ fd'[k] = fd[k]
      /\ UNCHANGED <<got, need, sock, fdCell, cpc, payload, serverEnd, up>>
  BY <1>0 DEF StartHandler, HandlerUnchanged, Own, TypeOK, ServerTypeOK
<1>3. ASSUME ~ Dead(c) PROVE RequestRead(h, c)'
  <2>1. up[c] = Sent(c) /\ up[c] \in Seq(Bytes)
    BY <1>0, <1>1, <1>3 DEF RequestRead, TypeOK, SocketsTypeOK
  <2>2. << >> \o up[c] = up[c]
    BY <2>1
  <2>3. Sent(c)' = Sent(c)
    BY <1>2 DEF Sent, LengthOf
  <2> QED BY <1>0, <1>2, <2>1, <2>2, <2>3 DEF RequestRead
<1> QED BY <1>0, <1>1, <1>2, <1>3, ThreadRequests

\* What a read gives to a thread: the stream is what it has read of it.
LEMMA Received ==
  ASSUME TypeOK, NEW h \in Handlers, NEW c \in Clients, c = Conn(h),
         NEW max \in Int, NEW chunk \in Arrived(h, max), Receive(h, chunk)
  PROVE  /\ chunk \in Seq(Bytes) /\ Len(chunk) \in 1 .. max
         /\ got[h] \in Seq(Bytes) /\ up[c] \in Seq(Bytes)
         /\ up'[c] \in Seq(Bytes)
         /\ (got[h] \o chunk) \o up'[c] = got[h] \o up[c]
         /\ \A d \in Clients \ {c} : up'[d] = up[d]
<1>1. chunk \in Readable(up[c], max) /\ up[c] \in Seq(Bytes) /\ got[h] \in Seq(Bytes)
  <2>1. up[c] \in Seq(Bytes) /\ got[h] \in Seq(Bytes)
    BY DEF TypeOK, SocketsTypeOK, ServerTypeOK
  <2>2. c # NoClient
    BY ClientsAssumption
  <2> QED BY <2>1, <2>2 DEF Arrived
<1>2. /\ up'[c] = After(up[c], chunk)
      /\ \A d \in Clients \ {c} : up'[d] = up[d]
  BY DEF Receive, TypeOK, SocketsTypeOK
<1>3. /\ chunk \in Seq(Bytes) /\ Len(chunk) \in 1 .. max
      /\ up'[c] \in Seq(Bytes) /\ chunk \o up'[c] = up[c]
  <2>1. /\ chunk \in Seq(Bytes) /\ Len(chunk) \in 1 .. max
        /\ After(up[c], chunk) \in Seq(Bytes)
    BY <1>1, ReadableTypes
  <2>2. chunk \o After(up[c], chunk) = up[c]
    BY <1>1, ReadWhole
  <2> QED BY <1>2, <2>1, <2>2
<1>4. (got[h] \o chunk) \o up'[c] = got[h] \o (chunk \o up'[c])
  BY <1>1, <1>3, ConcatAssoc
<1> QED BY <1>1, <1>2, <1>3, <1>4

\* A thread reads of the length: the fourth byte completes what was sent.
LEMMA ReadLengthRequests ==
  ASSUME PccInv, server = "running", Working, RequestsInOrder,
         NEW h \in Handlers, ReadLength(h), UNCHANGED clientVars
  PROVE  RequestsInOrder'
<1> USE DEF server_main, clientVars
<1>0. /\ TypeOK /\ hpc[h] = "length" /\ hpc[h] \in Active
      /\ Len(got[h]) < WordBytes /\ LengthLeft(h) \in Int
  BY DEF PccInv, ReadLength, Active, TypeOK, ServerTypeOK, LengthLeft, WordBytes
<1>1. PICK c \in Clients :
        /\ c = sock[Own(h)] /\ c = Conn(h) /\ Own(h) = fd[h]
        /\ (~ Dead(c) => RequestRead(h, c))
  BY <1>0, ThreadRequest
<1>2. PICK chunk \in Arrived(h, LengthLeft(h)) :
        /\ Receive(h, chunk)
        /\ IF Len(got[h] \o chunk) = WordBytes
           THEN /\ got' = [got EXCEPT ![h] = << >>]
                /\ need' = [need EXCEPT ![h] = CharsToUnsignedInt(got[h] \o chunk)]
                /\ hpc' = [hpc EXCEPT ![h] = "data"]
           ELSE /\ got' = [got EXCEPT ![h] = got[h] \o chunk]
                /\ UNCHANGED <<hpc, need>>
  BY DEF ReadLength
<1> DEFINE bytes == got[h] \o chunk
<1>3. /\ chunk \in Seq(Bytes) /\ got[h] \in Seq(Bytes) /\ up'[c] \in Seq(Bytes)
      /\ bytes \o up'[c] = got[h] \o up[c]
      /\ \A d \in Clients \ {c} : up'[d] = up[d]
  BY <1>0, <1>1, <1>2, Received
<1>4. bytes \in Seq(Bytes)
  BY <1>3, Concat
<1>5. UNCHANGED <<fd, sock, fdCell, cpc, payload, serverEnd>>
  BY <1>2 DEF ReadLength, HandlerUnchanged, Receive
<1>6. IF Len(bytes) = WordBytes
      THEN hpc'[h] = "data" /\ got'[h] = << >> /\ need'[h] = CharsToUnsignedInt(bytes)
      ELSE hpc'[h] = "length" /\ got'[h] = bytes
  BY <1>0, <1>2 DEF TypeOK, ServerTypeOK
<1>7. \A k \in Handlers \ {h} :
        /\ hpc'[k] = hpc[k] /\ got'[k] = got[k]
        /\ need'[k] = need[k] /\ fd'[k] = fd[k]
  BY <1>0, <1>2, <1>5 DEF TypeOK, ServerTypeOK
<1> HIDE DEF bytes
<1>8. ASSUME ~ Dead(c) PROVE RequestRead(h, c)'
  <2>1. bytes \o up'[c] = Sent(c)
    BY <1>0, <1>1, <1>3, <1>8 DEF RequestRead
  <2>2. Sent(c)' = Sent(c) /\ LengthOf(c)' = LengthOf(c)
    BY <1>5 DEF Sent, LengthOf
  <2>3. CASE Len(bytes) # WordBytes
    <3>1. hpc'[h] = "length" /\ got'[h] \o up'[c] = Sent(c)'
      BY <1>6, <2>1, <2>2, <2>3
    <3> QED BY <3>1 DEF RequestRead
  <2>4. CASE Len(bytes) = WordBytes
    <3>1. /\ payload[c] \in Seq(Bytes)
          /\ LengthOf(c) \in Seq(Bytes) /\ Len(LengthOf(c)) = WordBytes
          /\ Sent(c) \in {<< >>, LengthOf(c), LengthOf(c) \o payload[c]}
      BY <1>0, SentTypes
    <3>2. Len(Sent(c)) = WordBytes + Len(up'[c]) /\ Len(up'[c]) \in Nat
      BY <1>3, <1>4, <2>1, <2>4, Concat
    <3>3. bytes = LengthOf(c)
      <4>1. CASE Sent(c) = << >>
        BY <3>2, <4>1 DEF WordBytes
      <4>2. CASE Sent(c) = LengthOf(c)
        <5>1. << >> \in Seq(Bytes) /\ LengthOf(c) \o << >> = LengthOf(c)
          BY <3>1, Concat
        <5>2. bytes \o up'[c] = LengthOf(c) \o << >>
          BY <2>1, <4>2, <5>1
        <5> QED BY <1>3, <1>4, <2>4, <3>1, <5>1, <5>2, ConcatCancel
      <4>3. CASE Sent(c) = LengthOf(c) \o payload[c]
        BY <1>3, <1>4, <2>1, <2>4, <3>1, <4>3, ConcatCancel
      <4> QED BY <3>1, <4>1, <4>2, <4>3
    <3>4. << >> \o up'[c] = up'[c]
      BY <1>3, Concat
    <3> QED BY <1>6, <2>1, <2>2, <2>4, <3>3, <3>4 DEF RequestRead
  <2> QED BY <2>3, <2>4
<1>9. hpc'[h] # "start" /\ fd'[h] = Own(h)
  BY <1>1, <1>5, <1>6
<1> QED BY <1>0, <1>1, <1>3, <1>5, <1>7, <1>8, <1>9, ThreadRequests

\* A thread reads of the data: it has read it all when it has all of it, as the
\* length it decoded is not less than that of the data.
LEMMA ReadDataRequests ==
  ASSUME PccInv, server = "running", Working, RequestsInOrder,
         NEW h \in Handlers, ReadData(h), UNCHANGED clientVars
  PROVE  RequestsInOrder'
<1> USE DEF server_main, clientVars
<1>0. /\ TypeOK /\ hpc[h] = "data" /\ hpc[h] \in Active
      /\ got[h] \in Seq(Bytes) /\ Len(got[h]) \in Nat
      /\ need[h] \in Words
  BY DEF PccInv, ReadData, Active, TypeOK, ServerTypeOK
<1>1. PICK c \in Clients :
        /\ c = sock[Own(h)] /\ c = Conn(h) /\ Own(h) = fd[h]
        /\ (~ Dead(c) => RequestRead(h, c))
  BY <1>0, ThreadRequest
<1> DEFINE max == Value(need[h]) - Len(got[h])
<1>2. PICK chunk \in IF Value(need[h]) = 0 /\ Conn(h) # NoClient
                     THEN {<< >>} ELSE Arrived(h, max) :
        /\ Receive(h, chunk)
        /\ got' = [got EXCEPT ![h] = got[h] \o chunk]
        /\ hpc' = [hpc EXCEPT ![h] =
             IF Len(got[h] \o chunk) = Value(need[h]) THEN "lock" ELSE "data"]
  BY DEF ReadData
<1>3. UNCHANGED <<need, fd, sock, fdCell, cpc, payload, serverEnd>>
  BY <1>2 DEF ReadData, HandlerUnchanged, Receive
<1> DEFINE bytes == got[h] \o chunk
<1>4. /\ \A d \in Clients \ {c} : up'[d] = up[d]
      /\ hpc'[h] = IF Len(bytes) = Value(need[h]) THEN "lock" ELSE "data"
      /\ got'[h] = bytes /\ fd'[h] = Own(h)
      /\ \A k \in Handlers \ {h} :
           /\ hpc'[k] = hpc[k] /\ got'[k] = got[k]
        /\ need'[k] = need[k] /\ fd'[k] = fd[k]
  BY <1>0, <1>1, <1>2, <1>3
     DEF Receive, TypeOK, ServerTypeOK, SocketsTypeOK
<1> HIDE DEF max
<1>5. ASSUME ~ Dead(c) PROVE RequestRead(h, c)'
  <2>1. /\ need[h] = CharsToUnsignedInt(LengthOf(c))
        /\ LengthOf(c) \o (got[h] \o up[c]) = Sent(c)
    BY <1>0, <1>1, <1>5 DEF RequestRead
  <2>2. /\ payload[c] \in Seq(Bytes) /\ Len(payload[c]) \in Nat \ {0}
        /\ LengthOf(c) \in Seq(Bytes) /\ Len(LengthOf(c)) = WordBytes
        /\ Sent(c) \in {<< >>, LengthOf(c), LengthOf(c) \o payload[c]}
        /\ Value(need[h]) \in Nat /\ Value(need[h]) >= Len(payload[c])
    BY <1>0, <2>1, SentTypes
  <2>3. chunk \in Arrived(h, max) /\ max \in Int
    BY <1>0, <1>2, <2>2 DEF max
  <2>4. /\ chunk \in Seq(Bytes) /\ Len(chunk) \in 1 .. max
        /\ up[c] \in Seq(Bytes) /\ up'[c] \in Seq(Bytes)
        /\ bytes \o up'[c] = got[h] \o up[c]
    BY <1>0, <1>1, <1>2, <2>3, Received
  <2>5. bytes \in Seq(Bytes)
    BY <1>0, <2>4, Concat
  <2> HIDE DEF bytes
  <2>6. LengthOf(c) \o (bytes \o up'[c]) = Sent(c)
    BY <2>1, <2>4
  <2>7. Sent(c)' = Sent(c) /\ LengthOf(c)' = LengthOf(c) /\ payload'[c] = payload[c]
    BY <1>3 DEF Sent, LengthOf
  <2>8. CASE Len(bytes) # Value(need[h])
    <3>1. hpc'[h] = "data" /\ got'[h] = bytes /\ need'[h] = need[h]
      BY <1>3, <1>4, <2>8
    <3> QED BY <2>1, <2>6, <2>7, <3>1 DEF RequestRead
  <2>9. CASE Len(bytes) = Value(need[h])
    <3> DEFINE rest == bytes \o up'[c]
    <3>1. /\ rest \in Seq(Bytes) /\ Len(rest) = Len(bytes) + Len(up'[c])
          /\ Len(bytes) \in Nat /\ Len(up'[c]) \in Nat
      BY <2>4, <2>5, Concat
    <3>2. LengthOf(c) \o rest = Sent(c)
      BY <2>6
    <3> HIDE DEF rest
    <3>3. Len(rest) >= Len(payload[c]) /\ Len(rest) \in Nat \ {0}
      BY <2>2, <2>9, <3>1
    <3>4. Len(Sent(c)) = WordBytes + Len(rest)
      BY <2>2, <3>1, <3>2, Concat
    <3>5. Sent(c) = LengthOf(c) \o payload[c]
      <4>1. Len(Sent(c)) > WordBytes /\ WordBytes > 0
        BY <3>3, <3>4 DEF WordBytes
      <4>2. Sent(c) # << >>
        BY <4>1 DEF WordBytes
      <4>3. Sent(c) # LengthOf(c)
        <5> SUFFICES ASSUME Sent(c) = LengthOf(c) PROVE FALSE
          OBVIOUS
        <5>1. Len(Sent(c)) = WordBytes
          BY <2>2
        <5> QED BY <4>1, <5>1 DEF WordBytes
      <4> QED BY <2>2, <4>2, <4>3
    <3>6. rest = payload[c]
      BY <2>2, <3>1, <3>2, <3>5, ConcatCancel
    <3>7. Len(up'[c]) = 0
      BY <2>2, <2>9, <3>1, <3>6
    <3>8. up'[c] = << >>
      BY <2>4, <3>7
    <3>9. bytes = payload[c]
      BY <2>5, <3>6, <3>8, Concat DEF rest
    <3>10. hpc'[h] = "lock" /\ got'[h] = bytes
      BY <1>4, <2>9
    <3> QED BY <2>7, <3>9, <3>10 DEF RequestRead
  <2> QED BY <2>8, <2>9
<1>6. hpc'[h] # "start"
  BY <1>4
<1> QED BY <1>0, <1>1, <1>3, <1>4, <1>5, <1>6, ThreadRequests

\* Steps of a thread that take nothing from its connection, or what is read of
\* it when the client is dead.
LEMMA OtherRequests ==
  ASSUME PccInv, server = "running", Working, RequestsInOrder, NEW h \in Handlers,
         \/ ReadLengthFails(h) \/ ReadDataFails(h) \/ LockTotals(h)
         \/ StoreTotals(h) \/ SendAnswer(h),
         UNCHANGED clientVars
  PROVE  RequestsInOrder'
<1> USE DEF server_main, clientVars, sockets
<1>0. /\ TypeOK /\ hpc[h] \in Active \ {"start", "close"}
      /\ hpc[h] \in {"length", "data", "lock", "store", "answer"}
  BY DEF PccInv, Active, ReadLengthFails, ReadDataFails, LockTotals, StoreTotals,
         SendAnswer
<1>1. PICK c \in Clients :
        /\ c = sock[Own(h)] /\ c = Conn(h) /\ Own(h) = fd[h]
        /\ (~ Dead(c) => RequestRead(h, c))
  BY <1>0, ThreadRequest
<1>2. UNCHANGED <<need, fd, sock, fdCell, cpc, payload, serverEnd, up>>
  BY DEF ReadLengthFails, ReadDataFails, LockTotals, StoreTotals, SendAnswer,
         ReceiveFails, HandlerUnchanged
<1>3. /\ \A k \in Handlers \ {h} : hpc'[k] = hpc[k] /\ got'[k] = got[k]
      /\ hpc'[h] # "start"
  <2>1. CASE ReadLengthFails(h) \/ ReadDataFails(h)
    BY <1>0, <2>1 DEF ReadLengthFails, ReadDataFails, TypeOK, ServerTypeOK
  <2>2. CASE LockTotals(h) \/ StoreTotals(h) \/ SendAnswer(h)
    BY <1>0, <2>2 DEF LockTotals, StoreTotals, SendAnswer, TypeOK, ServerTypeOK
  <2> QED BY <2>1, <2>2
<1>4. ASSUME ~ Dead(c) PROVE RequestRead(h, c)'
  <2>1. CASE ReadLengthFails(h) \/ ReadDataFails(h)
    <3>1. hpc[h] \in {"length", "data"} /\ ReadError(h)
      BY <2>1 DEF ReadLengthFails, ReadDataFails, ReceiveFails
    <3> QED BY <1>1, <1>4, <3>1, ReadErrorOfDead
  <2>2. CASE LockTotals(h) \/ StoreTotals(h)
    <3>1. /\ hpc[h] \in {"lock", "store"} /\ hpc'[h] \in {"store", "answer"}
          /\ got' = got
      BY <1>0, <2>2 DEF LockTotals, StoreTotals, TypeOK, ServerTypeOK
    <3> QED BY <1>1, <1>2, <1>4, <3>1 DEF RequestRead
  <2>3. CASE SendAnswer(h)
    <3>1. hpc'[h] = "close"
      BY <1>0, <2>3 DEF SendAnswer, TypeOK, ServerTypeOK
    <3> QED BY <3>1 DEF RequestRead
  <2> QED BY <2>1, <2>2, <2>3
<1>5. hpc[h] \in Active /\ fd'[h] = Own(h)
  BY <1>0, <1>1, <1>2
<1> QED BY <1>1, <1>2, <1>3, <1>4, <1>5, ThreadRequests

\* A thread closes its own connection and no other.
LEMMA CloseRequests ==
  ASSUME PccInv, server = "running", Working, RequestsInOrder,
         NEW h \in Handlers, CloseConnection(h), UNCHANGED clientVars
  PROVE  RequestsInOrder'
<1> USE DEF server_main, clientVars
<1>0. TypeOK /\ hpc[h] = "close" /\ hpc[h] \in Active
  BY DEF PccInv, CloseConnection, Active
<1>1. PICK c \in Clients :
        c = sock[Own(h)] /\ c = Conn(h) /\ Own(h) = fd[h]
  BY <1>0, ThreadRequest
<1>2. /\ Own(h) \in Fds /\ c # NoClient /\ serverEnd[c] = "open"
      /\ cpc[c] # "connect"
  <2>1. Own(h) \in Fds /\ serverEnd[c] = "open" /\ c # NoClient
    BY <1>0, <1>1, ClientsAssumption DEF Working, Served, Owners
  <2> QED BY <2>1 DEF PccInv, ClientReads
<1>3. /\ hpc' = [hpc EXCEPT ![h] = AfterClose]
      /\ AfterClose \in {"exit", "ended"}
      /\ serverEnd' = [serverEnd EXCEPT ![c] = Closed(up[c])]
      /\ sock' = [sock EXCEPT ![Own(h)] = NoClient]
      /\ UNCHANGED <<fd, fdCell, got, need, up, cpc, payload>>
  BY <1>1, <1>2 DEF CloseConnection, AfterClose
<1>4. /\ hpc'[h] \in {"exit", "ended"} /\ \A k \in Handlers \ {h} : hpc'[k] = hpc[k]
      /\ sock'[Own(h)] = NoClient /\ \A f \in Fds \ {Own(h)} : sock'[f] = sock[f]
      /\ serverEnd'[c] \in {"closed", "reset"}
      /\ \A d \in Clients \ {c} : serverEnd'[d] = serverEnd[d]
  BY <1>0, <1>2, <1>3 DEF TypeOK, ServerTypeOK, SocketsTypeOK, Closed
<1>5. \A k \in Handlers : Own(k)' = Own(k)
  BY <1>0, <1>3, <1>4 DEF Own
<1>6. \A d \in Clients : Sent(d)' = Sent(d) /\ LengthOf(d)' = LengthOf(d)
  BY <1>3 DEF Sent, LengthOf
<1> SUFFICES ASSUME NEW d \in Clients, cpc'[d] # "dead"
             PROVE  /\ cpc'[d] = "connect" \/ serverEnd'[d] = "backlog" =>
                         up'[d] = Sent(d)'
                    /\ \A k \in Handlers : Own(k)' \in Fds =>
                         (sock'[Own(k)'] = d => RequestRead(k, d)')
  BY DEF RequestsInOrder
<1>7. cpc'[d] = "connect" \/ serverEnd'[d] = "backlog" => up'[d] = Sent(d)'
  BY <1>2, <1>3, <1>4, <1>6 DEF RequestsInOrder
<1>8. ASSUME NEW k \in Handlers, Own(k)' \in Fds, sock'[Own(k)'] = d
      PROVE  RequestRead(k, d)'
  <2>1. Own(k) \in Fds /\ sock[Own(k)] = d /\ k # h
    BY <1>4, <1>5, <1>8, ClientsAssumption
  <2>2. RequestRead(k, d)
    BY <1>3, <2>1 DEF RequestsInOrder
  <2> QED BY <1>3, <1>4, <1>6, <2>1, <2>2 DEF RequestRead
<1> QED BY <1>7, <1>8

\* The steps of the threads but the answer touch no answer.
LEMMA AnswersStay ==
  ASSUME AnswersInOrder, UNCHANGED <<reply, down, cpc, payload>>
  PROVE  AnswersInOrder'
BY DEF AnswersInOrder, AnswerOf

\* The answer that a thread sends is that for the data its client sent.
LEMMA AnswerSent ==
  ASSUME PccInv, server = "running", Working, RequestsInOrder, AnswersInOrder,
         NEW h \in Handlers, SendAnswer(h), UNCHANGED clientVars
  PROVE  AnswersInOrder'
<1> USE DEF clientVars
<1>0. TypeOK /\ hpc[h] = "answer" /\ hpc[h] \in Active \ {"start", "close"}
  BY DEF PccInv, SendAnswer, Active
<1>1. PICK c \in Clients :
        c = Conn(h) /\ (~ Dead(c) => RequestRead(h, c)) /\ Unanswered(c)
  BY <1>0, ThreadRequest
<1>2. UNCHANGED <<reply, cpc, payload>>
  OBVIOUS
<1>3. CASE clientEnd[c] # "open"
  <2>1. down' = down
    BY <1>1, <1>3 DEF SendAnswer
  <2> QED BY <1>2, <2>1, AnswersStay
<1>4. CASE clientEnd[c] = "open"
  <2>1. down' = [down EXCEPT ![c] = down[c] \o Answer(h)]
    BY <1>1, <1>4 DEF SendAnswer
  <2>2. /\ \A d \in Clients \ {c} : down'[d] = down[d]
        /\ down'[c] = << >> \o Answer(h) /\ reply'[c] = << >>
    BY <1>0, <1>1, <2>1 DEF TypeOK, SocketsTypeOK, Unanswered
  <2>3. ASSUME ~ Dead(c) PROVE reply'[c] \o down'[c] = AnswerOf(c)
    <3>1. Answer(h) = AnswerOf(c)
      BY <1>0, <1>1, <2>3 DEF RequestRead, Answer, AnswerOf
    <3>2. AnswerOf(c) \in Seq(Bytes)
      BY <1>0, SentTypes
    <3>3. << >> \o AnswerOf(c) = AnswerOf(c)
      BY <3>2, Concat
    <3> QED BY <2>2, <3>1, <3>3
  <2> SUFFICES ASSUME NEW d \in Clients, cpc'[d] # "dead"
               PROVE  reply'[d] \o down'[d] \in {<< >>, AnswerOf(d)'}
    BY DEF AnswersInOrder
  <2>4. AnswerOf(d)' = AnswerOf(d)
    BY DEF AnswerOf
  <2>5. CASE d = c
    BY <2>3, <2>4, <2>5 DEF Dead
  <2>6. CASE d # c
    BY <1>2, <2>2, <2>4, <2>6 DEF AnswersInOrder
  <2> QED BY <2>5, <2>6
<1> QED BY <1>3, <1>4

LEMMA ThreadOrders ==
  ASSUME PccInv, Working, RequestsInOrder, AnswersInOrder,
         NEW h \in Handlers, Handler(h), UNCHANGED clientVars
  PROVE  RequestsInOrder' /\ AnswersInOrder'
<1>0. server = "running"
  BY DEF Handler
<1>1. CASE \/ ReadLengthExits(h) \/ CallocFails(h) \/ SendAnswerExits(h)
           \/ ExitProcess(h)
  <2>1. /\ server' \in {"exited", "failed"}
        /\ UNCHANGED <<reply, down, cpc, payload>>
    BY <1>1 DEF ReadLengthExits, CallocFails, SendAnswerExits, ExitProcess, Exit,
                clientVars
  <2> QED BY <2>1, AnswersStay DEF RequestsInOrder
<1>2. CASE StartHandler(h)
  <2>1. UNCHANGED <<reply, down, cpc, payload>>
    BY <1>2 DEF StartHandler, clientVars, sockets
  <2> QED BY <1>0, <1>2, <2>1, AnswersStay, StartRequests
<1>3. CASE ReadLength(h)
  <2>1. UNCHANGED <<reply, down, cpc, payload>>
    BY <1>3 DEF ReadLength, Receive, clientVars
  <2> QED BY <1>0, <1>3, <2>1, AnswersStay, ReadLengthRequests
<1>4. CASE ReadData(h)
  <2>1. UNCHANGED <<reply, down, cpc, payload>>
    BY <1>4 DEF ReadData, Receive, clientVars
  <2> QED BY <1>0, <1>4, <2>1, AnswersStay, ReadDataRequests
<1>5. CASE ReadLengthFails(h) \/ ReadDataFails(h) \/ LockTotals(h) \/ StoreTotals(h)
  <2>1. UNCHANGED <<reply, down, cpc, payload>>
    BY <1>5 DEF ReadLengthFails, ReadDataFails, ReceiveFails, LockTotals,
                StoreTotals, clientVars, sockets
  <2> QED BY <1>0, <1>5, <2>1, AnswersStay, OtherRequests
<1>6. CASE SendAnswer(h)
  BY <1>0, <1>6, AnswerSent, OtherRequests
<1>7. CASE CloseConnection(h)
  <2>1. UNCHANGED <<reply, down, cpc, payload>>
    BY <1>7 DEF CloseConnection, clientVars
  <2> QED BY <1>0, <1>7, <2>1, AnswersStay, CloseRequests
<1> QED BY <1>1, <1>2, <1>3, <1>4, <1>5, <1>6, <1>7 DEF Handler

-----------------------------------------------------------------------------
(* The same for main and the clients.                                      *)

\* Main overwrites fdCell only when no thread has yet to copy it.
LEMMA MainRequests ==
  ASSUME InTime, PccInv, server = "running", Working, RequestsInOrder,
         StartListen \/ TestSIGINT \/ CallAccept \/ FinishMainJoin \/ SIGINT_handler,
         UNCHANGED clientVars
  PROVE  RequestsInOrder'
<1> USE DEF sockets, handler, clientVars
<1>1. UNCHANGED <<sock, hpc, fd, got, need, up, serverEnd, cpc, payload>>
  BY DEF StartListen, TestSIGINT, CallAccept, FinishMainJoin, SIGINT_handler
<1>2. fdCell' = fdCell \/ \A h \in Handlers : hpc[h] # "start"
  <2>1. CASE TestSIGINT
    BY <2>1 DEF TestSIGINT, ThreadsStarted, InTime
  <2>2. CASE StartListen \/ CallAccept \/ FinishMainJoin
    BY <2>2 DEF StartListen, CallAccept, FinishMainJoin
  <2>3. CASE SIGINT_handler
    BY <2>3 DEF SIGINT_handler, Working, Owners
  <2> QED BY <2>1, <2>2, <2>3
<1>3. \A h \in Handlers : Own(h)' = Own(h)
  BY <1>1, <1>2 DEF Own
<1>4. \A d \in Clients : Sent(d)' = Sent(d) /\ LengthOf(d)' = LengthOf(d)
  BY <1>1 DEF Sent, LengthOf
<1>5. \A h \in Handlers : \A d \in Clients : RequestRead(h, d) => RequestRead(h, d)'
  BY <1>1, <1>4 DEF RequestRead
<1> QED BY <1>1, <1>3, <1>4, <1>5 DEF RequestsInOrder

\* A client that is accepted has its bytes waiting for its thread.
LEMMA GetNewConnectionRequests ==
  ASSUME PccInv, server = "running", Working, RequestsInOrder, GetNewConnection,
         UNCHANGED clientVars
  PROVE  RequestsInOrder'
<1> USE DEF clientVars
<1> DEFINE c == Head(backlog)
<1>0. TypeOK /\ Connections /\ backlog # << >>
  BY DEF PccInv, GetNewConnection
<1>1. /\ c \in Clients \ Accepted
      /\ FreeFd \in Fds /\ sock[FreeFd] = NoClient
      /\ online < Cardinality(Clients)
  BY <1>0, RoomForConnection
<1>2. PICK n \in Handlers : n = online + 1
  BY <1>0, <1>1, ClientsFinite DEF TypeOK, ServerTypeOK, Handlers
<1>3. serverEnd[c] = "backlog"
  BY <1>0 DEF Connections, TypeOK, SocketsTypeOK
<1>4. /\ serverEnd' = [serverEnd EXCEPT ![c] = "open"]
      /\ sock' = [sock EXCEPT ![FreeFd] = c] /\ fdCell' = FreeFd
      /\ hpc' = [hpc EXCEPT ![n] = "start"]
      /\ \A h \in Handlers : hpc[h] # "start"
      /\ UNCHANGED <<fd, got, need, up, cpc, payload>>
  BY <1>2 DEF GetNewConnection, Working, Owners
<1> HIDE DEF c
<1>5. /\ hpc'[n] = "start"
      /\ \A k \in Handlers \ {n} : hpc'[k] = hpc[k]
      /\ sock'[FreeFd] = c /\ \A f \in Fds \ {FreeFd} : sock'[f] = sock[f]
      /\ serverEnd'[c] = "open"
      /\ \A d \in Clients \ {c} : serverEnd'[d] = serverEnd[d]
  BY <1>0, <1>1, <1>2, <1>4 DEF TypeOK, ServerTypeOK, SocketsTypeOK
<1>6. /\ Own(n)' = FreeFd
      /\ \A k \in Handlers \ {n} : Own(k)' = Own(k)
  BY <1>4, <1>5 DEF Own
<1>7. \A d \in Clients : Sent(d)' = Sent(d) /\ LengthOf(d)' = LengthOf(d)
  BY <1>4 DEF Sent, LengthOf
<1> SUFFICES ASSUME NEW d \in Clients, cpc'[d] # "dead"
             PROVE  /\ cpc'[d] = "connect" \/ serverEnd'[d] = "backlog" =>
                         up'[d] = Sent(d)'
                    /\ \A k \in Handlers : Own(k)' \in Fds =>
                         (sock'[Own(k)'] = d => RequestRead(k, d)')
  BY DEF RequestsInOrder
<1>8. cpc'[d] = "connect" \/ serverEnd'[d] = "backlog" => up'[d] = Sent(d)'
  BY <1>4, <1>5, <1>7 DEF RequestsInOrder
<1>9. ASSUME NEW k \in Handlers, Own(k)' \in Fds, sock'[Own(k)'] = d
      PROVE  RequestRead(k, d)'
  <2>1. CASE k = n
    <3>1. d = c /\ hpc'[k] = "start"
      BY <1>5, <1>6, <1>9, <2>1
    <3>2. up'[d] = Sent(d)'
      BY <1>3, <1>4, <1>7, <3>1 DEF RequestsInOrder
    <3> QED BY <3>1, <3>2 DEF RequestRead
  <2>2. CASE k # n /\ Own(k) # FreeFd
    <3>1. Own(k) \in Fds /\ sock[Own(k)] = d /\ hpc'[k] = hpc[k]
      BY <1>5, <1>6, <1>9, <2>2
    <3>2. RequestRead(k, d)
      BY <1>4, <3>1 DEF RequestsInOrder
    <3> QED BY <1>4, <1>7, <3>1, <3>2 DEF RequestRead
  <2>3. CASE k # n /\ Own(k) = FreeFd
    <3>1. hpc'[k] \notin Active
      BY <1>1, <1>5, <2>3 DEF Working, Owners
    <3> QED BY <3>1 DEF RequestRead, Active
  <2> QED BY <2>1, <2>2, <2>3
<1> QED BY <1>8, <1>9

LEMMA MainOrders ==
  ASSUME InTime, PccInv, Working, RequestsInOrder, AnswersInOrder,
         ServerMain \/ Signal, UNCHANGED clientVars
  PROVE  RequestsInOrder' /\ AnswersInOrder'
<1> USE DEF clientVars, sockets
<1>0. server = "running"
  BY DEF ServerMain, Signal
<1>1. UNCHANGED <<reply, down, cpc, payload>>
  BY DEF ServerMain, Signal, StartListen, StartFails, TestSIGINT, CallAccept,
         GetNewConnection, GetNewConnectionFails, FinishMainJoin,
         FinishMainPrint, SIGINT_handler, Exit
<1>2. CASE StartFails \/ GetNewConnectionFails \/ FinishMainPrint
  <2>1. server' \in {"exited", "failed"}
    BY <1>2 DEF StartFails, GetNewConnectionFails, FinishMainPrint, Exit
  <2> QED BY <1>1, <2>1, AnswersStay DEF RequestsInOrder
<1>3. CASE \/ StartListen \/ TestSIGINT \/ CallAccept \/ FinishMainJoin
           \/ SIGINT_handler
  BY <1>0, <1>1, <1>3, AnswersStay, MainRequests
<1>4. CASE GetNewConnection
  BY <1>0, <1>1, <1>4, AnswersStay, GetNewConnectionRequests
<1> QED BY <1>2, <1>3, <1>4 DEF ServerMain, Signal

\* What a client has sent, by where it is.
LEMMA SentWhen ==
  \A c \in Clients :
    /\ cpc[c] \in {"connect", "random", "length"} => Sent(c) = << >>
    /\ cpc[c] = "data" => Sent(c) = LengthOf(c)
    /\ cpc[c] \notin {"connect", "random", "length", "data"} =>
         Sent(c) = LengthOf(c) \o payload[c]
BY DEF Sent

\* What a client writes is added to what its thread has to read.
LEMMA ClientSends ==
  ASSUME PccInv, NEW c \in Clients, Client(c, Listening),
         serverEnd[c] \in {"backlog", "open"}
  PROVE  \E bytes \in Seq(Bytes) :
           up'[c] = up[c] \o bytes /\ Sent(c)' = Sent(c) \o bytes
<1>0. /\ TypeOK /\ cpc \in [Clients -> ClientStates] /\ cpc[c] # "connect"
      /\ up[c] \in Seq(Bytes) /\ Sent(c) \in Seq(Bytes)
      /\ payload[c] \in Seq(Bytes) /\ LengthOf(c) \in Seq(Bytes)
      /\ << >> \in Seq(Bytes)
  BY SentTypes DEF PccInv, TypeOK, ClientTypeOK, SocketsTypeOK, ClientStates,
                   ClientReads
<1>1. /\ up[c] \o << >> = up[c] /\ Sent(c) \o << >> = Sent(c)
      /\ << >> \o LengthOf(c) = LengthOf(c)
  BY <1>0, Concat
<1>2. /\ cpc'[c] \in {"connect", "random", "length"} => Sent(c)' = << >>
      /\ cpc'[c] = "data" => Sent(c)' = LengthOf(c)'
      /\ cpc'[c] \notin {"connect", "random", "length", "data"} =>
           Sent(c)' = LengthOf(c)' \o payload'[c]
  BY DEF Sent
<1>3. payload' = payload /\ LengthOf(c)' = LengthOf(c)
  BY DEF Client, GetConnection, GetConnectionFails, GetRandomChars,
         SendLengthToServer, SendRandomCharsToServer, SendToServer, ReadAnswer,
         ReadAnswerFails, PrintAndExit, LengthOf
<1>4. CASE GetRandomChars(c)
  <2>1. up' = up /\ cpc[c] = "random" /\ cpc'[c] = "length"
    BY <1>0, <1>4 DEF GetRandomChars, sockets
  <2>2. Sent(c)' = Sent(c)
    BY <1>2, <2>1, SentWhen
  <2> QED BY <1>0, <1>1, <2>1, <2>2
<1>5. ASSUME NEW bytes \in Seq(Bytes), NEW next \in {"data", "answer"},
             SendToServer(c, bytes, next)
      PROVE  up'[c] = up[c] \o bytes /\ cpc'[c] = next
  BY <1>0, <1>5 DEF SendToServer, Broken, TypeOK, SocketsTypeOK
<1>6. CASE SendLengthToServer(c)
  <2>1. cpc[c] = "length" /\ up'[c] = up[c] \o LengthOf(c) /\ cpc'[c] = "data"
    BY <1>0, <1>5, <1>6 DEF SendLengthToServer, LengthOf
  <2>2. Sent(c)' = Sent(c) \o LengthOf(c)
    BY <1>1, <1>2, <1>3, <2>1, SentWhen
  <2> QED BY <1>0, <2>1, <2>2
<1>7. CASE SendRandomCharsToServer(c)
  <2>1. cpc[c] = "data" /\ up'[c] = up[c] \o payload[c] /\ cpc'[c] = "answer"
    BY <1>0, <1>5, <1>7 DEF SendRandomCharsToServer
  <2>2. Sent(c)' = Sent(c) \o payload[c]
    BY <1>2, <1>3, <2>1, SentWhen
  <2> QED BY <1>0, <2>1, <2>2
<1>8. CASE ReadAnswer(c) \/ PrintAndExit(c)
  <2>1. /\ up' = up /\ cpc[c] \in {"answer", "print"}
        /\ cpc'[c] \in {"answer", "print", "printed"}
    BY <1>0, <1>8 DEF ReadAnswer, PrintAndExit, ClientEnds
  <2>2. Sent(c) = LengthOf(c) \o payload[c]
    BY <2>1, SentWhen
  <2>3. Sent(c)' = LengthOf(c)' \o payload'[c]
    BY <1>2, <2>1
  <2>4. Sent(c)' = Sent(c)
    BY <1>3, <2>2, <2>3
  <2> QED BY <1>0, <1>1, <2>1, <2>4
<1>9. ~ ReadAnswerFails(c) /\ ~ GetConnection(c, Listening)
        /\ ~ GetConnectionFails(c, Listening)
  BY <1>0 DEF ReadAnswerFails, GetConnection, GetConnectionFails
<1> QED BY <1>4, <1>6, <1>7, <1>8, <1>9 DEF Client

LEMMA ClientRequests ==
  ASSUME PccInv, server = "running", Working, RequestsInOrder, NEW c \in Clients,
         Client(c, Listening) \/ Die(c), UNCHANGED serverVars
  PROVE  RequestsInOrder'
<1> USE DEF serverVars
<1>0. /\ TypeOK /\ Connections /\ cpc \in [Clients -> ClientStates]
      /\ up \in [Clients -> Seq(Bytes)]
      /\ got \in [Handlers -> Seq(Bytes)]
      /\ cpc[c] = "connect" => serverEnd[c] = "none"
  BY DEF PccInv, TypeOK, ClientTypeOK, SocketsTypeOK, ServerTypeOK, ClientStates,
         ClientReads
<1>1. \A d \in Clients \ {c} : cpc'[d] = cpc[d] /\ serverEnd'[d] = serverEnd[d]
  BY ClientEffects
<1>2. payload' = payload /\ \A d \in Clients \ {c} : up'[d] = up[d]
  BY <1>0 DEF Client, GetConnection, GetConnectionFails, GetRandomChars,
         SendLengthToServer, SendRandomCharsToServer, SendToServer, ReadAnswer,
         ReadAnswerFails, PrintAndExit, Die, sockets
<1>3. \A h \in Handlers : Own(h)' = Own(h)
  BY DEF Own
<1>4. \A d \in Clients : LengthOf(d)' = LengthOf(d)
  BY <1>2 DEF LengthOf
<1> SUFFICES ASSUME NEW d \in Clients, cpc'[d] # "dead"
             PROVE  /\ cpc'[d] = "connect" \/ serverEnd'[d] = "backlog" =>
                         up'[d] = Sent(d)'
                    /\ \A h \in Handlers : Own(h)' \in Fds =>
                         (sock'[Own(h)'] = d => RequestRead(h, d)')
  BY DEF RequestsInOrder
<1>5. CASE d # c
  <2>1. Sent(d)' = Sent(d)
    BY <1>1, <1>2, <1>5 DEF Sent, LengthOf
  <2>2. \A h \in Handlers : RequestRead(h, d) => RequestRead(h, d)'
    BY <1>2, <1>4, <1>5, <2>1 DEF RequestRead
  <2> QED BY <1>1, <1>2, <1>3, <1>5, <2>1, <2>2 DEF RequestsInOrder
<1>6. CASE d = c /\ cpc[c] = "connect"
  <2>1. ASSUME NEW h \in Handlers, Own(h) \in Fds, sock[Own(h)] = c PROVE FALSE
    <3>1. c \in Accepted
      BY <1>0, <2>1, ClientsAssumption DEF Connections
    <3> QED BY <1>0, <1>6, <3>1 DEF Accepted
  <2>2. up[c] = Sent(c) /\ Sent(c) = << >>
    BY <1>6, SentWhen DEF RequestsInOrder
  <2>3. ASSUME cpc'[c] = "connect" \/ serverEnd'[c] = "backlog"
        PROVE  up'[c] = Sent(c)'
    <3>1. GetConnection(c, Listening)
      <4>1. ~ GetConnectionFails(c, Listening)
        BY <1>0, <1>6, <2>3 DEF GetConnectionFails, ClientEnds
      <4> QED BY <1>6, <4>1
              DEF Client, GetRandomChars, SendLengthToServer,
                  SendRandomCharsToServer, ReadAnswer, ReadAnswerFails,
                  PrintAndExit, Die
    <3>2. up' = up /\ cpc'[c] = "random"
      BY <1>0, <3>1 DEF GetConnection
    <3>3. Sent(c)' = << >>
      BY <3>2 DEF Sent
    <3> QED BY <2>2, <3>2, <3>3
  <2> QED BY <1>3, <1>6, <2>1, <2>3
<1>7. CASE d = c /\ serverEnd[c] \in {"backlog", "open"}
  <2>0. Client(c, Listening) /\ cpc[c] # "dead" /\ serverEnd'[c] = serverEnd[c]
    <3>1. ~ Die(c)
      BY <1>0, <1>7 DEF Die
    <3>2. cpc[c] # "dead"
      BY <3>1 DEF Client, GetConnection, GetConnectionFails, GetRandomChars,
                  SendLengthToServer, SendRandomCharsToServer, ReadAnswer,
                  ReadAnswerFails, PrintAndExit
    <3> QED BY <1>7, <3>1, <3>2, ClientEffects
  <2>1. PICK bytes \in Seq(Bytes) :
          up'[c] = up[c] \o bytes /\ Sent(c)' = Sent(c) \o bytes
    BY <1>7, <2>0, ClientSends
  <2>2. cpc'[c] # "connect"
    BY <1>0, <1>7, <2>0
       DEF Client, GetConnection, GetConnectionFails, GetRandomChars,
           SendLengthToServer, SendRandomCharsToServer, SendToServer, ClientEnds,
           ReadAnswer, ReadAnswerFails, PrintAndExit
  <2>3. serverEnd'[c] = "backlog" => up'[c] = Sent(c)'
    BY <2>0, <2>1 DEF RequestsInOrder
  <2>4. ASSUME NEW h \in Handlers, Own(h) \in Fds, sock[Own(h)] = c
        PROVE  RequestRead(h, c)'
    <3>1. RequestRead(h, c)
      BY <2>0, <2>4 DEF RequestsInOrder
    <3>2. /\ got[h] \in Seq(Bytes) /\ up[c] \in Seq(Bytes)
          /\ LengthOf(c) \in Seq(Bytes)
          /\ got[h] \o up[c] \in Seq(Bytes)
      BY <1>0, SentTypes, Concat
    <3>3. got[h] \o (up[c] \o bytes) = (got[h] \o up[c]) \o bytes
      BY <3>2, ConcatAssoc
    <3>4. LengthOf(c) \o ((got[h] \o up[c]) \o bytes)
            = (LengthOf(c) \o (got[h] \o up[c])) \o bytes
      BY <3>2, ConcatAssoc
    <3>5. hpc'[h] = "start" => up'[c] = Sent(c)'
      BY <2>1, <3>1 DEF RequestRead
    <3>6. hpc'[h] = "length" => got'[h] \o up'[c] = Sent(c)'
      BY <2>1, <3>1, <3>3 DEF RequestRead
    <3>7. hpc'[h] = "data" => LengthOf(c)' \o (got'[h] \o up'[c]) = Sent(c)'
      BY <1>4, <2>1, <3>1, <3>3, <3>4 DEF RequestRead
    <3> QED BY <1>2, <1>4, <3>1, <3>5, <3>6, <3>7 DEF RequestRead
  <2> QED BY <1>3, <1>7, <2>2, <2>3, <2>4
<1>8. CASE d = c /\ cpc[c] # "connect" /\ serverEnd[c] \notin {"backlog", "open"}
  <2>1. ASSUME NEW h \in Handlers, Own(h) \in Fds, sock[Own(h)] = c
        PROVE  RequestRead(h, c)'
    BY <1>8, <2>1 DEF RequestRead, Working, Served, Active
  <2>2. cpc'[c] # "connect" /\ serverEnd'[c] # "backlog"
    <3>1. cpc'[c] # "connect"
      BY <1>0, <1>8
         DEF Client, GetConnection, GetConnectionFails, GetRandomChars,
             SendLengthToServer, SendRandomCharsToServer, SendToServer,
             ClientEnds, ReadAnswer, ReadAnswerFails, PrintAndExit, Die
    <3>2. serverEnd[c] # "none"
      <4>1. cpc[c] # "failed"
        BY DEF Client, GetConnection, GetConnectionFails, GetRandomChars,
               SendLengthToServer, SendRandomCharsToServer, ReadAnswer,
               ReadAnswerFails, PrintAndExit, Die
      <4> QED BY <1>8, <4>1 DEF Working, Served
    <3> QED BY <1>8, <3>1, <3>2, ClientEffects
  <2> QED BY <1>3, <1>8, <2>1, <2>2
<1> QED BY <1>5, <1>6, <1>7, <1>8

\* A client reads of its answer what comes next; if reading fails, there was
\* none.
LEMMA ClientAnswers ==
  ASSUME PccInv, AnswersInOrder, NEW c \in Clients,
         Client(c, Listening) \/ Die(c)
  PROVE  AnswersInOrder'
<1>0. /\ TypeOK /\ ClientReads /\ cpc \in [Clients -> ClientStates]
      /\ reply \in [Clients -> Seq(Bytes)] /\ down \in [Clients -> Seq(Bytes)]
  BY DEF PccInv, TypeOK, ClientTypeOK, SocketsTypeOK, ClientStates
<1>1. payload' = payload
  BY DEF Client, GetConnection, GetConnectionFails, GetRandomChars,
         SendLengthToServer, SendRandomCharsToServer, SendToServer, ReadAnswer,
         ReadAnswerFails, PrintAndExit, Die
<1>2. \A d \in Clients : AnswerOf(d)' = AnswerOf(d)
  BY <1>1 DEF AnswerOf
<1>3. ASSUME NEW d \in Clients, cpc'[d] # "dead" PROVE cpc[d] # "dead"
  BY <1>3, CompleteStays DEF Dead
<1>4. ASSUME \A d \in Clients : cpc'[d] # "dead" =>
               reply'[d] \o down'[d] = reply[d] \o down[d]
      PROVE  AnswersInOrder'
  BY <1>2, <1>3, <1>4 DEF AnswersInOrder
<1>5. CASE ReadAnswer(c)
  <2>1. PICK chunk \in Readable(down[c], WordBytes - Len(reply[c])) :
          /\ reply' = [reply EXCEPT ![c] = reply[c] \o chunk]
          /\ down' = [down EXCEPT ![c] = After(down[c], chunk)]
    BY <1>5 DEF ReadAnswer
  <2>2. /\ WordBytes - Len(reply[c]) \in Int
        /\ reply[c] \in Seq(Bytes) /\ down[c] \in Seq(Bytes)
    BY <1>0 DEF WordBytes
  <2>3. /\ chunk \in Seq(Bytes) /\ After(down[c], chunk) \in Seq(Bytes)
        /\ chunk \o After(down[c], chunk) = down[c]
    BY <2>2, ReadableTypes, ReadWhole
  <2>4. (reply[c] \o chunk) \o After(down[c], chunk) = reply[c] \o down[c]
    <3>1. (reply[c] \o chunk) \o After(down[c], chunk)
            = reply[c] \o (chunk \o After(down[c], chunk))
      BY <2>2, <2>3, ConcatAssoc
    <3> QED BY <2>3, <3>1
  <2>5. \A d \in Clients : reply'[d] \o down'[d] = reply[d] \o down[d]
    BY <1>0, <2>1, <2>4
  <2> QED BY <1>4, <2>5
<1>6. CASE ReadAnswerFails(c)
  <2>1. /\ cpc[c] = "answer" /\ down[c] = << >> /\ down' = down
        /\ reply[c] = << >> => reply' = reply
    BY <1>6 DEF ReadAnswerFails
  <2>2. reply[c] \in {<< >>, AnswerOf(c)}
    <3>1. reply[c] \o << >> = reply[c]
      BY <1>0, Concat
    <3> QED BY <2>1, <3>1 DEF AnswersInOrder
  <2>3. Len(reply[c]) < WordBytes /\ Len(AnswerOf(c)) = WordBytes
    BY <1>0, <2>1, SentTypes DEF ClientReads
  <2>4. reply[c] # AnswerOf(c)
    <3> SUFFICES ASSUME reply[c] = AnswerOf(c) PROVE FALSE
      OBVIOUS
    <3>1. Len(reply[c]) = WordBytes
      BY <2>3
    <3> QED BY <2>3, <3>1 DEF WordBytes
  <2>5. reply' = reply
    BY <2>1, <2>2, <2>4
  <2> QED BY <1>4, <2>1, <2>5
<1>7. CASE ~ ReadAnswer(c) /\ ~ ReadAnswerFails(c)
  <2>1. reply' = reply /\ down' = down
    BY <1>7 DEF Client, GetConnection, GetConnectionFails, GetRandomChars,
                SendLengthToServer, SendRandomCharsToServer, SendToServer,
                PrintAndExit, Die, sockets
  <2> QED BY <1>4, <2>1
<1> QED BY <1>5, <1>6, <1>7

AnswerInv ==
  /\ PccInv
  /\ server = "running" => Working
  /\ RequestsInOrder
  /\ AnswersInOrder

LEMMA AnswerNext == InTime /\ AnswerInv /\ [Next]_vars => AnswerInv'
<1> SUFFICES ASSUME InTime, AnswerInv, [Next]_vars PROVE AnswerInv'
  OBVIOUS
<1>0. PccInv /\ PccInv' /\ RequestsInOrder /\ AnswersInOrder
  BY PccInvNext DEF AnswerInv
<1>1. CASE (ServerMain \/ Signal) /\ UNCHANGED clientVars
  <2>1. server = "running" /\ Working
    BY <1>1 DEF ServerMain, Signal, AnswerInv
  <2>2. RequestsInOrder' /\ AnswersInOrder'
    BY <1>0, <1>1, <2>1, MainOrders
  <2>3. server' = "running" => Working'
    <3>1. CASE \/ StartListen    \/ TestSIGINT \/ CallAccept
               \/ FinishMainJoin \/ SIGINT_handler \/ GetNewConnection
      BY <1>0, <1>1, <2>1, <3>1, MainStepsWork, GetNewConnectionWorks
    <3>2. CASE StartFails \/ GetNewConnectionFails \/ FinishMainPrint
      BY <3>2 DEF StartFails, GetNewConnectionFails, FinishMainPrint, Exit
    <3> QED BY <1>1, <3>1, <3>2 DEF ServerMain, Signal
  <2> QED BY <1>0, <2>2, <2>3 DEF AnswerInv
<1>2. ASSUME NEW h \in Handlers, Handler(h), UNCHANGED clientVars
      PROVE  AnswerInv'
  <2>1. server = "running" /\ Working
    BY <1>2 DEF Handler, AnswerInv
  <2>2. RequestsInOrder' /\ AnswersInOrder'
    BY <1>0, <1>2, <2>1, ThreadOrders
  <2>3. server' = "running" => Working'
    <3>1. CASE \/ ReadLengthExits(h) \/ CallocFails(h) \/ SendAnswerExits(h)
               \/ ExitProcess(h)
      BY <3>1 DEF ReadLengthExits, CallocFails, SendAnswerExits, ExitProcess, Exit
    <3>2. CASE CloseConnection(h)
      BY <1>0, <1>2, <2>1, <3>2, CloseConnectionWorks
    <3>3. CASE \/ StartHandler(h) \/ ReadLength(h) \/ ReadLengthFails(h)
               \/ ReadData(h) \/ ReadDataFails(h) \/ LockTotals(h)
               \/ StoreTotals(h) \/ SendAnswer(h)
      BY <1>0, <1>2, <2>1, <3>3, ThreadStepsWork
    <3> QED BY <1>2, <3>1, <3>2, <3>3 DEF Handler
  <2> QED BY <1>0, <2>2, <2>3 DEF AnswerInv
<1>3. ASSUME NEW c \in Clients, Client(c, Listening) \/ Die(c),
             UNCHANGED serverVars
      PROVE  AnswerInv'
  <2>1. AnswersInOrder'
    BY <1>0, <1>3, ClientAnswers
  <2>2. server = "running" => RequestsInOrder' /\ Working'
    BY <1>0, <1>3, ClientRequests, ClientWorks DEF AnswerInv
  <2>3. server # "running" => RequestsInOrder'
    BY <1>3 DEF RequestsInOrder, serverVars
  <2> QED BY <1>0, <1>3, <2>1, <2>2, <2>3 DEF AnswerInv, serverVars
<1>4. CASE UNCHANGED vars
  <2> USE <1>4 DEF vars, sockets, serverVars, clientVars
  <2>1. AnswersInOrder'
    BY <1>0, AnswersStay
  <2>2. RequestsInOrder'
    <3>1. \A h \in Handlers : Own(h)' = Own(h)
      BY DEF Own
    <3>2. \A d \in Clients : Sent(d)' = Sent(d) /\ LengthOf(d)' = LengthOf(d)
      BY DEF Sent, LengthOf
    <3>3. \A h \in Handlers : \A d \in Clients :
            RequestRead(h, d) => RequestRead(h, d)'
      BY <3>2 DEF RequestRead
    <3> QED BY <1>0, <3>1, <3>2, <3>3 DEF RequestsInOrder
  <2>3. Working => Working'
    BY WorkingStays
  <2> QED BY <1>0, <2>1, <2>2, <2>3 DEF AnswerInv
<1> QED BY <1>1, <1>2, <1>3, <1>4 DEF Next

LEMMA AnswerInvAlways ==
  ASSUME InTime
  PROVE  Spec => []AnswerInv
<1>1. Init => AnswerInv
  BY OrderInit, RegularInit DEF AnswerInv, RegularInv
<1>2. AnswerInv /\ [Next]_vars => AnswerInv'
  BY AnswerNext
<1> QED BY <1>1, <1>2, PTL DEF Spec

\* Every byte a client writes gets to its own thread, in order, and every
\* answer to the client it is for, with every fault but a thread that is slow
\* to copy its descriptor, for either version of the server (handleConnection's
\* read loops, main's connectionSocketfd).
THEOREM Invariance == Spec => []IInv
<1>1. CASE InTime
  <2>1. AnswerInv => IInv
    BY DEF AnswerInv, IInv, PccInv
  <2> QED BY <1>1, <2>1, AnswerInvAlways, PTL
<1>2. CASE ~ InTime
  <2>1. TypeOK => IInv
    BY <1>2 DEF IInv, InTime
  <2> QED BY <2>1, TypeCorrect, PTL
<1> QED BY <1>1, <1>2

\* A client that prints a number prints how many bytes of its data are
\* printable, or more if a byte of that number behind the first is negative as a
\* char, under the same faults: SIGINT, deaths of clients, failures for want of
\* resources (sendToConnection, updatePcc_total, handleConnection).
THEOREM AnswersAlwaysExact ==
  ASSUME InTime
  PROVE  Spec => []AnswerExact
<1>1. AnswerInv => AnswerExact
  <2> SUFFICES ASSUME AnswerInv, NEW c \in Clients, cpc[c] \in {"print", "printed"}
               PROVE  /\ NumOfPrintables(c) = CharsToUnsignedInt(AnswerOf(c))
                      /\ Value(NumOfPrintables(c)) >= PrintablesIn(payload[c])
                      /\ SignFree(AnswerOf(c)) =>
                           Value(NumOfPrintables(c)) = PrintablesIn(payload[c])
    BY DEF AnswerExact, AnswerOf
  <2>1. /\ TypeOK /\ Len(reply[c]) = WordBytes
        /\ reply[c] \in Seq(Bytes) /\ down[c] \in Seq(Bytes)
        /\ << >> \in Seq(Bytes)
    BY DEF AnswerInv, PccInv, ClientReads, TypeOK, ClientTypeOK, SocketsTypeOK
  <2>2. AnswerOf(c) \in Seq(Bytes) /\ Len(AnswerOf(c)) = WordBytes
    BY <2>1, SentTypes
  <2>3. /\ Len(reply[c] \o down[c]) = Len(reply[c]) + Len(down[c])
        /\ Len(down[c]) \in Nat
    BY <2>1, Concat
  <2>4. reply[c] \o down[c] = AnswerOf(c)
    <3>1. ASSUME reply[c] \o down[c] = << >> PROVE FALSE
      <4>1. Len(reply[c] \o down[c]) = 0
        BY <3>1
      <4>2. Len(reply[c]) + Len(down[c]) = 0
        BY <2>3, <4>1
      <4> QED BY <2>1, <2>3, <4>2 DEF WordBytes
    <3> QED BY <2>1, <3>1 DEF AnswerInv, AnswersInOrder
  <2>5. AnswerOf(c) \o << >> = AnswerOf(c)
    BY <2>2, Concat
  <2>6. reply[c] \o down[c] = AnswerOf(c) \o << >>
    BY <2>4, <2>5
  <2>7. reply[c] = AnswerOf(c)
    BY <2>1, <2>2, <2>6, ConcatCancel
  <2>8. NumOfPrintables(c) = CharsToUnsignedInt(AnswerOf(c))
    BY <2>7 DEF NumOfPrintables
  <2>9. Value(AnswerOf(c)) = PrintablesIn(payload[c])
    <3>1. /\ payload[c] \in Seq(Bytes) /\ Len(payload[c]) \in Nat
          /\ Len(payload[c]) < Byte * Byte * Byte * Byte
      BY <2>1, PayloadsAssumption, LengthAssumption DEF TypeOK, ClientTypeOK
    <3>2. PrintablesIn(payload[c]) \in Nat /\ PrintablesIn(payload[c]) <= Len(payload[c])
      BY <3>1, PrintablesType
    <3> DEFINE most == Byte * Byte * Byte * Byte
               n == PrintablesIn(payload[c])
    <3>3. most \in Nat
      BY ByteAssumption
    <3> HIDE DEF most, n
    <3>4. n < most
      BY <3>1, <3>2, <3>3 DEF most, n
    <3> QED BY <3>2, <3>4, ValueOfChars DEF AnswerOf, most, n
  <2> QED BY <2>2, <2>8, <2>9, CharsNotLess, CharsExact
<1> QED BY <1>1, AnswerInvAlways, PTL

-----------------------------------------------------------------------------
(* Nobody waits for each other.                                            *)

\* A thread that reads data has some to read.
DataLeft ==
  \A h \in Handlers : hpc[h] = "data" =>
    Value(need[h]) = 0 \/ Len(got[h]) < Value(need[h])

\* The lock is held only to store the totals.
LockHeld == lock # NoHandler => hpc[lock] = "store"

LEMMA DataLeftNext == PccInv /\ DataLeft /\ [Next]_vars => DataLeft'
<1> SUFFICES ASSUME PccInv, DataLeft, [Next]_vars PROVE DataLeft'
  OBVIOUS
<1>0. TypeOK /\ TypeOK'
  BY PccInvNext DEF PccInv
<1>1. ASSUME \A k \in Handlers : hpc'[k] = "data" =>
               hpc[k] = "data" /\ got'[k] = got[k] /\ need'[k] = need[k]
      PROVE  DataLeft'
  BY <1>1 DEF DataLeft
<1>2. CASE ServerMain \/ Signal
  <2>1. got' = got /\ need' = need
    BY <1>2
    DEF ServerMain, Signal, StartListen, StartFails, TestSIGINT, CallAccept,
        GetNewConnection, GetNewConnectionFails, FinishMainJoin, FinishMainPrint,
        SIGINT_handler, Exit, handler
  <2>2. hpc' = hpc \/ hpc' = [hpc EXCEPT ![online + 1] = "start"]
    BY <1>2
    DEF ServerMain, Signal, StartListen, StartFails, TestSIGINT, CallAccept,
        GetNewConnection, GetNewConnectionFails, FinishMainJoin, FinishMainPrint,
        SIGINT_handler, Exit, handler
  <2>3. \A k \in Handlers : hpc'[k] = "data" => hpc[k] = "data"
    BY <1>0, <2>2 DEF TypeOK, ServerTypeOK
  <2> QED BY <1>1, <2>1, <2>3
<1>3. ASSUME NEW h \in Handlers, Handler(h) PROVE DataLeft'
  <2>0. \A k \in Handlers \ {h} :
          hpc'[k] = hpc[k] /\ got'[k] = got[k] /\ need'[k] = need[k]
    BY <1>0, <1>3
    DEF Handler, StartHandler, ReadLength, ReadLengthFails, ReadLengthExits,
        CallocFails, ReadData, ReadDataFails, LockTotals, StoreTotals, SendAnswer,
        SendAnswerExits, CloseConnection, ExitProcess, Exit, handler, TypeOK,
        ServerTypeOK
  <2>1. ASSUME hpc'[h] = "data" =>
                 Value(need'[h]) = 0 \/ Len(got'[h]) < Value(need'[h])
        PROVE  DataLeft'
    BY <2>0, <2>1 DEF DataLeft
  <2>2. CASE ReadLength(h)
    <3>1. hpc'[h] = "data" => got'[h] = << >>
      BY <1>0, <2>2 DEF ReadLength, TypeOK, ServerTypeOK
    <3>2. Value(need'[h]) \in Nat
      BY <1>0, ValueType DEF TypeOK, ServerTypeOK
    <3> QED BY <2>1, <3>1, <3>2
  <2>3. CASE ReadData(h)
    <3>1. /\ need' = need
          /\ hpc'[h] = "data" => Len(got'[h]) # Value(need[h])
      BY <1>0, <2>3 DEF ReadData, TypeOK, ServerTypeOK
    <3>2. hpc'[h] = "data" => Len(got'[h]) <= Value(need'[h])
      BY <1>0 DEF TypeOK, ServerTypeOK
    <3>3. Value(need'[h]) \in Nat /\ Len(got'[h]) \in Nat
      BY <1>0, ValueType DEF TypeOK, ServerTypeOK
    <3> QED BY <2>1, <3>1, <3>2, <3>3
  <2>4. CASE ReadDataFails(h)
    <3>1. /\ need' = need /\ hpc[h] = "data"
          /\ hpc'[h] = "data" => got[h] # << >> /\ got'[h] = Front(got[h])
      BY <1>0, <2>4 DEF ReadDataFails, TypeOK, ServerTypeOK
    <3>2. got[h] \in Seq(Bytes) /\ Len(got[h]) <= Value(need[h])
      BY <1>0, <3>1 DEF TypeOK, ServerTypeOK
    <3>3. Value(need[h]) \in Nat /\ Len(got[h]) \in Nat
      BY <1>0, ValueType DEF TypeOK, ServerTypeOK
    <3>4. hpc'[h] = "data" => Len(got'[h]) = Len(got[h]) - 1
      BY <3>1, <3>2, FrontTypes
    <3> QED BY <2>1, <3>1, <3>2, <3>3, <3>4
  <2>5. CASE \/ StartHandler(h) \/ ReadLengthFails(h) \/ LockTotals(h)
             \/ StoreTotals(h) \/ SendAnswer(h) \/ CloseConnection(h)
    <3>1. hpc'[h] # "data"
      BY <1>0, <2>5
      DEF StartHandler, ReadLengthFails, LockTotals, StoreTotals, SendAnswer,
          CloseConnection, AfterClose, TypeOK, ServerTypeOK
    <3> QED BY <2>1, <3>1
  <2>6. CASE \/ ReadLengthExits(h) \/ CallocFails(h) \/ SendAnswerExits(h)
             \/ ExitProcess(h)
    <3>1. UNCHANGED <<hpc, got, need>>
      BY <2>6 DEF ReadLengthExits, CallocFails, SendAnswerExits, ExitProcess, Exit,
                  handler
    <3> QED BY <1>1, <3>1
  <2> QED BY <1>3, <2>2, <2>3, <2>4, <2>5, <2>6 DEF Handler
<1>4. CASE UNCHANGED serverVars
  BY <1>1, <1>4 DEF serverVars
<1> QED BY <1>2, <1>3, <1>4 DEF Next, vars

LEMMA LockHeldNext == PccInv /\ LockHeld /\ [Next]_vars => LockHeld'
<1> SUFFICES ASSUME PccInv, LockHeld, [Next]_vars PROVE LockHeld'
  OBVIOUS
<1>0. /\ hpc = [k \in Handlers |-> hpc[k]] /\ lock \in Handlers \cup {NoHandler}
      /\ NoHandler \notin Handlers
  BY DEF PccInv, TypeOK, ServerTypeOK, NoHandler, Handlers
<1>1. ASSUME lock' = lock, \A k \in Handlers : hpc[k] = "store" => hpc'[k] = "store"
      PROVE  LockHeld'
  BY <1>0, <1>1 DEF LockHeld
<1>2. CASE ServerMain \/ Signal
  <2>1. lock' = lock
    BY <1>2
    DEF ServerMain, Signal, StartListen, StartFails, TestSIGINT, CallAccept,
        GetNewConnection, GetNewConnectionFails, FinishMainJoin, FinishMainPrint,
        SIGINT_handler, Exit
  <2>2. CASE GetNewConnection
    <3>1. server = "running" /\ online \in Nat
      BY <1>2, <2>2
      DEF ServerMain, Signal, PccInv, TypeOK, ServerTypeOK
    <3>2. online + 1 \in Handlers => hpc[online + 1] = "none"
      BY <3>1 DEF PccInv, Connections
    <3>3. hpc' = [hpc EXCEPT ![online + 1] = "start"]
      BY <2>2 DEF GetNewConnection
    <3>4. \A k \in Handlers : hpc[k] = "store" => hpc'[k] = "store"
      BY <1>0, <3>2, <3>3
    <3> QED BY <1>1, <2>1, <3>4
  <2>3. CASE ~ GetNewConnection
    <3>1. hpc' = hpc
      BY <1>2, <2>3
      DEF ServerMain, Signal, StartListen, StartFails, TestSIGINT, CallAccept,
          GetNewConnectionFails, FinishMainJoin, FinishMainPrint,
          SIGINT_handler, Exit, handler
    <3> QED BY <1>1, <2>1, <3>1
  <2> QED BY <2>2, <2>3
<1>3. ASSUME NEW h \in Handlers, Handler(h) PROVE LockHeld'
  <2>1. CASE LockTotals(h)
    BY <1>0, <2>1 DEF LockTotals, LockHeld
  <2>2. CASE StoreTotals(h)
    BY <2>2 DEF StoreTotals, LockHeld
  <2>3. CASE ~ LockTotals(h) /\ ~ StoreTotals(h)
    <3>1. hpc[h] # "store" \/ hpc' = hpc
      BY <1>3, <2>3
      DEF Handler, StartHandler, ReadLength, ReadLengthFails, ReadLengthExits,
          CallocFails, ReadData, ReadDataFails, SendAnswer, SendAnswerExits,
          CloseConnection, ExitProcess, Exit, handler
    <3>2. lock' = lock /\ \A k \in Handlers \ {h} : hpc'[k] = hpc[k]
      BY <1>0, <1>3, <2>3
      DEF Handler, StartHandler, ReadLength, ReadLengthFails, ReadLengthExits,
          CallocFails, ReadData, ReadDataFails, SendAnswer, SendAnswerExits,
          CloseConnection, ExitProcess, Exit, handler, HandlerUnchanged
    <3> QED BY <1>1, <3>1, <3>2
  <2> QED BY <2>1, <2>2, <2>3
<1>4. CASE UNCHANGED serverVars
  BY <1>1, <1>4 DEF serverVars
<1> QED BY <1>2, <1>3, <1>4 DEF Next, vars

\* A thread that waits for a client that has sent everything has bytes to read:
\* it waits for as many as were sent.
LEMMA BytesToRead ==
  ASSUME AnswerInv, DataLeft, NEW h \in Handlers, NEW c \in Clients,
         server = "running", cpc[c] = "answer", SignFree(LengthOf(c)),
         Own(h) \in Fds, sock[Own(h)] = c, hpc[h] \in {"length", "data"}
  PROVE  up[c] # << >>
<1>0. /\ TypeOK /\ RequestRead(h, c) /\ Sent(c) = LengthOf(c) \o payload[c]
  BY DEF AnswerInv, PccInv, RequestsInOrder, Sent
<1>1. /\ payload[c] \in Seq(Bytes) /\ Len(payload[c]) \in Nat \ {0}
      /\ LengthOf(c) \in Seq(Bytes) /\ Len(LengthOf(c)) = WordBytes
      /\ got[h] \in Seq(Bytes) /\ Len(got[h]) \in Nat
      /\ Len(payload[c]) < Byte * Byte * Byte * Byte
  BY <1>0, SentTypes, LengthAssumption
     DEF TypeOK, ServerTypeOK, ClientTypeOK
<1> SUFFICES ASSUME up[c] = << >> PROVE FALSE
  OBVIOUS
<1>2. got[h] \o up[c] = got[h]
  BY <1>1, Concat
<1>3. Len(Sent(c)) = WordBytes + Len(payload[c])
  <2>1. /\ payload[c] \in Seq(Bytes)
        /\ LengthOf(c) \in Seq(Bytes) /\ Len(LengthOf(c)) = WordBytes
    BY <1>1
  <2>2. Len(LengthOf(c) \o payload[c]) = WordBytes + Len(payload[c])
    BY <2>1, Concat
  <2> QED BY <1>0, <2>2
<1>4. CASE hpc[h] = "length"
  <2>1. got[h] = Sent(c) /\ Len(got[h]) < WordBytes
    BY <1>0, <1>2, <1>4 DEF RequestRead, TypeOK, ServerTypeOK
  <2> QED BY <1>1, <1>3, <2>1 DEF WordBytes
<1>5. CASE hpc[h] = "data"
  <2>1. /\ need[h] = CharsToUnsignedInt(LengthOf(c))
        /\ LengthOf(c) \o got[h] = LengthOf(c) \o payload[c]
    BY <1>0, <1>2, <1>5 DEF RequestRead
  <2>2. got[h] = payload[c]
    BY <1>1, <2>1, ConcatCancel
  <2>3. Value(need[h]) = Len(payload[c])
    <3>1. Value(CharsToUnsignedInt(LengthOf(c))) = Value(LengthOf(c))
      BY <1>1, CharsExact
    <3>2. Value(LengthOf(c)) = Len(payload[c])
      BY <1>1, ValueOfChars DEF LengthOf
    <3> QED BY <2>1, <3>1, <3>2
  <2> QED BY <1>1, <1>5, <2>2, <2>3 DEF DataLeft
<1> QED BY <1>4, <1>5

LEMMA ThreadServes ==
  AnswerInv /\ DataLeft /\ LockHeld => NoMutualWait
<1> SUFFICES ASSUME AnswerInv, DataLeft, LockHeld, server = "running",
                    NEW c \in Clients, cpc[c] = "answer", serverEnd[c] = "open",
                    down[c] = << >>, SignFree(LengthOf(c))
             PROVE  \E h \in Handlers :
                      Own(h) \in Fds /\ sock[Own(h)] = c /\ CanGoOn(h)
  BY DEF NoMutualWait
<1>1. PccInv /\ Working /\ Owners /\ Served
  BY DEF AnswerInv, Working
<1>2. ~ Complete(c) /\ ~ Dead(c) /\ c \in Accepted
  <2>1. Len(reply[c]) < WordBytes /\ Len(down[c]) = 0
    BY <1>1 DEF PccInv, ClientReads
  <2>2. Len(reply[c]) \in Nat
    BY <1>1 DEF PccInv, TypeOK, ClientTypeOK
  <2>3. Len(reply[c]) + Len(down[c]) # WordBytes
    <3>1. \A n \in Nat : n < WordBytes => n + 0 # WordBytes
      BY DEF WordBytes
    <3> QED BY <2>1, <2>2, <3>1
  <2>4. ~ Dead(c) /\ c \in Accepted
    BY DEF Dead, Accepted
  <2> QED BY <2>3, <2>4 DEF Complete
<1>3. PICK f \in Fds : sock[f] = c
  BY <1>1, <1>2 DEF Served
<1>4. c # NoClient
  BY ClientsAssumption
<1>5. PICK h \in Handlers : hpc[h] \in Active /\ Own(h) = f
  BY <1>1, <1>3, <1>4 DEF Owners
<1>6. hpc[h] # "close"
  BY <1>1, <1>2, <1>3, <1>5 DEF Served
<1>7. hpc[h] \in {"length", "data"} => up[sock[Own(h)]] # << >>
  BY <1>3, <1>5, BytesToRead
<1>8. CanGoOn(h)
  BY <1>5, <1>6, <1>7 DEF CanGoOn, Active, LockHeld
<1> QED BY <1>3, <1>5, <1>8

\* No accepted client and its thread ever wait for each other, in any
\* interleaving, whatever clients die or calls fail, unless the thread took the
\* client's length for a larger one (handleConnection's read loops and
\* charsToUnsignedInt; updatePcc_total's lock is always given back).
THEOREM NeverMutualWait ==
  ASSUME InTime
  PROVE  Spec => []NoMutualWait
<1>1. Init => DataLeft /\ LockHeld
  BY DEF Init, ServerInit, DataLeft, LockHeld
<1>2. [](PccInv) /\ DataLeft /\ LockHeld /\ [][Next]_vars => [](DataLeft /\ LockHeld)
  BY DataLeftNext, LockHeldNext, PTL
<1> QED BY <1>1, <1>2, PccInvAlways, AnswerInvAlways, ThreadServes, PTL DEF Spec
=============================================================================
