------------------------------ MODULE PccWords -------------------------------
(***************************************************************************)
(* The bytes of ex5's protocol.  An unsigned int travels as WordBytes      *)
(* bytes, most significant first.  A byte has Byte values and, read        *)
(* through the code's plain char, its upper half is negative: converted to *)
(* unsigned int it is sign extended, and fills every more significant byte *)
(* of the word with ones when the four are ORed together.                  *)
(*                                                                         *)
(* Byte is 256 in the code; models use a smaller one so that the words on  *)
(* both sides of every boundary are few.                                   *)
(***************************************************************************)
EXTENDS Integers, Sequences, FiniteSets

CONSTANTS Byte,        \* values of a byte, 256
          Printable    \* the bytes counted, 32 .. 126

WordBytes == 4         \* sizeof(unsigned int)

ASSUME ByteAssumption == Byte \in Nat /\ Byte >= 2 /\ Byte % 2 = 0

\* No byte that is negative as a char is printable.
ASSUME PrintableAssumption == Printable \subseteq 0 .. (Byte \div 2) - 1

Bytes == 0 .. Byte - 1
Words == [1 .. WordBytes -> Bytes]

Negative(b) == b >= Byte \div 2

\* The unsigned int num as it is sent; num is below Byte^WordBytes.
UnsignedIntToChars(num) ==
  << (num \div (Byte * Byte * Byte)) % Byte, (num \div (Byte * Byte)) % Byte,
     (num \div Byte) % Byte, num % Byte >>

\* The bytes of the unsigned int that the buffer is taken for.
CharsToUnsignedInt(buffer) ==
  [k \in 1 .. WordBytes |->
     IF \E j \in k + 1 .. WordBytes : Negative(buffer[j]) THEN Byte - 1
                                                         ELSE buffer[k]]

\* No byte is negative that would change those before it.
SignFree(buffer) == \A k \in 2 .. WordBytes : ~ Negative(buffer[k])

\* The value of a word.
Value(word) ==
  ((word[1] * Byte + word[2]) * Byte + word[3]) * Byte + word[4]

\* Printable bytes of a buffer.
PrintablesIn(buffer) ==
  Cardinality({i \in 1 .. Len(buffer) : buffer[i] \in Printable})
=============================================================================
