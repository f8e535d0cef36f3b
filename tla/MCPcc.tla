-------------------------------- MODULE MCPcc --------------------------------
(* Small instances of Pcc: bytes of 4 values, of which 1 is printable and   *)
(* 2 and 3 negative as chars, or of 8.                                       *)
EXTENDS Pcc

CONSTANTS c1, c2

OnePrintable == {1}
TwoPrintable == {2, 3}

\* Nothing is printable in the one; in the other so much that the answer is
\* negative as a char, but not its length.
MixedPayloads == {[c \in Clients |-> IF c = c1 THEN << 0 >> ELSE << 1, 2, 0, 1 >>]}

\* One and the same data for all.
OnePayload == [Clients -> {<< 3, 1 >>}]

\* A length whose last byte is negative as a char.
LongPayload == [Clients -> {<< 1, 1, 1, 1 >>}]
=============================================================================
