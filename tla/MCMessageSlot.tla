---------------------------- MODULE MCMessageSlot ----------------------------
(* Small instances of MessageSlot: the 80 bytes of a channel are 2, the 4 of *)
(* a pointer 1 and the 128 of a message 4; one message is shorter than a     *)
(* pointer, one fits, one is cut.                                            *)
EXTENDS MessageSlot, TLC

CONSTANTS short, fits, long

MessageLength == [m \in Messages |->
  CASE m = short -> 0 [] m = fits -> 1 [] m = long -> 3]

ProcSymmetry == Permutations(Procs)
=============================================================================
