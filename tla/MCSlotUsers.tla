----------------------------- MODULE MCSlotUsers -----------------------------
(* Small instances of SlotUsers: the sizes are those of MCMessageSlot; the    *)
(* longest message is one that a sender does not refuse.                      *)
EXTENDS SlotUsers, TLC

CONSTANTS short, fits, long, tooLong

MessageLength == [m \in Messages |->
  CASE m = short -> 0 [] m = fits -> 1 [] m = long -> 3 [] m = tooLong -> 5]

Job(role, m, c, message) ==
  [role |-> role, minor |-> m, channel |-> c, message |-> message]

\* A long message is cut and then replaced by a shorter one on one slot; the
\* other slot has a sender and a reader of two channels, and those that fail.
AllJobs ==
  {Job("sender", 0, 0, fits), Job("sender", 0, 0, long), Job("reader", 0, 0, fits),
   Job("sender", 1, 1, fits), Job("reader", 1, 0, fits),
   Job("sender", 1, 0, short), Job("sender", 1, 0, tooLong), Job("sender", 1, 4, fits)}

ProcSymmetry == Permutations(Procs)
=============================================================================
