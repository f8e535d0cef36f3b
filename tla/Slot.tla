--------------------------------- MODULE Slot ---------------------------------
(***************************************************************************)
(* What a message slot device does for processes whose calls do not        *)
(* overlap: each channel of each minor holds the last text written to it,  *)
(* and a read returns all of it or fails.  A minor is live from an open of *)
(* it to the next close of it, whoever's file is closed; on a minor that   *)
(* is not live reads and writes fail.                                      *)
(***************************************************************************)
EXTENDS Integers, Sequences

CONSTANTS Procs, Minors, Messages, Params, Channels, NoChannel, Length,
          ReadSizes, BufLen, PointerSize, EINVAL

Closed == << >>    \* a process without a file

VARIABLES
  file,     \* <<minor, channel>> for each process, or Closed
  live,     \* the minors that are live
  text,     \* text[m][c]: what channel c of minor m holds
  buffer,   \* what the last successful read of each process returned
  result    \* what its last call returned

vars == <<file, live, text, buffer, result>>

\* What is stored of message s, written by a file of minor m and channel c.
Prefix(s, m, c) ==
  [k \in 1 .. (IF Length[s] < BufLen THEN Length[s] ELSE BufLen) |-> <<s, m, c>>]

Init ==
  /\ file = [p \in Procs |-> Closed]
  /\ live = {}
  /\ text = [m \in Minors |-> [c \in Channels |-> << >>]]
  /\ buffer = [p \in Procs |-> << >>]
  /\ result = [p \in Procs |-> 0]

IsOpen(p) == file[p] # Closed
Minor(p) == file[p][1]
Channel(p) == file[p][2]

\* A call of p ends and returns r.
Returns(p, r) == result' = [result EXCEPT ![p] = r]

Open(p, m) ==
  /\ ~ IsOpen(p)
  /\ file' = [file EXCEPT ![p] = <<m, NoChannel>>]
  /\ live' = live \cup {m}
  /\ Returns(p, 0)
  /\ UNCHANGED <<text, buffer>>

Close(p) ==
  /\ IsOpen(p)
  /\ file' = [file EXCEPT ![p] = Closed]
  /\ live' = live \ {Minor(p)}
  /\ buffer' = [buffer EXCEPT ![p] = << >>]
  /\ Returns(p, 0)
  /\ UNCHANGED text

SetChannel(p, c) ==
  /\ IsOpen(p)
  /\ c \in Channels
  /\ file' = [file EXCEPT ![p] = <<Minor(p), c>>]
  /\ Returns(p, 0)
  /\ UNCHANGED <<live, text, buffer>>

Usable(p) == IsOpen(p) /\ Channel(p) # NoChannel /\ Minor(p) \in live

Write(p, s) ==
  /\ Usable(p)
  /\ Length[s] >= PointerSize
  /\ LET stored == Prefix(s, Minor(p), Channel(p))
     IN  /\ text' = [text EXCEPT ![Minor(p)][Channel(p)] = stored]
         /\ Returns(p, Len(stored))
  /\ UNCHANGED <<file, live, buffer>>

Read(p, size) ==
  /\ Usable(p)
  /\ LET stored == text[Minor(p)][Channel(p)]
     IN  /\ Len(stored) <= size
         /\ buffer' = [buffer EXCEPT ![p] = stored]
         /\ Returns(p, Len(stored))
  /\ UNCHANGED <<file, live, text>>

\* A wrong channel number, a file without a channel or of a minor that is not
\* live, a message that is too short or a buffer that is too small.
Refuse(p) ==
  /\ IsOpen(p)
  /\ \/ Params \ Channels # {}
     \/ ~ Usable(p)
     \/ \E s \in Messages : Length[s] < PointerSize
     \/ \E size \in ReadSizes : Len(text[Minor(p)][Channel(p)]) > size
  /\ Returns(p, EINVAL)
  /\ UNCHANGED <<file, live, text, buffer>>

\* The device is removed with what it holds; the files it had are of no more use.
Remove ==
  /\ file' = [p \in Procs |-> Closed]
  /\ live' = {}
  /\ text' = [m \in Minors |-> [c \in Channels |-> << >>]]
  /\ buffer' = [p \in Procs |-> << >>]
  /\ result' = [p \in Procs |-> 0]

Next ==
  \/ Remove
  \/ \E p \in Procs :
       \/ \E m \in Minors : Open(p, m)
       \/ Close(p)
       \/ \E c \in Params : SetChannel(p, c)
       \/ \E s \in Messages : Write(p, s)
       \/ \E size \in ReadSizes : Read(p, size)
       \/ Refuse(p)

Spec == Init /\ [][Next]_vars
=============================================================================
