------------------------------- MODULE XorFile -------------------------------
(***************************************************************************)
(* What every program of ex4 promises: the output file is the XOR of the   *)
(* input files, the shorter ones padded with zeros, written one round at a *)
(* time; its size is announced once, when it is complete.                  *)
(***************************************************************************)
EXTENDS XorRounds

CONSTANT NotReported

VARIABLES input,    \* the input files
          output,   \* the rounds written so far: [data, size] records
          report    \* the announced size, or NotReported

vars == <<input, output, report>>

Init ==
  /\ input \in Inputs
  /\ output = << >>
  /\ report = NotReported

WriteRound ==
  /\ ~ IsLastRound(input, Len(output))
  /\ \E round \in {[data |-> RoundData(input, Len(output) + 1), size |-> n] :
                     n \in 1 .. ChunkSize} :
        /\ ExactRound(input, Len(output) + 1, round)
        /\ output' = Append(output, round)
  /\ UNCHANGED <<input, report>>

Report ==
  /\ report = NotReported
  /\ IsLastRound(input, Len(output))
  /\ IsOutputSize(input, report')
  /\ UNCHANGED <<input, output>>

Next == WriteRound \/ Report

Spec == Init /\ [][Next]_vars
=============================================================================
