----------------------------- MODULE MCHw4Drafts -----------------------------
(* Small instances of Hw4Drafts: three files of up to two blocks.            *)
EXTENDS Hw4Drafts

\* Nothing, part of a chunk, a whole chunk, a chunk and a part.
Files == {[blocks |-> 0, last |-> 1], [blocks |-> 1, last |-> 1],
          [blocks |-> 1, last |-> 2], [blocks |-> 2, last |-> 1]}

AllInputs == [Threads -> Files]

OwnNames == {<<t, t>> : t \in Threads}

\* No name occurs in another, or the last one occurs in the one before.
AllNamings == {OwnNames, OwnNames \cup {<<N - 1, N>>}}

\* Nothing fails in a thread; a thread may fail but in a write; anywhere.
DraftFaultSets == {{"access", "create"}, {"open", "read"}, {"write"}}

AllVersions == {"tester", "Old", "Old2", "WithoutPrints"}
=============================================================================
