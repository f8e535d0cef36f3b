------------------------------- MODULE MCSymMng -------------------------------
(* Small instances of SymMng: buffers of two bytes and files of up to four.  *)
EXTENDS SymMng

\* Two symbols, one of them for two children; files have zeros too.
ThreeSymbols == <<1, 2, 1>>

AllFiles == UNION {[1 .. n -> 0 .. 2] : n \in 0 .. 4}
=============================================================================
