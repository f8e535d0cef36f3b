------------------------------ MODULE MCSymFifo ------------------------------
(* An instance of SymFifo with three symbols and every fault.                 *)
EXTENDS SymFifo

ThreeSymbols == <<"a", "b", "c">>
AllFaults == {"child", "exec", "fork", "sigpipe", "other"}
=============================================================================
