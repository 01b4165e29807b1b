--------------------------- MODULE MCTensorInspector ---------------------------
(* TensorInspector for a run: any definition while nothing else happens, and none or one  *)
(* member of eight bytes while messages and reads are on their way.                         *)
EXTENDS TensorInspector

Short == ~packed /\ ~refused /\ bitCursor \in {0, 64} /\ Len(fields) = bitCursor \div 64
Still == asked = 0 /\ toView = <<>> /\ dtype = "struct"

ShortUnlessStill == Short \/ Still
===============================================================================
