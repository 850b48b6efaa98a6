--------------------------- MODULE MCBarrierProtocol ---------------------------
(***************************************************************************)
(* An instance of BarrierProtocol for TLC: accesses of both cells, and of  *)
(* the second cell and one beyond the shadow.                              *)
(***************************************************************************)
EXTENDS BarrierProtocol

BothOrBeyond == {<<0, 1>>, <<1, 2>>}
===============================================================================
