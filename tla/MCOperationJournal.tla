--------------------------- MODULE MCOperationJournal ---------------------------
(***************************************************************************)
(* OperationJournal for TLC: one operator, who may run one command after   *)
(* the other.                                                              *)
(***************************************************************************)
EXTENDS OperationJournal

CONSTANT o1

OneOperator == {o1}
=============================================================================
