-------------------------- MODULE MCOrderMistakes --------------------------
(* The instances of MCOrderFlow, with the record of mistakes.              *)
EXTENDS OrderMistakes, MCOrderFlow
=============================================================================
