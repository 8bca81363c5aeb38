---------------------------- MODULE MCProfitLoss ----------------------------
(* One algo trades a future and takes its prices from the index, as        *)
(* AlgoEngine does; the other holds both.  The future may have no          *)
(* subscriber, and the index two.                                          *)
EXTENDS ProfitLoss

CONSTANTS engine, other, index, future

HeldByAlgo ==
    [a \in Algos |-> IF a = engine THEN {future} ELSE {index, future}]

FutureByIndex ==
    [a \in Algos |-> IF a = engine THEN [s \in {future} |-> index] ELSE << >>]

SomeSubscriptions == {<<index, index>>, <<index, future>>}
=============================================================================
