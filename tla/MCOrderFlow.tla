---------------------------- MODULE MCOrderFlow ----------------------------
(* The order flow with one strategy, whose targets lie a lot or two apart. *)
EXTENDS OrderFlow

UpAndDown == {0, 2}
LongShort == {1, -1}

AllOfThem    == <<"risk_order_cb", "algo_engine_order_data", "portfolio_order_data_cb">>
AlgoFirst    == <<"algo_engine_order_data", "portfolio_order_data_cb">>
AlgoOnly     == <<"algo_engine_order_data">>

NoNotes  == {}
AnyNote  == {"repeat", "commission", "error"}
Late     == {"commission"}
=============================================================================
