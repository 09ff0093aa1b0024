-------------------------- MODULE MCTradeExecution --------------------------
(***************************************************************************)
(* TradeExecution with two rows, enough for an approval and its swap or    *)
(* for trades of two cycles, and two deaths, enough for the second to come *)
(* in the middle of a reconciliation.                                      *)
(***************************************************************************)
EXTENDS TradeExecution
=============================================================================
