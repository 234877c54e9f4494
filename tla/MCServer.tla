------------------------------- MODULE MCServer -------------------------------
(***************************************************************************)
(* A small instance of Server for TLC: one transaction, of a trade, whose  *)
(* three events go to two topics, or of a request; two consumer groups; a  *)
(* process that stops once.                                                *)
(***************************************************************************)
EXTENDS Server, TLC

CONSTANTS x1, x2

TradeAndCancel == (x1 :> "trade") @@ (x2 :> "cancel")
===============================================================================
