--------------------------- MODULE MCStockSessions ---------------------------
(***************************************************************************)
(* StockSessions on a small instance: two sessions, two rows, one plan     *)
(* that may have to draw on both rows.                                     *)
(***************************************************************************)
EXTENDS StockSessions, TLC

CONSTANTS p1

MCNeed == p1 :> 2
=============================================================================
