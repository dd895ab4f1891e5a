------------------------- MODULE MCSettlementSessions -------------------------
(***************************************************************************)
(* Settlement on a small instance: two sessions serve four requests over   *)
(* two days, for two receipts and an agreement on a principal of one,      *)
(* repaid, left as it is or raised again by one.                           *)
(***************************************************************************)
EXTENDS SettlementSessions, TLC

CONSTANTS s1, s2, g1, g2

MCRepaymentAmount == -1 .. 1

Symmetric == Permutations({s1, s2}) \cup Permutations({g1, g2})
=============================================================================
