-------------------------- MODULE MCGovernmentClaims --------------------------
(***************************************************************************)
(* Two sessions on one claim over one or two deliveries, with amounts      *)
(* below, at and above what a portion costs.                               *)
(***************************************************************************)
EXTENDS GovernmentClaims, TLC

CONSTANTS s1, s2

Symmetric == Permutations({s1, s2})

SmallAmounts == {-1, 1, 2}
=============================================================================
