---------------------------- MODULE MCServingCycle ----------------------------
(***************************************************************************)
(* One production order, one inspection, two deliveries and one route,     *)
(* served by two sessions.                                                 *)
(***************************************************************************)
EXTENDS ServingCycle, TLC

CONSTANTS s1, s2, d1, d2, r1

Symmetric ==
    Permutations({s1, s2}) \cup Permutations({d1, d2})
=============================================================================
