--------------------------- MODULE MCKitchenCycle ---------------------------
(***************************************************************************)
(* KitchenCycle on a small instance: one product in two warehouses, so     *)
(* that a requirement may have to be drawn from both, and two plans.       *)
(***************************************************************************)
EXTENDS KitchenCycle, TLC

CONSTANTS w1, w2, x1, p1, p2, o1, o2, a1, a2

MCNeed == (p1 :> (x1 :> 2)) @@ (p2 :> (x1 :> 1))

Symmetric == Permutations({o1, o2}) \cup Permutations({a1, a2})

MCRowBefore == (w1 :> (w1 :> FALSE @@ w2 :> TRUE)) @@ (w2 :> (w1 :> FALSE @@ w2 :> FALSE))

\* A tenant that defined its own approval step before the first plan.
MCCustomTransition ==
    {[from |-> "SUBMITTED", action |-> "APPROVE", to |-> "APPROVED", gated |-> FALSE]}
=============================================================================
