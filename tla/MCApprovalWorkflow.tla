------------------------- MODULE MCApprovalWorkflow -------------------------
(***************************************************************************)
(* ApprovalWorkflow on a small instance: one document of each type, whose  *)
(* tenant may drop the approval gate or put one on another transition.     *)
(***************************************************************************)
EXTENDS ApprovalWorkflow, TLC

CONSTANTS a1, a2, a3

Symmetric == Permutations({a1, a2, a3})

MCCustomTransition ==
    {[from |-> "SUBMITTED", action |-> "APPROVE", to |-> "APPROVED", gated |-> FALSE],
     [from |-> "DRAFT", action |-> "SUBMIT", to |-> "SUBMITTED", gated |-> TRUE],
     [from |-> "APPROVED", action |-> "RESERVE_MATERIALS",
      to |-> "MATERIAL_RESERVED", gated |-> TRUE]}
=============================================================================
