-------------------------- MODULE MCIntegrationChannel --------------------------
(***************************************************************************)
(* Two sessions and two keys: a key may be sent again, in both directions, *)
(* while it is being dispatched.                                           *)
(***************************************************************************)
EXTENDS IntegrationChannel
=============================================================================
