------------------------------ MODULE MessageOnce ------------------------------
(***************************************************************************)
(* What idempotency keys and the outbox promise of the messages exchanged  *)
(* with one external system: a key is accepted once, whoever sends it      *)
(* again, and what was accepted is announced in the same step, then        *)
(* dispatched.                                                             *)
(***************************************************************************)
EXTENDS Integers

CONSTANT Key

VARIABLES
    accepted,   \* how many messages carry each key
    announced,  \* keys with an event
    dispatched  \* keys whose event was dispatched

Init ==
    /\ accepted = [k \in Key |-> 0]
    /\ announced = {}
    /\ dispatched = {}

Accept(k) ==
    /\ accepted[k] = 0
    /\ accepted' = [accepted EXCEPT ![k] = 1]
    /\ announced' = announced \cup {k}
    /\ UNCHANGED dispatched

Dispatch(keys) ==
    /\ keys # {} /\ keys \subseteq announced
    /\ dispatched' = dispatched \cup keys
    /\ UNCHANGED <<accepted, announced>>

Next ==
    \/ \E k \in Key : Accept(k)
    \/ \E keys \in SUBSET Key : Dispatch(keys)

Spec == Init /\ [][Next]_<<accepted, announced, dispatched>>
=============================================================================
