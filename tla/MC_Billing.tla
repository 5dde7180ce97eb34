----------------------------- MODULE MC_Billing -----------------------------
(***************************************************************************)
(* Billing for TLC.                                                        *)
(***************************************************************************)
EXTENDS Billing

\* A bound: two snapshots wait at once only while no other request and no sweep
\* is under way, and none of the two is of a checkout that is still open.
OneAtATime ==
    Cardinality(inflight) <= 1 \/
        /\ sweep = Idle /\ opening = {}
        /\ \A m \in inflight : m.status # "INITIALIZED"
=============================================================================
