--------------------------- MODULE StorageAccount ---------------------------
(***************************************************************************)
(* What storage accounting promises: a workspace is charged exactly for    *)
(* what it stores, is never let to store more than its plan allows at that *)
(* moment, and nothing but storing and removing changes the charge.        *)
(***************************************************************************)
EXTENDS Naturals

CONSTANTS
    Items,      \* what can be stored
    Bytes,      \* Bytes[S]: the bytes the items of S take together
    Quotas      \* the allowances of the plans

VARIABLES
    stored,     \* the items stored
    charged,    \* the bytes the workspace is charged for
    allowance   \* the allowance of its plan now

vars == <<stored, charged, allowance>>

Init == stored = {} /\ charged = 0 /\ allowance \in Quotas

Store ==
    \E S \in SUBSET Items :
        /\ S \cap stored = {}
        /\ charged + Bytes[S] <= allowance
        /\ stored' = stored \cup S
        /\ charged' = charged + Bytes[S]
        /\ UNCHANGED allowance

Remove ==
    \E p \in stored :
        /\ stored' = stored \ {p}
        /\ charged' = charged - Bytes[{p}]
        /\ UNCHANGED allowance

ChangePlan == allowance' \in Quotas /\ UNCHANGED <<stored, charged>>

Next == Store \/ Remove \/ ChangePlan

Spec == Init /\ [][Next]_vars
=============================================================================
