--------------------------- MODULE MC_Retention ---------------------------
(***************************************************************************)
(* Small instances of Retention.  The durations keep the order of the real *)
(* ones: the final notice falls inside the grace, the grace is shorter     *)
(* than the days a behaviour lasts.                                        *)
(***************************************************************************)
EXTENDS Retention, TLC

Symmetry == Permutations(Photos) \cup Permutations(Workspaces)

\* A bound: the gateway writes what the clock is read from, embed jobs and a
\* crash disturb the objects of the purge, and a behaviour has the one or the
\* other.
Subscribing == \E w \in Workspaces : workspace[w].hasSubscription
Disturbed ==
    \/ crashes > 0 \/ derived \cup variants \cup late # {}
    \/ \E p \in Photos : job[p] # "none"

OneAtATime == ~(Subscribing /\ Disturbed)
===========================================================================
