----------------------------- MODULE MC_Accounts -----------------------------
(***************************************************************************)
(* One customer of the admin's and one who signed up alone.  Four things   *)
(* multiply the states and no property relates two of them: a sign-in      *)
(* that fails, events, a gateway, a second studio.  Bound: one at a time.  *)
(***************************************************************************)
EXTENDS Accounts, FiniteSetsExt, TLC

Symmetry == Permutations(Submissions) \cup Permutations(Creators)
            \cup Permutations(Studios)

Guessing == attempts.count > 0 \/ misses # <<>>
Creating == \E r \in Creators : create[r] # NoStudio \/ \E w \in Studios : events[w] > 0
Subscribing == \E w \in DOMAIN ws : ws[w].hasSubscription
Doubling == Quantify(Submissions, LAMBDA s : submit[s].phase # "idle")
            + Cardinality(DOMAIN ws) > 1

OneAtATime ==
    LET ongoing == <<Guessing, Creating, Subscribing, Doubling>>
    IN  Quantify(DOMAIN ongoing, LAMBDA i : ongoing[i]) <= 1
=============================================================================
