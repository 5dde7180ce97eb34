---------------------------- MODULE MC_GuestVisit ----------------------------
(***************************************************************************)
(* Photos of which one has two faces and two lie equally far; another      *)
(* guest behind the same address.                                          *)
(***************************************************************************)
EXTENDS GuestVisit

CONSTANTS p, q, r

MCFaces == {f \in {[id |-> 1, asset |-> p, distance |-> 1],
                   [id |-> 2, asset |-> p, distance |-> 2],
                   [id |-> 3, asset |-> q, distance |-> 3],
                   [id |-> 4, asset |-> r, distance |-> 3]} : f.asset \in Photos}
=============================================================================
