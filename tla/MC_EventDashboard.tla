------------------------- MODULE MC_EventDashboard -------------------------
(***************************************************************************)
(* A small event: one photo shown, one that another device may upload, and *)
(* the twins of both, and a file of a wrong type.                          *)
(***************************************************************************)
EXTENDS EventDashboard, TLC

CONSTANTS f1, f2, x, e1, e2

MCContent == (f1 :> 1 @@ f2 :> 2 @@ x :> 3) @@ (e1 :> 2 @@ e2 :> 1)
=============================================================================
