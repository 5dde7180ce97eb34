-------------------------- MODULE MC_PhotoStorage --------------------------
(***************************************************************************)
(* Small instances of PhotoStorage: two sizes of photo, a plan too small   *)
(* for all of them.                                                        *)
(***************************************************************************)
EXTENDS PhotoStorage, FiniteSetsExt, TLC

CONSTANTS small, middle, large

MCPhotos == {small, middle, large}
SizeOf(p) == CASE p = small -> 1 [] p = middle -> 2 [] p = large -> 3
MCBytes == [S \in SUBSET Photos |-> FoldSet(LAMBDA p, n : n + SizeOf(p), 0, S)]
===========================================================================
