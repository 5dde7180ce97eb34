------------------------------ MODULE MC_Album ------------------------------
(***************************************************************************)
(* Small instances of AlbumBook: pages of different sizes and shapes, and  *)
(* selections of one and of two files.                                     *)
(***************************************************************************)
EXTENDS AlbumBook, FiniteSetsExt, TLC

CONSTANTS a, b, c

Symmetry == Permutations(Uploads)

MCBatches == {<<a>>, <<b>>, <<c>>, <<b, c>>}
SizeOf(p) == IF p = a THEN 2 ELSE 1
MCBytes == [S \in SUBSET Pages |-> FoldSet(LAMBDA p, n : n + SizeOf(p), 0, S)]
MCRatio == [p \in Pages |-> IF p = a THEN 200 ELSE 267]
=============================================================================
