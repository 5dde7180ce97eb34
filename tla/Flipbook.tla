------------------------------ MODULE Flipbook ------------------------------
(***************************************************************************)
(* The page-turning viewer (apps/web/src/components/flipbook.tsx) as       *)
(* functions of the album: which faces the leaves carry, what lies open    *)
(* after so many turns, and which shape the open book has.                 *)
(*                                                                         *)
(* A page is an id; NoPage stands for a cover there is none of.  A ratio   *)
(* of width to height is counted in hundredths, which is how the code      *)
(* buckets them (toFixed(2)); 0 is "unknown".                              *)
(***************************************************************************)
EXTENDS Integers, Sequences, FiniteSets

CONSTANTS
    NoPage,
    Ratio       \* Ratio[p]: width by height of page p

Full(p) == [page |-> p, half |-> "full"]
Blank == Full(NoPage)

Halves(spreads) ==
    [i \in 1..2 * Len(spreads) |->
        [page |-> spreads[(i + 1) \div 2], half |-> IF i % 2 = 1 THEN "left" ELSE "right"]]

Covering(p) == IF p = NoPage THEN <<>> ELSE <<Full(p)>>

\* Padding at the front of the book.
BuildFacesPadFirst(cover, spreads, back) ==
    LET faces == Covering(cover) \o Halves(spreads) \o Covering(back)
    IN  IF Len(faces) % 2 = 1 THEN <<Blank>> \o faces ELSE faces

\* The faces in reading order; leaf i carries faces 2i and 2i + 1.
BuildFaces(cover, spreads, back) ==
    LET faces == Covering(cover) \o Halves(spreads) \o Covering(back)
    IN  IF Len(faces) % 2 = 1 THEN Append(faces, Blank) ELSE faces

LeafCount(faces) == Len(faces) \div 2

\* The turned leaves: next and prev stay between the covers.
NextTurn(faces, turned) == IF turned < LeafCount(faces) THEN turned + 1 ELSE LeafCount(faces)
PrevTurn(turned) == IF turned > 0 THEN turned - 1 ELSE 0

\* What lies left and right of the spine; the code counts faces from 0.
Left(faces, turned) == IF turned > 0 THEN faces[2 * turned] ELSE Blank
Right(faces, turned) == IF turned < LeafCount(faces) THEN faces[2 * turned + 1] ELSE Blank

(***************************************************************************)
(* openBookAspect.                                                         *)
(***************************************************************************)
\* The spreads with dimensions, and how many of them have a given shape.
Known(spreads) == {i \in DOMAIN spreads : Ratio[spreads[i]] # 0}
Votes(spreads, r) == Cardinality({i \in Known(spreads) : Ratio[spreads[i]] = r})

\* The first of the most common ones: the tally keeps the order in which ratios
\* turn up, and the sort is stable.
Winner(spreads) ==
    LET best == {i \in Known(spreads) : \A j \in Known(spreads) :
                    Votes(spreads, Ratio[spreads[j]]) <= Votes(spreads, Ratio[spreads[i]])}
    IN  Ratio[spreads[CHOOSE i \in best : \A j \in best : i <= j]]

\* The shape of whichever spread comes first.
WinnerComesFirst(spreads) ==
    Ratio[spreads[CHOOSE i \in Known(spreads) : \A j \in Known(spreads) : i <= j]]

OpenBookAspect(cover, spreads) ==
    IF Known(spreads) # {} THEN Winner(spreads)
    ELSE IF cover # NoPage /\ Ratio[cover] # 0 THEN 2 * Ratio[cover]
    ELSE 200
=============================================================================
