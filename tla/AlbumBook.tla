------------------------------ MODULE AlbumBook ------------------------------
(***************************************************************************)
(* The book a guest reads, whatever the owner's requests have made of the  *)
(* album: Album's rows, ordered as getAlbumForEvent orders them, opened in *)
(* the Flipbook.                                                           *)
(***************************************************************************)
EXTENDS Album, Flipbook

\* rows.find: there is at most one row of a cover kind.
TheOne(kind) == IF OfKind(kind) = {} THEN NoPage ELSE CHOOSE p \in OfKind(kind) : TRUE

\* ORDER BY position: the k-th spread is the one with k spreads up to it.
UpTo(p) == {q \in OfKind("spread") : place[q].position <= place[p].position}
SpreadsInOrder ==
    [k \in 1..Cardinality(OfKind("spread")) |->
        CHOOSE p \in OfKind("spread") : Cardinality(UpTo(p)) = k]

\* getPublishedAlbumByShareToken: published, and a front to show.
BookIsOpen == published /\ HasFront

Book == BuildFaces(TheOne("cover"), SpreadsInOrder, TheOne("back"))

-----------------------------------------------------------------------------
\* The list has every spread of the album once, by position, and there is one
\* cover and one back at most ("Enforces one cover and one back per album, and
\* no duplicate spread", schema.ts:492) - although two uploads may be given the
\* same positions, and pages in the middle removed.
EveryPageOnce ==
    /\ \A p \in OfKind("spread") : \E k \in DOMAIN SpreadsInOrder : SpreadsInOrder[k] = p
    /\ \A k, m \in DOMAIN SpreadsInOrder : k < m =>
         place[SpreadsInOrder[k]].position < place[SpreadsInOrder[m]].position
    /\ \A kind \in {"cover", "back"} : \A p, q \in OfKind(kind) : p = q

\* With a cover on it the book reads like a book: turn k lays open both halves
\* of the k-th spread, side by side, and the last turn ends on the back cover -
\* after pages clashed, were removed from the middle, or replaced ("leaf 0:
\* front = cover, back = spread 1 left", flipbook.tsx:22-28).  Without a cover,
\* which publishing allows, every turn shows halves of two spreads.
ReadsInOrder ==
    TheOne("cover") # NoPage =>
        /\ Right(Book, 0) = Full(TheOne("cover"))
        /\ Left(Book, LeafCount(Book)) =
             (IF OfKind("back") = {} THEN Blank ELSE Full(TheOne("back")))
        /\ \A k \in DOMAIN SpreadsInOrder :
             /\ Left(Book, k) = [page |-> SpreadsInOrder[k], half |-> "left"]
             /\ Right(Book, k) = [page |-> SpreadsInOrder[k], half |-> "right"]
        /\ \A turned \in 0..LeafCount(Book) :
             {NextTurn(Book, turned), PrevTurn(turned)} \subseteq 0..LeafCount(Book)

\* "One odd page can't set the geometry for the whole book" (flipbook.tsx:73-76):
\* no shape is more common among the spreads than the one the book opens with.
MajorityShapesTheBook ==
    LET aspect == OpenBookAspect(TheOne("cover"), SpreadsInOrder)
    IN  \A i \in Known(SpreadsInOrder) :
          Votes(SpreadsInOrder, Ratio[SpreadsInOrder[i]]) <= Votes(SpreadsInOrder, aspect)

\* What a guest who opens the published book sees.
BookReadsInOrder ==
    BookIsOpen => EveryPageOnce /\ ReadsInOrder /\ MajorityShapesTheBook
=============================================================================
