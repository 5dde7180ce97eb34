------------------------------ MODULE FaceMatch ------------------------------
(***************************************************************************)
(* The search of a selfie among the faces of an event: the query of the    *)
(* match route.  A face is a row of face_embeddings, [id, asset, distance] *)
(* with the distance to the selfie already worked out (pgvector's <=>).    *)
(***************************************************************************)
EXTENDS Integers, SequencesExt

Nearer(f, g) == f.distance < g.distance \/ (f.distance = g.distance /\ f.id < g.id)

\* A query that keeps every face.
AllRanks(faces) == faces

\* ROW_NUMBER() OVER (PARTITION BY asset_id ORDER BY distance) = 1
FirstRanks(faces) ==
    {f \in faces : \A g \in faces : g.asset = f.asset => g = f \/ Nearer(f, g)}

\* How many of the rows come before f.
Rank(rows, f) == Cardinality({g \in rows : Nearer(g, f)})

\* WHERE distance < threshold ORDER BY distance LIMIT limit
Near(faces, threshold) == {f \in FirstRanks(faces) : f.distance < threshold}

Matched(faces, threshold, limit) ==
    LET near == Near(faces, threshold)
        n == IF Cardinality(near) < limit THEN Cardinality(near) ELSE limit
    IN  [i \in 1..n |-> (CHOOSE f \in near : Rank(near, f) = i - 1).asset]

-----------------------------------------------------------------------------
\* What the search owes a guest: no photo twice, and the nearest first; every
\* photo with a face near enough, unless the limit is full; and then none that
\* is farther away than one left out.
IsFairMatch(matched, faces, threshold, limit) ==
    LET found == Range(matched)
        near(a) == \E f \in faces : f.asset = a /\ f.distance < threshold
        owed == {a \in {f.asset : f \in faces} : near(a)}
        noFarther(a, b) == \E f \in faces :
            f.asset = a /\ \A g \in faces : g.asset = b => f.distance <= g.distance
    IN  /\ Cardinality(found) = Len(matched) /\ Len(matched) <= limit
        /\ found \subseteq owed
        /\ Len(matched) < limit => found = owed
        /\ \A i, j \in DOMAIN matched : i < j => noFarther(matched[i], matched[j])
        /\ \A a \in found, b \in owed \ found : noFarther(a, b)
=============================================================================
