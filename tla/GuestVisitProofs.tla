-------------------------- MODULE GuestVisitProofs --------------------------
(***************************************************************************)
(* What GuestVisit keeps for any event, any number of camera views and of  *)
(* guests behind one address, any limit and window; and what the query of  *)
(* FaceMatch finds in any set of faces.                                    *)
(***************************************************************************)
EXTENDS GuestVisit, FiniteSetTheorems, FunctionTheorems, SequenceTheorems, TLAPS

-----------------------------------------------------------------------------
(***************************************************************************)
(* The query.  Ranking puts a finite set of faces in order: no two have    *)
(* the same rank, so the ranks are all the numbers below their count.      *)
(***************************************************************************)
LEMMA Constants ==
  /\ IsFiniteSet(Photos) /\ IsFiniteSet(Others)
  /\ RateMax \in Nat /\ RateMax > 0 /\ Window \in Nat
  /\ MaxViews \in Nat /\ MaxClock \in Nat /\ MaxOwner \in Nat
  /\ Thresholds \subseteq Nat
BY GuestAssumption

LEMMA FaceType ==
  ASSUME NEW f \in Faces
  PROVE  f.id \in Nat /\ f.asset \in Photos /\ f.distance \in Nat
BY GuestAssumption

\* Nearer orders the faces of an event, ties broken by their ids.
LEMMA NearerOrders ==
  ASSUME NEW f \in Faces, NEW g \in Faces, NEW h \in Faces
  PROVE  /\ ~Nearer(f, f)
         /\ Nearer(f, g) => ~Nearer(g, f)
         /\ Nearer(f, g) /\ Nearer(g, h) => Nearer(f, h)
         /\ f = g \/ Nearer(f, g) \/ Nearer(g, f)
         /\ Nearer(f, g) => f.distance <= g.distance
<1>1. f.id = g.id => f = g
  BY GuestAssumption
<1> QED BY <1>1, FaceType DEF Nearer

LEMMA RankType ==
  ASSUME NEW S \in SUBSET Faces, NEW f \in S
  PROVE  /\ IsFiniteSet(S) /\ Cardinality(S) \in Nat
         /\ Rank(S, f) \in 0 .. Cardinality(S) - 1
<1> DEFINE before == {g \in S : Nearer(g, f)}
<1>1. IsFiniteSet(S) /\ Cardinality(S) \in Nat
  BY GuestAssumption, FS_Subset, FS_CardinalityType
<1>2. before \subseteq S \ {f}
  BY NearerOrders
<1>3. IsFiniteSet(S \ {f}) /\ Cardinality(S \ {f}) = Cardinality(S) - 1
  BY <1>1, FS_RemoveElement
<1>4. /\ IsFiniteSet(before) /\ Cardinality(before) \in Nat
      /\ Cardinality(before) <= Cardinality(S) - 1
  BY <1>2, <1>3, FS_Subset, FS_CardinalityType
<1> QED BY <1>1, <1>4 DEF Rank

\* The nearer face has the smaller rank.
LEMMA RankOrders ==
  ASSUME NEW S \in SUBSET Faces, NEW f \in S, NEW g \in S
  PROVE  Nearer(f, g) <=> Rank(S, f) < Rank(S, g)
<1>1. ASSUME NEW a \in S, NEW b \in S, Nearer(a, b)
      PROVE  Rank(S, a) < Rank(S, b)
  <2> DEFINE below(c) == {x \in S : Nearer(x, c)}
  <2>1. a \in below(b) /\ a \notin below(a) /\ below(a) \subseteq below(b) \ {a}
    BY <1>1, NearerOrders
  <2>2. IsFiniteSet(below(b)) /\ Cardinality(below(b)) \in Nat
    BY RankType, FS_Subset, FS_CardinalityType
  <2>3. /\ IsFiniteSet(below(b) \ {a})
        /\ Cardinality(below(b) \ {a}) = Cardinality(below(b)) - 1
    BY <2>1, <2>2, FS_RemoveElement
  <2>4. /\ Cardinality(below(a)) <= Cardinality(below(b)) - 1
        /\ Cardinality(below(a)) \in Nat
    BY <2>1, <2>3, FS_Subset, FS_CardinalityType
  <2> QED BY <2>2, <2>4 DEF Rank
<1>2. Rank(S, f) \in Int /\ Rank(S, g) \in Int
  BY RankType
<1>3. f = g \/ Nearer(f, g) \/ Nearer(g, f)
  BY NearerOrders
<1> QED BY <1>1, <1>2, <1>3, NearerOrders

\* Every rank is somebody's.
LEMMA RankOnto ==
  ASSUME NEW S \in SUBSET Faces, NEW i \in 0 .. Cardinality(S) - 1
  PROVE  \E f \in S : Rank(S, f) = i
<1> DEFINE n == Cardinality(S)
           rank == [f \in S |-> Rank(S, f)]
<1>1. IsFiniteSet(S) /\ n \in Nat
  BY GuestAssumption, FS_Subset, FS_CardinalityType
<1>2. rank \in [S -> 0 .. n - 1]
  BY RankType
<1>3. ASSUME NEW f \in S, NEW g \in S, rank[f] = rank[g] PROVE f = g
  <2>1. Rank(S, f) = Rank(S, g) /\ Rank(S, f) \in Int
    BY <1>3, RankType
  <2>2. ~Nearer(f, g) /\ ~Nearer(g, f)
    BY <2>1, RankOrders
  <2> QED BY <2>2, NearerOrders
<1>4. rank \in Injection(S, 0 .. n - 1)
  BY <1>2, <1>3, Fun_IsInj
<1>5. IsFiniteSet(0 .. n - 1) /\ Cardinality(0 .. n - 1) = n
  BY <1>1, FS_Interval
<1>6. rank \in Surjection(S, 0 .. n - 1)
  BY <1>4, <1>5, FS_Injection
<1> HIDE DEF n, rank
<1>7. \A r \in 0 .. n - 1 : \E f \in S : rank[f] = r
  BY <1>6 DEF Surjection
<1> USE DEF n, rank
<1>8. PICK f \in S : rank[f] = i
  BY <1>7
<1> QED BY <1>8

\* A finite set of faces has a nearest one.
LEMMA NearestExists ==
  ASSUME NEW S \in SUBSET Faces, S # {}
  PROVE  \E f \in S : \A g \in S : g = f \/ Nearer(f, g)
<1>1. PICK x \in S : TRUE
  OBVIOUS
<1>2. 0 \in 0 .. Cardinality(S) - 1
  BY RankType, <1>1
<1>3. PICK f \in S : Rank(S, f) = 0
  BY <1>2, RankOnto
<1>4. ASSUME NEW g \in S, g # f PROVE Nearer(f, g)
  <2>1. ~(Rank(S, g) < Rank(S, f))
    BY <1>3, RankType
  <2> QED BY <1>4, <2>1, RankOrders, NearerOrders
<1> QED BY <1>4

\* The rows the query ranks: one face of each photo near enough, its nearest.
LEMMA NearRows ==
  ASSUME NEW faces \in SUBSET Faces, NEW reach \in Nat
  PROVE  /\ Near(faces, reach) \subseteq faces
         /\ \A f \in Near(faces, reach) : f.distance < reach
         /\ \A f, g \in Near(faces, reach) : f.asset = g.asset => f = g
         /\ \A f \in faces : f.distance < reach =>
              \E g \in Near(faces, reach) : g.asset = f.asset
         /\ \A f \in Near(faces, reach), g \in faces :
              f.asset = g.asset => f.distance <= g.distance
<1> DEFINE near == Near(faces, reach)
<1>1. near \subseteq faces /\ \A f \in near : f.distance < reach
  BY DEF Near, FirstRanks
<1>2. ASSUME NEW f \in near, NEW g \in faces, f.asset = g.asset
      PROVE  g = f \/ Nearer(f, g)
  BY <1>2 DEF Near, FirstRanks
<1>3. \A f, g \in near : f.asset = g.asset => f = g
  BY <1>1, <1>2, NearerOrders
<1>4. \A f \in near, g \in faces : f.asset = g.asset => f.distance <= g.distance
  BY <1>1, <1>2, NearerOrders, FaceType
<1>5. ASSUME NEW f \in faces, f.distance < reach
      PROVE  \E g \in near : g.asset = f.asset
  <2> DEFINE S == {g \in faces : g.asset = f.asset}
  <2>1. PICK g \in S : \A h \in S : h = g \/ Nearer(g, h)
    BY NearestExists
  <2>2. g.distance <= f.distance
    BY <2>1, NearerOrders, FaceType
  <2>3. g.distance < reach
    BY <1>5, <2>2, FaceType
  <2>4. g \in FirstRanks(faces)
    BY <2>1 DEF FirstRanks
  <2> QED BY <2>1, <2>3, <2>4 DEF Near
<1> QED BY <1>1, <1>3, <1>4, <1>5

\* Of the rows in order, the first ones: the i-th result is the photo of the
\* row that has i - 1 before it.
LEMMA MatchedRows ==
  ASSUME NEW faces \in SUBSET Faces, NEW reach \in Nat, NEW max \in Nat,
         NEW near, near = Near(faces, reach),
         NEW matched, matched = Matched(faces, reach, max)
  PROVE  /\ Cardinality(near) \in Nat
         /\ Len(matched) \in Nat /\ DOMAIN matched = 1 .. Len(matched)
         /\ Len(matched) = IF Cardinality(near) < max THEN Cardinality(near) ELSE max
         /\ \A i \in 1 .. Len(matched) :
              \E f \in near : Rank(near, f) = i - 1 /\ matched[i] = f.asset
<1> DEFINE n == IF Cardinality(near) < max THEN Cardinality(near) ELSE max
           at(i) == CHOOSE f \in near : Rank(near, f) = i - 1
<1>1. near \in SUBSET Faces
  BY NearRows
<1>2. Cardinality(near) \in Nat /\ n \in Nat /\ n <= Cardinality(near)
  BY <1>1, GuestAssumption, FS_Subset, FS_CardinalityType
<1>3. matched = [i \in 1..n |-> at(i).asset]
  BY DEF Matched
<1>4. Len(matched) = n /\ DOMAIN matched = 1..n
  BY <1>2, <1>3
<1>5. ASSUME NEW i \in 1..n
      PROVE  at(i) \in near /\ Rank(near, at(i)) = i - 1
  <2>1. i - 1 \in 0 .. Cardinality(near) - 1
    BY <1>2
  <2>2. \E f \in near : Rank(near, f) = i - 1
    BY <1>1, <2>1, RankOnto
  <2> QED BY <2>2
<1> QED BY <1>2, <1>3, <1>4, <1>5

\* The query of the match route, for any faces, sensitivity and limit: every
\* photo near enough unless the limit is full, each once and the nearest first,
\* none of them farther away than one that was left out.
THEOREM MatchedIsFair ==
  ASSUME NEW faces \in SUBSET Faces, NEW reach \in Nat, NEW max \in Nat
  PROVE  /\ IsFairMatch(Matched(faces, reach, max), faces, reach, max)
         /\ Matched(faces, reach, max) \in Seq(Photos)
         /\ Range(Matched(faces, reach, max)) \subseteq {f.asset : f \in faces}
<1> DEFINE near == Near(faces, reach)
           matched == Matched(faces, reach, max)
           found == Range(matched)
           noFarther(a, b) == \E f \in faces :
             f.asset = a /\ \A g \in faces : g.asset = b => f.distance <= g.distance
           nearby(a) == \E f \in faces : f.asset = a /\ f.distance < reach
           owed == {a \in {f.asset : f \in faces} : nearby(a)}
<1>0. near = Near(faces, reach) /\ matched = Matched(faces, reach, max)
  OBVIOUS
<1> HIDE DEF near, matched
<1>1. /\ Cardinality(near) \in Nat
      /\ Len(matched) \in Nat /\ DOMAIN matched = 1 .. Len(matched)
      /\ Len(matched) = IF Cardinality(near) < max THEN Cardinality(near) ELSE max
      /\ \A i \in 1 .. Len(matched) :
           \E f \in near : Rank(near, f) = i - 1 /\ matched[i] = f.asset
  BY <1>0, MatchedRows
<1>2. /\ near \in SUBSET Faces
      /\ near \subseteq faces
      /\ \A f \in near : f.distance < reach
      /\ \A f, g \in near : f.asset = g.asset => f = g
      /\ \A f \in faces : f.distance < reach => \E g \in near : g.asset = f.asset
      /\ \A f \in near, g \in faces : f.asset = g.asset => f.distance <= g.distance
  BY <1>0, NearRows
<1>3. ASSUME NEW f \in near, Rank(near, f) < Len(matched)
      PROVE  f.asset \in found
  <2>1. Rank(near, f) \in 0 .. Cardinality(near) - 1
    BY <1>2, RankType
  <2>2. PICK i \in 1 .. Len(matched) : Rank(near, f) = i - 1
    <3>1. Rank(near, f) + 1 \in 1 .. Len(matched)
      BY <1>1, <1>3, <2>1
    <3> QED BY <2>1, <3>1
  <2>3. PICK g \in near : Rank(near, g) = i - 1 /\ matched[i] = g.asset
    BY <1>1
  <2>4. f = g
    BY <1>2, <2>2, <2>3, RankOrders, NearerOrders
  <2> QED BY <1>1, <2>3, <2>4 DEF Range
<1>4. Cardinality(found) = Len(matched)
  <2> DEFINE place == [i \in 1 .. Len(matched) |-> matched[i]]
  <2>1. place \in [1 .. Len(matched) -> found]
    BY <1>1 DEF Range
  <2>2. ASSUME NEW i \in 1 .. Len(matched), NEW j \in 1 .. Len(matched),
               place[i] = place[j]
        PROVE  i = j
    <3>1. PICK f \in near : Rank(near, f) = i - 1 /\ matched[i] = f.asset
      BY <1>1
    <3>2. PICK g \in near : Rank(near, g) = j - 1 /\ matched[j] = g.asset
      BY <1>1
    <3>3. f = g
      BY <1>2, <2>2, <3>1, <3>2
    <3> QED BY <3>1, <3>2, <3>3
  <2>3. \A a \in found : \E i \in 1 .. Len(matched) : place[i] = a
    BY <1>1 DEF Range
  <2>4. place \in Bijection(1 .. Len(matched), found)
    BY <2>1, <2>2, <2>3, Fun_IsBij
  <2>5. ExistsBijection(1 .. Len(matched), found)
    BY <2>4 DEF ExistsBijection
  <2>6. IsFiniteSet(1 .. Len(matched)) /\ Cardinality(1 .. Len(matched)) = Len(matched)
    <3>1. 1 \in Int /\ Len(matched) \in Int
      BY <1>1
    <3>2. /\ IsFiniteSet(1 .. Len(matched))
          /\ Cardinality(1 .. Len(matched))
               = IF 1 > Len(matched) THEN 0 ELSE Len(matched) - 1 + 1
      BY <3>1, FS_Interval, Zenon
    <3> QED BY <1>1, <3>2
  <2> QED BY <2>5, <2>6, FS_Bijection
<1>5. \A i \in DOMAIN matched : matched[i] \in owed /\ matched[i] \in Photos
  <2> SUFFICES ASSUME NEW i \in 1 .. Len(matched)
               PROVE  matched[i] \in owed /\ matched[i] \in Photos
    BY <1>1
  <2>1. PICK f \in near : matched[i] = f.asset
    BY <1>1
  <2> QED BY <1>2, <2>1, FaceType
<1>6. Len(matched) < max => found = owed
  <2> SUFFICES ASSUME Len(matched) < max, NEW a \in owed PROVE a \in found
    BY <1>5 DEF Range
  <2>1. PICK f \in near : f.asset = a
    BY <1>2
  <2>2. Rank(near, f) < Len(matched)
    BY <1>1, <1>2, RankType
  <2> QED BY <1>3, <2>1, <2>2
<1>7. ASSUME NEW a \in found, NEW b \in owed \ found
      PROVE  noFarther(a, b)
  <2>1. PICK i \in 1 .. Len(matched) : a = matched[i]
    BY <1>1 DEF Range
  <2>2. PICK f \in near : Rank(near, f) = i - 1 /\ a = f.asset
    BY <1>1, <2>1
  <2>3. PICK h \in near : h.asset = b
    BY <1>2
  <2>4. ~(Rank(near, h) < Len(matched))
    BY <1>3, <1>7, <2>3
  <2>5. Rank(near, f) < Rank(near, h)
    BY <1>1, <1>2, <2>2, <2>4, RankType
  <2>6. f.distance <= h.distance
    BY <1>2, <2>5, RankOrders, NearerOrders
  <2>7. \A g \in faces : g.asset = b => f.distance <= g.distance
    BY <1>2, <2>3, <2>6, FaceType
  <2> QED BY <1>2, <2>2, <2>7
<1>8. Len(matched) <= max
  BY <1>1
<1>9. ASSUME NEW i \in DOMAIN matched, NEW j \in DOMAIN matched, i < j
      PROVE  noFarther(matched[i], matched[j])
  <2>1. PICK f \in near : Rank(near, f) = i - 1 /\ matched[i] = f.asset
    BY <1>1
  <2>2. PICK h \in near : Rank(near, h) = j - 1 /\ matched[j] = h.asset
    BY <1>1
  <2>3. Rank(near, f) < Rank(near, h)
    BY <1>1, <1>9, <2>1, <2>2
  <2>4. f.distance <= h.distance
    BY <1>2, <2>3, RankOrders, NearerOrders
  <2>5. \A g \in faces : g.asset = matched[j] => f.distance <= g.distance
    BY <1>2, <2>2, <2>4, FaceType
  <2> QED BY <1>2, <2>1, <2>5
<1>10. found \subseteq owed /\ owed \subseteq {f.asset : f \in faces}
  BY <1>5 DEF Range
<1>11. matched \in Seq(Photos)
  <2>1. matched \in [1 .. Len(matched) -> Photos]
    <3>1. matched = [i \in 1 .. Len(matched) |-> matched[i]]
      BY <1>0, <1>1 DEF Matched
    <3> QED BY <1>1, <1>5, <3>1
  <2> QED BY <1>1, <2>1 DEF Seq
<1>12. IsFairMatch(matched, faces, reach, max)
  BY <1>4, <1>6, <1>7, <1>8, <1>9, <1>10 DEF IsFairMatch
<1> QED
  BY <1>10, <1>11, <1>12 DEF matched

\* What is fair of some faces is fair of fewer, if all those of the photos found
\* are still among them.
LEMMA FairOfFewer ==
  ASSUME NEW matched, NEW faces, NEW fewer \in SUBSET faces, NEW reach, NEW max,
         IsFairMatch(matched, faces, reach, max),
         \A f \in faces : f.asset \in Range(matched) => f \in fewer
  PROVE  IsFairMatch(matched, fewer, reach, max)
<1> DEFINE found == Range(matched)
           owed(F) == {a \in {f.asset : f \in F} :
                         \E f \in F : f.asset = a /\ f.distance < reach}
           noFarther(F, a, b) == \E f \in F :
             f.asset = a /\ \A g \in F : g.asset = b => f.distance <= g.distance
<1>1. owed(fewer) \subseteq owed(faces) /\ found \subseteq owed(faces)
  BY DEF IsFairMatch
<1>2. found \subseteq owed(fewer)
  BY <1>1
<1>3. ASSUME NEW a \in found, NEW b, noFarther(faces, a, b)
      PROVE  noFarther(fewer, a, b)
  BY <1>3
<1>4. \A i \in DOMAIN matched : matched[i] \in found
  BY DEF Range
<1> QED BY <1>1, <1>2, <1>3, <1>4 DEF IsFairMatch

\* A set listed is a sequence of all of it.
LEMMA Listed ==
  ASSUME NEW S \in SUBSET Photos
  PROVE  SetToSeq(S) \in Seq(Photos) /\ Range(SetToSeq(S)) = S
<1> DEFINE n == Cardinality(S)
           list == SetToSeq(S)
<1>1. n \in Nat /\ ExistsBijection(1..n, S)
  BY Constants, FS_Subset, FS_CardinalityType
<1>2. PICK f \in [1..n -> S] : IsInjective(f)
  BY <1>1 DEF ExistsBijection, Bijection, Injection, IsInjective
<1>3. list \in [1..n -> S] /\ IsInjective(list)
  BY <1>2 DEF SetToSeq
<1> HIDE DEF list
<1>4. list \in Injection(1..n, S)
  BY <1>3, Fun_IsInj DEF IsInjective
<1>5. IsFiniteSet(1..n) /\ Cardinality(1..n) = n
  <2>1. 1 \in Int /\ n \in Int
    BY <1>1
  <2>2. /\ IsFiniteSet(1 .. n)
        /\ Cardinality(1 .. n) = IF 1 > n THEN 0 ELSE n - 1 + 1
    BY <2>1, FS_Interval, Zenon
  <2> QED BY <1>1, <2>2
<1>6. list \in Surjection(1..n, S)
  <2>1. IsFiniteSet(S)
    BY Constants, FS_Subset
  <2> HIDE DEF n
  <2> QED BY <1>4, <1>5, <2>1, FS_Injection DEF n
<1>7. Range(list) = S
  BY <1>3, <1>6 DEF Surjection, Range
<1>8. list \in Seq(Photos)
  BY <1>1, <1>3 DEF Seq
<1> QED BY <1>7, <1>8 DEF list

-----------------------------------------------------------------------------
(***************************************************************************)
(* Types.                                                                  *)
(***************************************************************************)
Steps == {"sent", "embedding", "matched", "logged", "refused"}

\* Admitted, and not in the log yet.
Waiting == {"embedding", "matched"}

SearchType == SearchOf(Views)

ShownType == SearchOf(Views \cup {0})

ViewStates ==
  {"new", "asking", "starting", "ready", "left asking", "left starting", "over",
   "leaked"}

LEMMA TypeParts ==
  TypeOK <=>
    /\ link \in {"open", "paused", "rotated"}
    /\ embedded \subseteq photos /\ photos \subseteq Photos
    /\ purgedAt \in BOOLEAN /\ threshold \in Thresholds
    /\ clock \in 0..MaxClock /\ log \in Seq(0..MaxClock)
    /\ others \in [Others -> BOOLEAN]
    /\ owner \in 0..MaxOwner
    /\ stage \in Gallery \cup {"away", "closed", "purged"}
    /\ error \in BOOLEAN /\ consent \in BOOLEAN /\ storage \in BOOLEAN
    /\ remembered \in BOOLEAN /\ ambushed \in BOOLEAN
    /\ selfie \in Views \cup {0}
    /\ views \in [Views -> ViewStates]
    /\ search \subseteq SearchType
    /\ shown \in ShownType
    /\ invite \in {"waiting", "open", "closed"}
BY DEF TypeOK, SearchType, ShownType, ViewStates

\* A search before its first answer.
LEMMA NewSearchType ==
  ASSUME NEW V, NEW v \in V, NEW c \in BOOLEAN
  PROVE  NewSearch(v, c) \in SearchOf(V) /\ NewSearch(v, c).step = "sent"
         /\ NewSearch(v, c).selfie = v
<1>1. <<>> \in Seq(Photos)
  OBVIOUS
<1> QED BY <1>1 DEF NewSearch, SearchOf

LEMMA NothingType ==
  Nothing \in ShownType /\ Nothing.step = "sent"
BY NewSearchType DEF Nothing, ShownType

\* What the server writes into a search; it stays the search of the same selfie.
AdmittedAs(s) ==
  [s EXCEPT !.step = "embedding", !.at = threshold, !.stored = photos, !.searchable = embedded]
MatchedAs(s) ==
  [s EXCEPT !.step = "matched", !.matching = TRUE, !.found = Matched(FacesNow, s.at, MaxResults)]
LoggedAs(s) ==
  [s EXCEPT !.step = "logged", !.found = IF s.matching THEN s.found ELSE SetToSeq(photos)]
At(s, x) == [s EXCEPT !.step = x]

\* A search with one field written is a search, and its other fields stay.
LEMMA FieldWritten ==
  ASSUME NEW s \in SearchType
  PROVE  /\ \A x \in Steps : LET n == [s EXCEPT !.step = x]
              IN  /\ n \in SearchType /\ n.step = x
                  /\ n.selfie = s.selfie /\ n.at = s.at /\ n.matching = s.matching
                  /\ n.found = s.found /\ n.stored = s.stored /\ n.searchable = s.searchable
         /\ \A x \in Nat : LET n == [s EXCEPT !.at = x]
              IN  /\ n \in SearchType /\ n.at = x
                  /\ n.step = s.step /\ n.selfie = s.selfie /\ n.matching = s.matching
                  /\ n.found = s.found /\ n.stored = s.stored /\ n.searchable = s.searchable
         /\ \A x \in BOOLEAN : LET n == [s EXCEPT !.matching = x]
              IN  /\ n \in SearchType /\ n.matching = x
                  /\ n.step = s.step /\ n.selfie = s.selfie /\ n.at = s.at
                  /\ n.found = s.found /\ n.stored = s.stored /\ n.searchable = s.searchable
         /\ \A x \in Seq(Photos) : LET n == [s EXCEPT !.found = x]
              IN  /\ n \in SearchType /\ n.found = x
                  /\ n.step = s.step /\ n.selfie = s.selfie /\ n.at = s.at
                  /\ n.matching = s.matching /\ n.stored = s.stored /\ n.searchable = s.searchable
         /\ \A x \in SUBSET Photos : LET n == [s EXCEPT !.stored = x]
              IN  /\ n \in SearchType /\ n.stored = x
                  /\ n.step = s.step /\ n.selfie = s.selfie /\ n.at = s.at
                  /\ n.matching = s.matching /\ n.found = s.found /\ n.searchable = s.searchable
         /\ \A x \in SUBSET Photos : LET n == [s EXCEPT !.searchable = x]
              IN  /\ n \in SearchType /\ n.searchable = x
                  /\ n.step = s.step /\ n.selfie = s.selfie /\ n.at = s.at
                  /\ n.matching = s.matching /\ n.found = s.found /\ n.stored = s.stored
<1> USE DEF SearchType, SearchOf, Steps
<1>1. ASSUME NEW x \in Steps
      PROVE  LET n == [s EXCEPT !.step = x]
             IN  /\ n \in SearchType /\ n.step = x
                 /\ n.selfie = s.selfie /\ n.at = s.at /\ n.matching = s.matching
                 /\ n.found = s.found /\ n.stored = s.stored /\ n.searchable = s.searchable
  OBVIOUS
<1>2. ASSUME NEW x \in Nat
      PROVE  LET n == [s EXCEPT !.at = x]
             IN  /\ n \in SearchType /\ n.at = x
                 /\ n.step = s.step /\ n.selfie = s.selfie /\ n.matching = s.matching
                 /\ n.found = s.found /\ n.stored = s.stored /\ n.searchable = s.searchable
  OBVIOUS
<1>3. ASSUME NEW x \in BOOLEAN
      PROVE  LET n == [s EXCEPT !.matching = x]
             IN  /\ n \in SearchType /\ n.matching = x
                 /\ n.step = s.step /\ n.selfie = s.selfie /\ n.at = s.at
                 /\ n.found = s.found /\ n.stored = s.stored /\ n.searchable = s.searchable
  OBVIOUS
<1>4. ASSUME NEW x \in Seq(Photos)
      PROVE  LET n == [s EXCEPT !.found = x]
             IN  /\ n \in SearchType /\ n.found = x
                 /\ n.step = s.step /\ n.selfie = s.selfie /\ n.at = s.at
                 /\ n.matching = s.matching /\ n.stored = s.stored /\ n.searchable = s.searchable
  OBVIOUS
<1>5. ASSUME NEW x \in SUBSET Photos
      PROVE  LET n == [s EXCEPT !.stored = x]
             IN  /\ n \in SearchType /\ n.stored = x
                 /\ n.step = s.step /\ n.selfie = s.selfie /\ n.at = s.at
                 /\ n.matching = s.matching /\ n.found = s.found /\ n.searchable = s.searchable
  OBVIOUS
<1>6. ASSUME NEW x \in SUBSET Photos
      PROVE  LET n == [s EXCEPT !.searchable = x]
             IN  /\ n \in SearchType /\ n.searchable = x
                 /\ n.step = s.step /\ n.selfie = s.selfie /\ n.at = s.at
                 /\ n.matching = s.matching /\ n.found = s.found /\ n.stored = s.stored
  OBVIOUS
<1> QED BY <1>1, <1>2, <1>3, <1>4, <1>5, <1>6

LEMMA SearchTyped ==
  ASSUME TypeOK, NEW s \in search
  PROVE  /\ s \in SearchType /\ s.at \in Nat /\ s.found \in Seq(Photos)
         /\ s.selfie \in Views /\ s.matching \in BOOLEAN /\ s.step \in Steps
         /\ threshold \in Nat /\ photos \in SUBSET Photos /\ embedded \in SUBSET Photos
         /\ FacesNow \in SUBSET Faces /\ MaxResults \in Nat
<1>1. s \in SearchType
  BY TypeParts
<1>2. /\ s.at \in Nat /\ s.found \in Seq(Photos) /\ s.selfie \in Views
      /\ s.matching \in BOOLEAN /\ s.step \in Steps
  BY <1>1 DEF SearchType, SearchOf, Steps
<1>3. threshold \in Nat /\ photos \in SUBSET Photos /\ embedded \in SUBSET Photos
  BY TypeParts, Constants
<1>4. FacesNow \in SUBSET Faces
  BY DEF FacesNow
<1>5. MaxResults \in Nat
  BY GuestAssumption
<1> QED BY <1>1, <1>2, <1>3, <1>4, <1>5

LEMMA WrittenAdmitted ==
  ASSUME TypeOK, NEW s \in search
  PROVE  /\ AdmittedAs(s) \in SearchType /\ AdmittedAs(s).step = "embedding"
         /\ AdmittedAs(s).selfie = s.selfie /\ AdmittedAs(s).matching = s.matching
         /\ AdmittedAs(s).stored = photos /\ AdmittedAs(s).searchable = embedded
<1> DEFINE a == [s EXCEPT !.step = "embedding"]
           b == [a EXCEPT !.at = threshold]
           c == [b EXCEPT !.stored = photos]
           d == [c EXCEPT !.searchable = embedded]
<1>a. s \in SearchType /\ "embedding" \in Steps
  BY SearchTyped DEF Steps
<1>b. threshold \in Nat /\ photos \in SUBSET Photos /\ embedded \in SUBSET Photos
  BY SearchTyped
<1>0. d = AdmittedAs(s)
  BY DEF AdmittedAs
<1>1. /\ a \in SearchType /\ a.step = "embedding" /\ a.selfie = s.selfie
      /\ a.matching = s.matching
  BY <1>a, FieldWritten
<1> HIDE DEF a
<1>2. /\ b \in SearchType /\ b.step = "embedding" /\ b.selfie = s.selfie
      /\ b.matching = s.matching
  BY <1>1, <1>b, FieldWritten
<1> HIDE DEF b
<1>3. /\ c \in SearchType /\ c.step = "embedding" /\ c.selfie = s.selfie
      /\ c.matching = s.matching /\ c.stored = photos
  <2>1. \A x \in SUBSET Photos : LET n == [b EXCEPT !.stored = x]
          IN  /\ n \in SearchType /\ n.stored = x /\ n.step = b.step
              /\ n.selfie = b.selfie /\ n.matching = b.matching
    BY <1>2, FieldWritten
  <2> QED BY <1>2, <1>b, <2>1
<1> HIDE DEF c
<1>4. /\ d \in SearchType /\ d.step = "embedding" /\ d.selfie = s.selfie
      /\ d.matching = s.matching /\ d.stored = photos /\ d.searchable = embedded
  BY <1>3, <1>b, FieldWritten
<1> HIDE DEF d
<1> QED BY <1>0, <1>4

LEMMA WrittenMatched ==
  ASSUME TypeOK, NEW s \in search
  PROVE  /\ MatchedAs(s) \in SearchType /\ MatchedAs(s).step = "matched"
         /\ MatchedAs(s).selfie = s.selfie /\ MatchedAs(s).matching
         /\ MatchedAs(s).found = Matched(FacesNow, s.at, MaxResults)
         /\ MatchedAs(s).at = s.at
         /\ MatchedAs(s).stored = s.stored /\ MatchedAs(s).searchable = s.searchable
<1> DEFINE m == Matched(FacesNow, s.at, MaxResults)
           a == [s EXCEPT !.step = "matched"]
           b == [a EXCEPT !.matching = TRUE]
           c == [b EXCEPT !.found = m]
<1>a. s \in SearchType /\ "matched" \in Steps
  BY SearchTyped DEF Steps
<1>b. threshold \in Nat /\ photos \in SUBSET Photos /\ embedded \in SUBSET Photos
  BY SearchTyped
<1>0. c = MatchedAs(s)
  BY DEF MatchedAs
<1>1. m \in Seq(Photos)
  BY SearchTyped, MatchedIsFair
<1> HIDE DEF m
<1>2. /\ a \in SearchType /\ a.step = "matched" /\ a.selfie = s.selfie /\ a.at = s.at
      /\ a.stored = s.stored /\ a.searchable = s.searchable
  BY <1>a, FieldWritten
<1> HIDE DEF a
<1>3. /\ b \in SearchType /\ b.step = "matched" /\ b.selfie = s.selfie /\ b.at = s.at
      /\ b.stored = s.stored /\ b.searchable = s.searchable /\ b.matching
  BY <1>2, FieldWritten
<1> HIDE DEF b
<1>4. /\ c \in SearchType /\ c.step = "matched" /\ c.selfie = s.selfie /\ c.at = s.at
      /\ c.stored = s.stored /\ c.searchable = s.searchable /\ c.matching /\ c.found = m
  BY <1>1, <1>3, FieldWritten
<1> HIDE DEF c
<1> QED BY <1>0, <1>4 DEF m

LEMMA WrittenLogged ==
  ASSUME TypeOK, NEW s \in search
  PROVE  /\ LoggedAs(s) \in SearchType /\ LoggedAs(s).step = "logged"
         /\ LoggedAs(s).selfie = s.selfie /\ LoggedAs(s).matching = s.matching
         /\ LoggedAs(s).found = (IF s.matching THEN s.found ELSE SetToSeq(photos))
         /\ LoggedAs(s).at = s.at
         /\ LoggedAs(s).stored = s.stored /\ LoggedAs(s).searchable = s.searchable
<1> DEFINE m == IF s.matching THEN s.found ELSE SetToSeq(photos)
           a == [s EXCEPT !.step = "logged"]
           b == [a EXCEPT !.found = m]
<1>a. s \in SearchType /\ "logged" \in Steps
  BY SearchTyped DEF Steps
<1>b. threshold \in Nat /\ photos \in SUBSET Photos /\ embedded \in SUBSET Photos
  BY SearchTyped
<1>0. b = LoggedAs(s)
  BY DEF LoggedAs
<1>1. m \in Seq(Photos)
  BY SearchTyped, Listed
<1> HIDE DEF m
<1>2. /\ a \in SearchType /\ a.step = "logged" /\ a.selfie = s.selfie /\ a.at = s.at
      /\ a.stored = s.stored /\ a.searchable = s.searchable /\ a.matching = s.matching
  BY <1>a, FieldWritten
<1> HIDE DEF a
<1>3. /\ b \in SearchType /\ b.step = "logged" /\ b.selfie = s.selfie /\ b.at = s.at
      /\ b.stored = s.stored /\ b.searchable = s.searchable /\ b.matching = s.matching
      /\ b.found = m
  BY <1>1, <1>2, FieldWritten
<1> HIDE DEF b
<1> QED BY <1>0, <1>3 DEF m

LEMMA WrittenAt ==
  ASSUME TypeOK, NEW s \in search, NEW x \in Steps
  PROVE  /\ At(s, x) \in SearchType /\ At(s, x).step = x /\ At(s, x).selfie = s.selfie
         /\ At(s, x).matching = s.matching /\ At(s, x).found = s.found
         /\ At(s, x).at = s.at /\ At(s, x).stored = s.stored
         /\ At(s, x).searchable = s.searchable
BY SearchTyped, FieldWritten DEF At

\* Each of the server's steps writes one of these.
LEMMA ServedAs ==
  ASSUME TypeOK, NEW s \in search, Admit(s) \/ Refuse(s) \/ Match(s) \/ Log(s)
  PROVE  \E new \in SearchType :
           /\ search' = (search \ {s}) \cup {new}
           /\ new.selfie = s.selfie
           /\ \/ Admit(s) /\ new.step = "embedding"
                 /\ new.matching = s.matching /\ new.stored = photos /\ new.searchable = embedded
              \/ Refuse(s) /\ ~Log(s) /\ new.step = "refused"
              \/ /\ Match(s) /\ new.step = "matched" /\ new.matching
                 /\ new.found = Matched(FacesNow, s.at, MaxResults) /\ new.at = s.at
                 /\ new.stored = s.stored /\ new.searchable = s.searchable
              \/ /\ Match(s) /\ new.step = "matched"
                 /\ new.matching = s.matching /\ new.found = s.found /\ new.at = s.at
                 /\ new.stored = s.stored /\ new.searchable = s.searchable
              \/ /\ Log(s) /\ new.step = "logged"
                 /\ new.found = (IF s.matching THEN s.found ELSE SetToSeq(photos))
                 /\ new.matching = s.matching /\ new.at = s.at
                 /\ new.stored = s.stored /\ new.searchable = s.searchable
<1> USE DEF Goes
<1>1. CASE Admit(s)
  <2>1. search' = (search \ {s}) \cup {AdmittedAs(s)}
    BY <1>1 DEF Admit, AdmittedAs
  <2> QED BY <1>1, <2>1, WrittenAdmitted
<1>2. CASE Match(s)
  <2>1. \/ search' = (search \ {s}) \cup {MatchedAs(s)}
        \/ search' = (search \ {s}) \cup {At(s, "matched")}
    BY <1>2 DEF Match, MatchedAs, At
  <2>2. "matched" \in Steps
    BY DEF Steps
  <2> QED BY <1>2, <2>1, <2>2, WrittenMatched, WrittenAt
<1>3. CASE Log(s)
  <2>1. search' = (search \ {s}) \cup {LoggedAs(s)}
    BY <1>3 DEF Log, LoggedAs
  <2> QED BY <1>3, <2>1, WrittenLogged
<1>4. CASE Refuse(s) /\ ~Log(s)
  <2>1. search' = (search \ {s}) \cup {At(s, "refused")}
    BY <1>4 DEF Refuse, At
  <2>2. "refused" \in Steps
    BY DEF Steps
  <2> QED BY <1>4, <2>1, <2>2, WrittenAt
<1> QED BY <1>1, <1>2, <1>3, <1>4

\* What the proofs about the screen and the rate need of it.
LEMMA ServedSearch ==
  ASSUME TypeOK, NEW s \in search, Admit(s) \/ Refuse(s) \/ Match(s) \/ Log(s)
  PROVE  \E new \in SearchType :
           /\ search' = (search \ {s}) \cup {new}
           /\ new.selfie = s.selfie
           /\ Log(s) => new.step = "logged"
           /\ ~Admit(s) /\ new.step \in Waiting => s.step \in Waiting
<1>1. PICK new \in SearchType :
           /\ search' = (search \ {s}) \cup {new}
           /\ new.selfie = s.selfie
           /\ \/ Admit(s) /\ new.step = "embedding"
              \/ Refuse(s) /\ ~Log(s) /\ new.step = "refused"
              \/ Match(s) /\ new.step = "matched"
              \/ Log(s) /\ new.step = "logged"
  BY ServedAs
<1>2. /\ Match(s) => s.step = "embedding"
      /\ Log(s) => s.step = "matched"
      /\ Admit(s) => s.step = "sent"
  BY DEF Match, Log, Admit
<1> QED BY <1>1, <1>2 DEF Waiting

\* The cleanup of the view leaves none mounted.
LEMMA UnmountedViews ==
  ASSUME TypeOK
  PROVE  /\ Unmounted \in [Views -> ViewStates]
         /\ \A v \in Views : /\ Unmounted[v] \notin {"asking", "starting", "ready"}
                             /\ views[v] # "leaked" => Unmounted[v] # "leaked"
BY TypeParts DEF Unmounted, ViewStates

LEMMA LogType ==
  ASSUME TypeOK, AddToLog
  PROVE  log' \in Seq(0..MaxClock)
<1>1. log \in Seq(0..MaxClock) /\ clock \in 0..MaxClock
  BY TypeParts
<1>2. Append(log, clock) \in Seq(0..MaxClock)
  BY <1>1, AppendProperties
<1> QED BY <1>1, <1>2 DEF AddToLog

LEMMA TypeStep == TypeOK /\ [Next]_vars => TypeOK'
<1> SUFFICES ASSUME TypeOK, [Next]_vars PROVE TypeOK'
  OBVIOUS
<1> USE DEF event, limit, camera, sheet, screen
<1>1. CASE UNCHANGED vars
  BY <1>1 DEF vars, TypeOK
<1>2. CASE Enter
  BY <1>2 DEF Enter, TypeOK, Gallery
<1>3. CASE Leave
  BY <1>3, NothingType DEF Leave, Remember, TypeOK, Gallery, ShownType
<1>4. CASE Start \/ Retake
  <2>1. /\ views' \in [Views -> ViewStates] /\ stage' = "camera"
        /\ selfie' \in {0, selfie} /\ error' \in {error, FALSE}
        /\ shown' \in {shown, Nothing}
    BY <1>4 DEF Start, Retake, MountCamera, TypeOK, ViewStates
  <2>2. /\ shown' \in ShownType
        /\ error' \in BOOLEAN /\ selfie' \in Views \cup {0} /\ stage' \in Gallery
    BY <2>1, NothingType, TypeParts DEF Gallery
  <2>3. UNCHANGED <<event, limit, consent, ambushed, search, sheet>>
    BY <1>4 DEF Start, Retake
  <2> QED BY <2>1, <2>2, <2>3 DEF TypeOK, ViewStates, ShownType
<1>5. CASE Cancel \/ \E v \in Views : Snap(v)
  BY <1>5, UnmountedViews DEF Cancel, Snap, TypeOK, ViewStates, Gallery
<1>6. CASE ToggleConsent \/ StartOver \/ Dismiss
  <2>1. /\ consent' \in {consent, ~consent} /\ error' \in {error, FALSE}
        /\ stage' \in {stage, "intro"} /\ selfie' \in {selfie, 0}
        /\ shown' \in {shown, Nothing}
    BY <1>6 DEF ToggleConsent, StartOver, Dismiss
  <2>2. UNCHANGED <<event, limit, camera, search, sheet>>
    BY <1>6 DEF ToggleConsent, StartOver, Dismiss
  <2>3. /\ shown' \in ShownType
        /\ error' \in BOOLEAN /\ selfie' \in Views \cup {0} /\ consent' \in BOOLEAN
        /\ stage' \in Gallery \cup {"away", "closed", "purged"}
    BY <2>1, NothingType, TypeParts DEF Gallery
  <2> QED BY <2>2, <2>3 DEF TypeOK, ShownType
<1>7. CASE Confirm
  <2>1. Sent \in SearchType
    <3>1. selfie \in Views /\ consent \in BOOLEAN
      BY <1>7, TypeParts DEF Confirm
    <3> QED BY <3>1, NewSearchType DEF Sent, SearchType
  <2>2. search' \subseteq SearchType
    BY <1>7, <2>1, TypeParts DEF Confirm
  <2> QED BY <1>7, <2>2 DEF Confirm, TypeOK, SearchType, Gallery
<1>8. ASSUME NEW v \in Views, CameraGranted(v) \/ CameraPlays(v)
      PROVE  TypeOK'
  BY <1>8 DEF CameraGranted, CameraPlays, TypeOK
<1>9. ASSUME NEW v \in Views, CameraFails(v)
      PROVE  TypeOK'
  BY <1>9, UnmountedViews DEF CameraFails, TypeOK, ViewStates, Gallery
<1>10. ASSUME NEW s \in search, Admit(s) \/ Refuse(s) \/ Match(s)
       PROVE  TypeOK'
  <2>1. search' \subseteq SearchType
    BY <1>10, ServedSearch, TypeParts
  <2> QED BY <1>10, <2>1 DEF Admit, Refuse, Match, TypeOK, SearchType
<1>11. ASSUME NEW s \in search, Log(s)
       PROVE  TypeOK'
  <2>1. search' \subseteq SearchType
    BY <1>11, ServedSearch, TypeParts
  <2>2. log' \in Seq(0..MaxClock)
    BY <1>11, LogType DEF Log
  <2> QED BY <1>11, <2>1, <2>2 DEF Log, TypeOK, SearchType
<1>12. ASSUME NEW s \in search, Answered(s) \/ SearchFails(s)
       PROVE  TypeOK'
  <2>1. views' \in [Views -> ViewStates] /\ search' \subseteq search
    BY <1>12, UnmountedViews DEF Answered, SearchFails
  <2>2. shown' \in ShownType
    <3>1. s \in SearchType /\ shown \in ShownType
      BY TypeParts
    <3>2. SearchType \subseteq ShownType
      BY DEF SearchType, ShownType, SearchOf
    <3> QED BY <1>12, <3>1, <3>2 DEF Answered, SearchFails
  <2> QED
    BY <1>12, <2>1, <2>2 DEF Answered, SearchFails, TypeOK, ViewStates, Gallery, ShownType, SearchType
<1>13. ASSUME NEW o \in Others, OtherAdmitted(o)
       PROVE  TypeOK'
  BY <1>13 DEF OtherAdmitted, TypeOK
<1>14. ASSUME NEW o \in Others, OtherLogged(o)
       PROVE  TypeOK'
  BY <1>14, LogType DEF OtherLogged, TypeOK
<1>15. CASE InviteTimer \/ InviteClose
  BY <1>15 DEF InviteTimer, InviteClose, Remember, TypeOK
<1>16. CASE Tick
  <2>1. clock' \in 0..MaxClock
    BY <1>16, TypeParts, Constants DEF Tick
  <2> QED BY <1>16, <2>1 DEF Tick, TypeOK
<1>17. CASE Event
  <2>1. /\ link' \in {"open", "paused", "rotated"}
        /\ embedded' \subseteq photos' /\ photos' \subseteq Photos
        /\ purgedAt' \in BOOLEAN /\ threshold' \in Thresholds
    BY <1>17
    DEF Event, OwnerChangesLink, OwnerSetsThreshold, OwnerDeletes, Purge, Embed, TypeOK
  <2>2. owner' = owner \/ (owner < MaxOwner /\ owner' = owner + 1)
    BY <1>17
    DEF Event, OwnerChangesLink, OwnerSetsThreshold, OwnerDeletes, Purge, Embed, Owner
  <2>3. owner' \in 0..MaxOwner
    BY <2>2, TypeParts, Constants
  <2> QED BY <1>17, <2>1, <2>3 DEF Event, TypeOK
<1> QED
  BY <1>1, <1>2, <1>3, <1>4, <1>5, <1>6, <1>7, <1>8, <1>9, <1>10, <1>11, <1>12,
     <1>13, <1>14, <1>15, <1>16, <1>17
  DEF Next, Serve

\* Everything the page, the searches and the log can hold is of its type: in
\* particular the photos a search finds are the event's, and a photo deleted
\* by its owner or by the purge leaves no faces behind to be found by.
THEOREM GuestTypeCorrect == Spec => []TypeOK
<1>1. Init => TypeOK
  <2> SUFFICES ASSUME Init PROVE TypeOK
    OBVIOUS
  <2>1. /\ clock \in 0..MaxClock /\ log \in Seq(0..MaxClock) /\ owner \in 0..MaxOwner
    BY Constants DEF Init
  <2>2. /\ shown \in ShownType
        /\ others \in [Others -> BOOLEAN] /\ views \in [Views -> ViewStates]
    BY NothingType DEF Init, ViewStates
  <2> QED BY <2>1, <2>2, TypeParts DEF Init, Gallery
<1> QED BY <1>1, TypeStep, PTL DEF Spec

-----------------------------------------------------------------------------
(***************************************************************************)
(* The answers.  While a search runs photos only go, and their faces go    *)
(* with them; so what was searchable when it was let in and still is, was  *)
(* searchable when it matched.                                             *)
(***************************************************************************)
Running == {"embedding", "matched", "logged"}

\* What has not been deleted since the search was let in is as it was then.
Remembers(s) ==
  s.step \in Running =>
    /\ photos \subseteq s.stored
    /\ s.searchable \cap photos \subseteq embedded

Unmatched(s) == s.step \in {"sent", "embedding"} => ~s.matching

IsFair(s) ==
  s.step \in {"matched", "logged"} =>
    IF s.matching
    THEN /\ Range(s.found) \subseteq s.stored
         /\ IsFairMatch(s.found, FacesThroughout(s), s.at, MaxResults)
    ELSE s.step = "logged" => photos \subseteq Range(s.found)

AnswerInv ==
  \A s \in search \cup {shown} : Remembers(s) /\ Unmatched(s) /\ IsFair(s)

\* Photos only go; a photo that stays keeps its faces, and only a photo that is
\* there gets some.
LEMMA EventStep ==
  ASSUME TypeOK, Event
  PROVE  /\ photos' \subseteq photos /\ embedded' \subseteq photos
         /\ embedded \cap photos' \subseteq embedded'
         /\ UNCHANGED <<search, shown>>
<1>1. embedded \subseteq photos
  BY TypeParts
<1> QED
  BY <1>1 DEF Event, OwnerChangesLink, OwnerSetsThreshold, OwnerDeletes, Purge, Embed

\* That does not make an answer unfair.
LEMMA FairStays ==
  ASSUME TypeOK, NEW s, Remembers(s), IsFair(s),
         photos' \subseteq photos, embedded' \subseteq photos,
         embedded \cap photos' \subseteq embedded'
  PROVE  Remembers(s)' /\ IsFair(s)'
<1>1. Remembers(s)'
  BY DEF Remembers
<1>2. CASE s.step \in {"matched", "logged"} /\ s.matching
  <2>1. s.searchable \cap embedded' \subseteq s.searchable \cap embedded
    BY <1>2 DEF Remembers, Running
  <2>2. FacesThroughout(s)' \subseteq FacesThroughout(s)
    BY <2>1 DEF FacesThroughout
  <2>3. \A f \in FacesThroughout(s) : f.asset \in Range(s.found) => f \in FacesThroughout(s)'
    BY DEF FacesThroughout
  <2>4. IsFairMatch(s.found, FacesThroughout(s), s.at, MaxResults)
    BY <1>2 DEF IsFair
  <2> DEFINE fewer == FacesThroughout(s)'
  <2>5. fewer \in SUBSET FacesThroughout(s)
        /\ \A f \in FacesThroughout(s) : f.asset \in Range(s.found) => f \in fewer
    BY <2>2, <2>3
  <2> HIDE DEF fewer
  <2>6. IsFairMatch(s.found, fewer, s.at, MaxResults)
    BY <2>4, <2>5, FairOfFewer
  <2> QED BY <1>1, <1>2, <2>6 DEF IsFair, fewer
<1>3. CASE ~(s.step \in {"matched", "logged"} /\ s.matching)
  BY <1>1, <1>3 DEF IsFair
<1> QED BY <1>2, <1>3

\* The query's answer is fair of the faces of the moment, so of those that were
\* there all along.
LEMMA MatchIsFair ==
  ASSUME TypeOK, NEW s \in search, s.step = "embedding", Remembers(s),
         NEW new \in SearchType, new.found = Matched(FacesNow, s.at, MaxResults),
         new.at = s.at, new.stored = s.stored, new.searchable = s.searchable,
         new.matching
  PROVE  IsFair(new)
<1> DEFINE matched == Matched(FacesNow, s.at, MaxResults)
           all == FacesNow
           some == FacesThroughout(new)
<1>1. /\ IsFairMatch(matched, all, s.at, MaxResults)
      /\ Range(matched) \subseteq {f.asset : f \in all}
  BY SearchTyped, MatchedIsFair
<1>2. Range(matched) \subseteq embedded
  BY <1>1 DEF FacesNow
<1>3. some \in SUBSET all /\ \A f \in all : f.asset \in Range(matched) => f \in some
  BY <1>2 DEF FacesThroughout, FacesNow
<1>4. IsFairMatch(matched, some, s.at, MaxResults)
  BY <1>1, <1>3, FairOfFewer
<1>5. Range(matched) \subseteq s.stored
  BY <1>2, TypeParts DEF Remembers, Running
<1> QED BY <1>4, <1>5 DEF IsFair

\* An answer the server writes is fair, and remembers what it found.
LEMMA ServedFair ==
  ASSUME TypeOK, AnswerInv, NEW s \in search,
         Admit(s) \/ Refuse(s) \/ Match(s) \/ Log(s)
  PROVE  AnswerInv'
<1>1. PICK new \in SearchType :
           /\ search' = (search \ {s}) \cup {new}
           /\ \/ /\ Admit(s) /\ new.step = "embedding" /\ new.matching = s.matching
                 /\ new.stored = photos /\ new.searchable = embedded
              \/ new.step = "refused"
              \/ /\ Match(s) /\ new.step = "matched" /\ new.matching
                 /\ new.found = Matched(FacesNow, s.at, MaxResults) /\ new.at = s.at
                 /\ new.stored = s.stored /\ new.searchable = s.searchable
              \/ /\ Match(s) /\ new.step = "matched"
                 /\ new.matching = s.matching /\ new.found = s.found /\ new.at = s.at
                 /\ new.stored = s.stored /\ new.searchable = s.searchable
              \/ /\ Log(s) /\ new.step = "logged"
                 /\ new.found = (IF s.matching THEN s.found ELSE SetToSeq(photos))
                 /\ new.matching = s.matching /\ new.at = s.at
                 /\ new.stored = s.stored /\ new.searchable = s.searchable
  BY ServedAs
<1>2. UNCHANGED <<photos, embedded, shown>>
  BY DEF Admit, Refuse, Match, Log, event
<1>3. /\ Match(s) => s.step = "embedding"
      /\ Log(s) => s.step = "matched"
      /\ Admit(s) => s.step = "sent"
      /\ Remembers(s) /\ Unmatched(s) /\ IsFair(s)
  BY DEF Match, Log, Admit, AnswerInv
<1>4. Remembers(new) /\ Unmatched(new)
  BY <1>1, <1>3 DEF Remembers, Unmatched, Running
<1>5. IsFair(new)
  <2>1. CASE /\ Match(s) /\ new.matching
             /\ new.found = Matched(FacesNow, s.at, MaxResults) /\ new.at = s.at
             /\ new.stored = s.stored /\ new.searchable = s.searchable
    BY <1>3, <2>1, MatchIsFair
  <2>2. CASE Match(s) /\ new.step = "matched" /\ new.matching = s.matching
    BY <1>3, <2>2 DEF Unmatched, IsFair
  <2>3. CASE /\ Log(s) /\ new.step = "logged"
             /\ new.found = (IF s.matching THEN s.found ELSE SetToSeq(photos))
             /\ new.matching = s.matching /\ new.at = s.at
             /\ new.stored = s.stored /\ new.searchable = s.searchable
    <3>1. CASE s.matching
      BY <1>3, <2>3, <3>1 DEF IsFair, FacesThroughout
    <3>2. CASE ~s.matching
      BY <2>3, <3>2, SearchTyped, Listed DEF IsFair
    <3> QED BY <3>1, <3>2
  <2>4. CASE new.step \in {"embedding", "refused"}
    BY <2>4 DEF IsFair
  <2> QED BY <1>1, <2>1, <2>2, <2>3, <2>4
<1>6. Remembers(new)' /\ Unmatched(new)' /\ IsFair(new)'
  BY <1>2, <1>4, <1>5 DEF Remembers, Unmatched, IsFair, FacesThroughout
<1>7. \A a \in (search \ {s}) \cup {shown} : Remembers(a)' /\ Unmatched(a)' /\ IsFair(a)'
  BY <1>2 DEF AnswerInv, Remembers, Unmatched, IsFair, FacesThroughout
<1> QED BY <1>1, <1>2, <1>6, <1>7 DEF AnswerInv

\* A search just sent, and no search at all, claim nothing.
LEMMA SentIsFair ==
  ASSUME NEW v, NEW c
  PROVE  LET n == NewSearch(v, c) IN Remembers(n) /\ Unmatched(n) /\ IsFair(n)
BY DEF NewSearch, Remembers, Unmatched, IsFair, Running

LEMMA AnswerStep == TypeOK /\ AnswerInv /\ [Next]_vars => AnswerInv'
<1> SUFFICES ASSUME TypeOK, AnswerInv, [Next]_vars PROVE AnswerInv'
  OBVIOUS
<1> DEFINE Good(s) == Remembers(s) /\ Unmatched(s) /\ IsFair(s)
<1>1. ASSUME UNCHANGED <<photos, embedded>>, NEW s, Good(s)
      PROVE  Remembers(s)' /\ Unmatched(s)' /\ IsFair(s)'
  BY <1>1 DEF Remembers, Unmatched, IsFair, FacesThroughout
<1>2. \A v, c : Good(NewSearch(v, c))
  BY SentIsFair
<1>3. CASE Event
  <2>1. ASSUME NEW s \in search \cup {shown}
        PROVE  Remembers(s)' /\ Unmatched(s)' /\ IsFair(s)'
    <3>1. Remembers(s) /\ IsFair(s) /\ Unmatched(s)
      BY DEF AnswerInv
    <3>2. Remembers(s)' /\ IsFair(s)'
      BY <1>3, <3>1, EventStep, FairStays
    <3> QED BY <3>1, <3>2 DEF Unmatched
  <2>2. search' = search /\ shown' = shown
    BY <1>3, EventStep
  <2> QED BY <2>1, <2>2 DEF AnswerInv
<1>4. ASSUME NEW s \in search, Admit(s) \/ Refuse(s) \/ Match(s) \/ Log(s)
      PROVE  AnswerInv'
  BY <1>4, ServedFair
<1>5. CASE /\ UNCHANGED <<photos, embedded>>
           /\ \A s \in search' \cup {shown'} :
                s \in search \cup {shown} \/ \E v, c : s = NewSearch(v, c)
  <2>1. \A s \in search' \cup {shown'} : Good(s)
    BY <1>2, <1>5 DEF AnswerInv
  <2>2. ASSUME NEW s \in search' \cup {shown'}
        PROVE  Remembers(s)' /\ Unmatched(s)' /\ IsFair(s)'
    BY <1>1, <1>5, <2>1
  <2> QED BY <2>2 DEF AnswerInv
<1>6. ASSUME NEW s \in search, Answered(s) \/ SearchFails(s)
      PROVE  AnswerInv'
  BY <1>5, <1>6 DEF Answered, SearchFails, event
<1>7. CASE Leave \/ Retake \/ StartOver
  BY <1>5, <1>7 DEF Leave, Retake, StartOver, Nothing, event
<1>8. CASE Confirm
  BY <1>5, <1>8 DEF Confirm, Sent, event
<1>9. CASE UNCHANGED <<photos, embedded, search, shown>>
  BY <1>5, <1>9
<1> QED
  BY <1>3, <1>4, <1>6, <1>7, <1>8, <1>9
  DEF Next, vars, event, Serve, Enter, Start, Cancel, ToggleConsent, Dismiss,
      CameraGranted, CameraPlays, CameraFails, Snap, OtherAdmitted, OtherLogged,
      InviteTimer, InviteClose, Tick

\* Whatever is embedded, deleted or set while a search runs: what it found, and
\* what the guest then has on the screen, is what that search owed (POST match
\* reads the sensitivity before the ML service's answer and queries after it).
THEOREM AnswersStayFair == Spec => []AnswersAreFair
<1>1. Init => AnswerInv
  <2> SUFFICES ASSUME Init PROVE AnswerInv
    OBVIOUS
  <2>1. search \cup {shown} = {NewSearch(0, FALSE)}
    BY DEF Init, Nothing
  <2> QED BY <2>1, SentIsFair DEF AnswerInv
<1>2. AnswerInv => AnswersAreFair
  BY DEF AnswerInv, AnswersAreFair, Answers, IsFair
<1> QED BY <1>1, <1>2, AnswerStep, GuestTypeCorrect, PTL DEF Spec

-----------------------------------------------------------------------------
(***************************************************************************)
(* The camera.  A view is on the screen only at the camera stage, one at a *)
(* time, and the cleanup turns every promise that has not settled into one *)
(* that stops its own stream.                                              *)
(***************************************************************************)
CameraInv ==
  /\ \A v \in Views : views[v] # "leaked"
  /\ Mounted # {} => stage = "camera"
  /\ \A v, w \in Mounted : v = w

\* What leaves the camera stage, with or without the promises settled.
LEMMA CameraLeft ==
  ASSUME views' \in [Views -> ViewStates],
         \A v \in Views : views'[v] \notin {"asking", "starting", "ready", "leaked"}
  PROVE  CameraInv'
<1>1. Mounted' = {}
  BY DEF Mounted
<1> QED BY <1>1 DEF CameraInv

LEMMA CameraStep == TypeOK /\ CameraInv /\ [Next]_vars => CameraInv'
<1> SUFFICES ASSUME TypeOK, CameraInv, [Next]_vars PROVE CameraInv'
  OBVIOUS
<1> USE DEF camera, screen
<1>0. /\ views \in [Views -> ViewStates]
      /\ Unmounted \in [Views -> ViewStates]
      /\ \A v \in Views :
           Unmounted[v] \notin {"asking", "starting", "ready", "leaked"}
  BY TypeParts, UnmountedViews DEF CameraInv
<1>1. CASE UNCHANGED <<views, stage>>
  BY <1>1 DEF CameraInv, Mounted
<1>2. CASE views' = Unmounted
  BY <1>0, <1>2, CameraLeft
<1>3. ASSUME NEW v \in Views, CameraFails(v)
      PROVE  CameraInv'
  BY <1>0, <1>3, CameraLeft DEF CameraFails, ViewStates
<1>4. CASE Leave
  <2>1. views' \in [Views -> ViewStates]
    BY <1>4 DEF Leave, ViewStates
  <2> QED BY <1>4, <2>1, CameraLeft DEF Leave
<1>5. ASSUME UNCHANGED views, stage # "camera"
      PROVE  CameraInv'
  BY <1>5 DEF CameraInv, Mounted
<1>6. ASSUME NEW v \in Views, MountCamera(v), stage # "camera"
      PROVE  CameraInv'
  <2>1. Mounted' = {v} /\ stage' = "camera"
    BY <1>0, <1>6 DEF MountCamera, Mounted, CameraInv
  <2>2. \A w \in Views : views'[w] # "leaked"
    BY <1>0, <1>6 DEF MountCamera, CameraInv
  <2> QED BY <2>1, <2>2 DEF CameraInv
<1>7. ASSUME NEW v \in Views, CameraGranted(v) \/ CameraPlays(v)
      PROVE  CameraInv'
  <2>1. Mounted' = Mounted /\ stage' = stage
    BY <1>0, <1>7 DEF CameraGranted, CameraPlays, Mounted
  <2>2. \A w \in Views : views'[w] # "leaked"
    BY <1>0, <1>7 DEF CameraGranted, CameraPlays, CameraInv
  <2> QED BY <2>1, <2>2 DEF CameraInv
<1>8. CASE Start \/ Retake
  BY <1>6, <1>8 DEF Start, Retake
<1>9. CASE Confirm \/ StartOver \/ Enter
  BY <1>5, <1>9 DEF Confirm, StartOver, Enter
<1>10. CASE Cancel \/ (\E v \in Views : Snap(v))
            \/ (\E s \in search : Answered(s) \/ SearchFails(s))
  BY <1>2, <1>10 DEF Cancel, Snap, Answered, SearchFails
<1> QED
  BY <1>1, <1>3, <1>4, <1>7, <1>8, <1>9, <1>10
  DEF Next, vars, Serve, ToggleConsent, Dismiss, Admit, Refuse, Match, Log,
      OtherAdmitted, OtherLogged, InviteTimer, InviteClose, Tick, Event

LEMMA CameraInvariant == Spec => []CameraInv
<1>1. Init => CameraInv
  BY DEF Init, CameraInv, Mounted
<1> QED BY <1>1, CameraStep, GuestTypeCorrect, PTL DEF Spec

\* Whenever the browser grants the camera or lets the video play, and whatever
\* the guest does in between: a stream is live only in the one view that is on
\* the screen (the `cancelled' flag and the cleanup of CameraView's effect).
THEOREM CameraOnlyInView == Spec => []CameraIsReleased
<1>1. TypeOK /\ CameraInv => CameraIsReleased
  BY DEF CameraInv, CameraIsReleased, Streaming, Mounted
<1> QED BY <1>1, CameraInvariant, GuestTypeCorrect, PTL

-----------------------------------------------------------------------------
(***************************************************************************)
(* The screen.  While no view that was left has called the guest back,     *)
(* there is one search at most, and it is that of the selfie in hand.      *)
(***************************************************************************)
ScreenInv ==
  /\ invite = "open" => stage # "camera"
  /\ ~ambushed =>
       /\ stage = "captured" => selfie # 0
       /\ stage = "results" => shown.selfie = selfie
       /\ search # {} => stage = "searching"
       /\ \A s, t \in search : s = t
       /\ \A s \in search : s.selfie = selfie

\* The invite opens over the intro only, and nothing under it can be pressed.
LEMMA InviteStep ==
  ASSUME TypeOK, CameraInv, [Next]_vars, invite = "open" => stage # "camera"
  PROVE  invite' = "open" => stage' # "camera"
<1> USE DEF screen, sheet
<1>1. CASE UNCHANGED <<invite, stage>>
  BY <1>1
<1>2. CASE Start \/ Retake
  BY <1>2 DEF Start, Retake, Uncovered
<1>3. CASE stage' # "camera"
  BY <1>3
<1>4. CASE InviteTimer \/ InviteClose
  BY <1>4 DEF InviteTimer, InviteClose
<1>5. CASE Enter
  BY <1>5 DEF Enter
<1> QED
  BY <1>1, <1>2, <1>3, <1>4, <1>5
  DEF Next, vars, Serve, Leave, Cancel, ToggleConsent, StartOver, Confirm, Dismiss,
      CameraGranted, CameraPlays, CameraFails, Snap, Admit, Refuse, Match, Log,
      Answered, SearchFails, OtherAdmitted, OtherLogged, Tick, Event

LEMMA ScreenStep == TypeOK /\ CameraInv /\ ScreenInv /\ [Next]_vars => ScreenInv'
<1> SUFFICES ASSUME TypeOK, CameraInv, ScreenInv, [Next]_vars PROVE ScreenInv'
  OBVIOUS
<1> USE DEF camera, screen, sheet
<1> DEFINE Calm == /\ stage = "captured" => selfie # 0
                   /\ stage = "results" => shown.selfie = selfie
                   /\ search # {} => stage = "searching"
                   /\ \A s, t \in search : s = t
                   /\ \A s \in search : s.selfie = selfie
<1>0. /\ invite' = "open" => stage' # "camera"
      /\ ~ambushed => Calm
      /\ search \subseteq SearchType /\ 0 \notin Views
  BY InviteStep, TypeParts DEF ScreenInv, Views
<1>a. SUFFICES ASSUME ~ambushed' PROVE Calm'
  BY <1>0 DEF ScreenInv
<1>1. CASE UNCHANGED <<stage, selfie, shown, search, ambushed>>
  BY <1>0, <1>a, <1>1
<1>2. CASE Enter \/ Leave \/ Start \/ Cancel \/ Retake \/ StartOver
  BY <1>0, <1>a, <1>2 DEF Enter, Leave, Start, Cancel, Retake, StartOver, MountCamera
<1>3. ASSUME NEW v \in Views, Snap(v)
      PROVE  Calm'
  BY <1>0, <1>a, <1>3 DEF Snap
<1>4. ASSUME NEW v \in Views, CameraFails(v)
      PROVE  Calm'
  <2>1. ~ambushed /\ (v \in Mounted \/ stage = "intro")
    BY <1>a, <1>4 DEF CameraFails
  <2>2. search = {}
    BY <1>0, <2>1 DEF CameraInv
  <2> QED BY <1>4, <2>2 DEF CameraFails
<1>5. CASE Confirm
  <2>1. search = {} /\ search' = {Sent} /\ Sent.selfie = selfie
    BY <1>0, <1>a, <1>5 DEF Confirm, Sent, NewSearch
  <2> QED BY <1>5, <2>1 DEF Confirm
<1>6. ASSUME NEW s \in search, Answered(s)
      PROVE  Calm'
  BY <1>0, <1>a, <1>6 DEF Answered
<1>7. ASSUME NEW s \in search, SearchFails(s)
      PROVE  Calm'
  <2>1. s.selfie = selfie /\ s.selfie # 0 /\ search' = {}
    BY <1>0, <1>a, <1>7 DEF SearchFails, SearchType, SearchOf
  <2> QED BY <1>7, <2>1 DEF SearchFails
<1>8. ASSUME NEW s \in search, Admit(s) \/ Refuse(s) \/ Match(s) \/ Log(s)
      PROVE  Calm'
  <2>1. UNCHANGED <<stage, selfie, shown, ambushed>>
    BY <1>8 DEF Admit, Refuse, Match, Log
  <2>2. PICK new \in SearchType :
          search' = (search \ {s}) \cup {new} /\ new.selfie = s.selfie
    BY <1>8, ServedSearch
  <2>3. search' = {new} /\ new.selfie = selfie /\ stage = "searching"
    BY <1>0, <1>a, <2>1, <2>2
  <2> QED BY <2>1, <2>3
<1> QED
  BY <1>1, <1>2, <1>3, <1>4, <1>5, <1>6, <1>7, <1>8
  DEF Next, vars, Serve, ToggleConsent, Dismiss, CameraGranted, CameraPlays,
      OtherAdmitted, OtherLogged, InviteTimer, InviteClose, Tick, Event

LEMMA ScreenInvariant == Spec => []ScreenInv
<1>1. Init => ScreenInv
  BY DEF Init, ScreenInv
<1> QED BY <1>1, ScreenStep, CameraInvariant, GuestTypeCorrect, PTL DEF Spec

\* For any number of camera views: the invite never covers the viewfinder, a
\* review always has its selfie, results are those of the selfie in hand, and
\* nothing searches behind another screen - until a view that was left calls
\* the guest back, which is the one exception.
THEOREM ScreenStaysTogether == Spec => []ScreenHoldsTogether
<1>1. ScreenInv => ScreenHoldsTogether
  <2>1. ASSUME NEW x \in search, \A s, t \in search : s = t
        PROVE  Cardinality(search) = 1
    <3>1. search = {x}
      BY <2>1
    <3> QED BY <3>1, FS_Singleton
  <2> QED BY <2>1 DEF ScreenInv, ScreenHoldsTogether
<1> QED BY <1>1, ScreenInvariant, PTL

-----------------------------------------------------------------------------
(***************************************************************************)
(* The rate limit.  What is in the window and what has been admitted but   *)
(* not logged are counted together; the last one admitted saw room for     *)
(* itself, and no guest has two on the way.                                *)
(***************************************************************************)
InWindow == {i \in DOMAIN log : log[i] > clock - Window}
Busy == {o \in Others : others[o]}
Unlogged == {s \in search : s.step \in Waiting}

RateInv ==
  ~ambushed =>
    Logged + Cardinality(Busy) + Cardinality(Unlogged) <= RateMax + Cardinality(Others)

\* What a row more in the log, or a tick more on the clock, does to the count.
LEMMA LoggedGrows ==
  ASSUME TypeOK
  PROVE  /\ IsFiniteSet(InWindow) /\ Logged \in Nat
         /\ AddToLog /\ clock' = clock => Logged' \in Nat /\ Logged' <= Logged + 1
         /\ log' = log /\ clock' \in {clock, clock + 1} =>
              Logged' \in Nat /\ Logged' <= Logged
<1>0. /\ log \in Seq(0..MaxClock) /\ clock \in Nat /\ Window \in Nat
      /\ Len(log) \in Nat /\ DOMAIN log = 1 .. Len(log)
      /\ \A i \in 1 .. Len(log) : log[i] \in Nat
  <2>1. log \in Seq(0..MaxClock)
    BY TypeParts
  <2>2. Len(log) \in Nat /\ log \in [1 .. Len(log) -> 0..MaxClock]
    BY <2>1, LenProperties
  <2> QED BY <2>1, <2>2, TypeParts, Constants
<1>1. IsFiniteSet(InWindow) /\ Logged \in Nat /\ Logged = Cardinality(InWindow)
  <2>1. IsFiniteSet(1 .. Len(log))
    BY <1>0, FS_Interval
  <2>2. IsFiniteSet(InWindow)
    BY <1>0, <2>1, FS_Subset DEF InWindow
  <2> QED BY <2>2, FS_CardinalityType DEF Logged, InWindow
<1>2. ASSUME InWindow' \subseteq InWindow
      PROVE  Logged' \in Nat /\ Logged' <= Logged
  <2>1. IsFiniteSet(InWindow') /\ Cardinality(InWindow') <= Cardinality(InWindow)
    BY <1>1, <1>2, FS_Subset
  <2> QED BY <1>1, <2>1, FS_CardinalityType DEF Logged, InWindow
<1>3. ASSUME log' = log, clock' \in {clock, clock + 1}
      PROVE  Logged' \in Nat /\ Logged' <= Logged
  BY <1>0, <1>2, <1>3 DEF InWindow
<1>4. ASSUME AddToLog, clock' = clock
      PROVE  Logged' \in Nat /\ Logged' <= Logged + 1
  <2>1. CASE log' = log
    BY <1>1, <1>3, <1>4, <2>1
  <2>2. CASE log' = Append(log, clock)
    <3>1. /\ Len(log') = Len(log) + 1 /\ DOMAIN log' = 1 .. Len(log) + 1
          /\ \A i \in 1 .. Len(log) : log'[i] = log[i]
      <4>1. clock \in 0..MaxClock
        BY TypeParts
      <4>2. /\ log' \in Seq(0..MaxClock) /\ Len(log') = Len(log) + 1
            /\ \A i \in 1 .. Len(log) : log'[i] = log[i]
        BY <1>0, <2>2, <4>1, AppendProperties
      <4> QED BY <4>2, LenProperties
    <3>2. InWindow' \subseteq InWindow \cup {Len(log) + 1}
      BY <1>0, <1>4, <3>1 DEF InWindow
    <3>3. /\ IsFiniteSet(InWindow \cup {Len(log) + 1})
          /\ Cardinality(InWindow \cup {Len(log) + 1}) <= Cardinality(InWindow) + 1
          /\ Cardinality(InWindow \cup {Len(log) + 1}) \in Nat
      BY <1>1, FS_AddElement, FS_CardinalityType
    <3>4. /\ IsFiniteSet(InWindow')
          /\ Cardinality(InWindow') <= Cardinality(InWindow \cup {Len(log) + 1})
      BY <3>2, <3>3, FS_Subset
    <3>5. Cardinality(InWindow') \in Nat
      BY <3>4, FS_CardinalityType
    <3> QED BY <1>1, <3>3, <3>4, <3>5 DEF Logged, InWindow
  <2> QED BY <1>4, <2>1, <2>2 DEF AddToLog
<1> QED BY <1>1, <1>3, <1>4

\* No more are busy than there are.
LEMMA BusyFew ==
  /\ IsFiniteSet(Busy) /\ Cardinality(Busy) \in Nat
  /\ Cardinality(Others) \in Nat /\ Cardinality(Busy) <= Cardinality(Others)
BY Constants, FS_Subset, FS_CardinalityType DEF Busy

LEMMA BusyFewNext ==
  /\ IsFiniteSet(Busy') /\ Cardinality(Busy') \in Nat
  /\ Cardinality(Busy') <= Cardinality(Others)
BY Constants, FS_Subset, FS_CardinalityType DEF Busy

\* A set that holds one search at most.
LEMMA OneAtMost ==
  ASSUME NEW S, \A s, t \in S : s = t
  PROVE  /\ S = {} => Cardinality(S) = 0
         /\ S # {} => Cardinality(S) = 1
         /\ Cardinality(S) \in {0, 1}
<1>1. CASE S = {}
  BY <1>1, FS_EmptySet
<1>2. ASSUME NEW x \in S PROVE Cardinality(S) = 1
  <2>1. S = {x}
    BY <1>2
  <2> QED BY <2>1, FS_Singleton
<1> QED BY <1>1, <1>2

LEMMA RateStep ==
  TypeOK /\ ScreenInv /\ ScreenInv' /\ RateInv /\ [Next]_vars => RateInv'
<1> SUFFICES ASSUME TypeOK, ScreenInv, ScreenInv', RateInv, [Next]_vars, ~ambushed'
             PROVE  Logged' + Cardinality(Busy') + Cardinality(Unlogged')
                      <= RateMax + Cardinality(Others)
  BY DEF RateInv
<1> USE DEF camera, limit
<1>0. ~ambushed
  BY DEF Next, vars, Enter, Leave, Start, Cancel, ToggleConsent, Retake, StartOver,
         Confirm, Dismiss, CameraGranted, CameraPlays, CameraFails, Snap, Serve, Admit,
         Refuse, Match, Log, Answered, SearchFails, OtherAdmitted, OtherLogged,
         InviteTimer, InviteClose, Tick, Event
<1>a. /\ Logged \in Nat /\ Cardinality(Busy) \in Nat /\ Cardinality(Others) \in Nat
      /\ Cardinality(Unlogged) \in {0, 1} /\ Cardinality(Unlogged') \in {0, 1}
      /\ Cardinality(Busy') \in Nat /\ RateMax \in Nat
      /\ Cardinality(Busy) <= Cardinality(Others)
      /\ Cardinality(Busy') <= Cardinality(Others)
      /\ Logged + Cardinality(Busy) + Cardinality(Unlogged)
           <= RateMax + Cardinality(Others)
  <2>1. \A s, t \in Unlogged : s = t
    BY <1>0 DEF ScreenInv, Unlogged
  <2>2. \A s, t \in Unlogged' : s = t
    BY DEF ScreenInv, Unlogged
  <2> QED
    BY <1>0, <2>1, <2>2, LoggedGrows, BusyFew, BusyFewNext, OneAtMost, Constants
    DEF RateInv
<1> HIDE DEF limit
<1>1. ASSUME Logged' \in Nat, Logged' <= Logged, others' = others,
             Unlogged # {} \/ Unlogged' = {}
      PROVE  Logged' + Cardinality(Busy') + Cardinality(Unlogged')
               <= RateMax + Cardinality(Others)
  <2>1. Busy' = Busy
    BY <1>1 DEF Busy
  <2>2. Cardinality(Unlogged') <= Cardinality(Unlogged)
    <3>1. Unlogged' = {} => Cardinality(Unlogged') = 0
      BY FS_EmptySet
    <3>2. Unlogged # {} => Cardinality(Unlogged) = 1
      BY <1>0, OneAtMost DEF ScreenInv, Unlogged
    <3> QED BY <1>1, <1>a, <3>1, <3>2
  <2> QED BY <1>1, <1>a, <2>1, <2>2
<1>2. ASSUME UNCHANGED limit, Unlogged' \subseteq Unlogged
      PROVE  Logged' + Cardinality(Busy') + Cardinality(Unlogged')
               <= RateMax + Cardinality(Others)
  BY <1>1, <1>2, LoggedGrows DEF limit
<1>3. CASE Tick
  BY <1>1, <1>3, LoggedGrows DEF Tick, Unlogged
<1>4. ASSUME NEW s \in search, Admit(s)
      PROVE  Logged' + Cardinality(Busy') + Cardinality(Unlogged')
               <= RateMax + Cardinality(Others)
  <2>1. Logged' = Logged /\ Logged <= RateMax - 1
    BY <1>a, <1>4 DEF Admit, limit, Logged, WithinRate
  <2> QED BY <1>a, <2>1
<1>5. ASSUME NEW o \in Others, OtherAdmitted(o)
      PROVE  Logged' + Cardinality(Busy') + Cardinality(Unlogged')
               <= RateMax + Cardinality(Others)
  <2>1. Logged' = Logged /\ Logged <= RateMax - 1
    BY <1>a, <1>5 DEF OtherAdmitted, Logged, WithinRate
  <2> QED BY <1>a, <2>1
<1>6. ASSUME NEW o \in Others, OtherLogged(o)
      PROVE  Logged' + Cardinality(Busy') + Cardinality(Unlogged')
               <= RateMax + Cardinality(Others)
  <2>1. Logged' \in Nat /\ Logged' <= Logged + 1
    BY <1>6, LoggedGrows DEF OtherLogged
  <2>2. o \in Busy /\ Busy' = Busy \ {o}
    BY <1>6, TypeParts DEF OtherLogged, Busy
  <2>3. Cardinality(Busy') = Cardinality(Busy) - 1
    BY <2>2, BusyFew, FS_RemoveElement
  <2>4. Unlogged' = Unlogged
    BY <1>6 DEF OtherLogged, Unlogged
  <2> QED BY <1>a, <2>1, <2>3, <2>4
<1>7. ASSUME NEW s \in search, Log(s)
      PROVE  Logged' + Cardinality(Busy') + Cardinality(Unlogged')
               <= RateMax + Cardinality(Others)
  <2>1. Logged' \in Nat /\ Logged' <= Logged + 1
    BY <1>7, LoggedGrows DEF Log
  <2>2. Busy' = Busy
    BY <1>7 DEF Log, Busy
  <2>3. Cardinality(Unlogged) = 1
    <3>1. s \in Unlogged
      BY <1>7 DEF Log, Unlogged, Waiting
    <3> QED BY <1>0, <3>1, OneAtMost DEF ScreenInv, Unlogged
  <2>4. Cardinality(Unlogged') = 0
    <3>1. PICK new \in SearchType :
            search' = (search \ {s}) \cup {new} /\ new.step = "logged"
      BY <1>7, ServedSearch
    <3>2. Unlogged' = {}
      BY <1>0, <3>1 DEF ScreenInv, Unlogged, Waiting
    <3> QED BY <3>2, FS_EmptySet
  <2> QED BY <1>a, <2>1, <2>2, <2>3, <2>4
<1>8. ASSUME NEW s \in search, Refuse(s) \/ Match(s), ~Admit(s)
      PROVE  Logged' + Cardinality(Busy') + Cardinality(Unlogged')
               <= RateMax + Cardinality(Others)
  <2>1. PICK new \in SearchType :
          /\ search' = (search \ {s}) \cup {new}
          /\ new.step \in Waiting => s.step \in Waiting
    BY <1>8, ServedSearch
  <2>2. Unlogged # {} \/ Unlogged' = {}
    BY <2>1 DEF Unlogged
  <2>3. UNCHANGED limit
    BY <1>8 DEF Refuse, Match
  <2> QED BY <1>1, <2>2, <2>3, LoggedGrows DEF limit
<1>9. CASE UNCHANGED <<limit, search>>
  BY <1>2, <1>9 DEF Unlogged
<1>10. CASE Confirm
  <2>1. Unlogged' \subseteq Unlogged
    BY <1>10 DEF Confirm, Sent, NewSearch, Unlogged, Waiting
  <2> QED BY <1>2, <1>10, <2>1 DEF Confirm
<1>11. ASSUME NEW s \in search, Answered(s) \/ SearchFails(s)
       PROVE  Logged' + Cardinality(Busy') + Cardinality(Unlogged')
                <= RateMax + Cardinality(Others)
  BY <1>2, <1>11 DEF Answered, SearchFails, Unlogged
<1> QED
  BY <1>3, <1>4, <1>5, <1>6, <1>7, <1>8, <1>9, <1>10, <1>11
  DEF Next, vars, Serve, Enter, Leave, Start, Cancel, ToggleConsent, Retake,
      StartOver, Dismiss, CameraGranted, CameraPlays, CameraFails, Snap,
      InviteTimer, InviteClose, Event

\* For any limit, any window and any number of guests behind one address: a
\* window never holds more searches than the limit would let through one after
\* another, plus one for each guest who may have been let through on a count
\* that another's search was missing from (POST match counts, then logs).
THEOREM RateStaysBounded == Spec => []RateIsBounded
<1>1. Init => RateInv
  <2> SUFFICES ASSUME Init PROVE RateInv
    OBVIOUS
  <2>1. InWindow = {} /\ Busy = {} /\ Unlogged = {}
    BY DEF Init, InWindow, Busy, Unlogged
  <2>2. Logged = 0 /\ Cardinality(Busy) = 0 /\ Cardinality(Unlogged) = 0
    BY <2>1, FS_EmptySet DEF Logged, InWindow
  <2> QED BY <2>2, BusyFew, Constants DEF RateInv
<1>2. TypeOK /\ ScreenInv /\ RateInv => RateIsBounded
  <2> SUFFICES ASSUME TypeOK, ScreenInv, RateInv, ~ambushed
               PROVE  Logged <= RateMax - 1 + Cardinality(Others) + 1
    BY DEF RateIsBounded
  <2>1. Cardinality(Unlogged) \in {0, 1}
    BY OneAtMost DEF ScreenInv, Unlogged
  <2> QED BY <2>1, LoggedGrows, BusyFew, Constants DEF RateInv
<1> QED
  BY <1>1, <1>2, RateStep, ScreenInvariant, GuestTypeCorrect, PTL DEF Spec
=============================================================================
