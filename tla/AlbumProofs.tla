----------------------------- MODULE AlbumProofs -----------------------------
(***************************************************************************)
(* What Album keeps for any pages of any sizes, any selections, any number *)
(* of uploads and deletions beside each other, and whichever of them die.  *)
(***************************************************************************)
EXTENDS AlbumBook, FiniteSetTheorems, FunctionTheorems, SequenceTheorems, TLAPS

-----------------------------------------------------------------------------
(***************************************************************************)
(* Lemmas about the operators.                                             *)
(***************************************************************************)
\* A finite set of integers has a largest member: max(position) exists.
LEMMA LargestExists ==
    ASSUME NEW T \in SUBSET Int, IsFiniteSet(T), T # {}
    PROVE  \E n \in T : \A m \in T : m <= n
<1> DEFINE Above(n) == {m \in T : m > n}
           Family == {Above(n) : n \in T}
<1>1. IsWellFoundedOn(StrictSubsetOrdering(T), FiniteSubsetsOf(T))
    BY FS_StrictSubsetOrderingWellFounded
<1>2. Family \subseteq FiniteSubsetsOf(T) /\ Family # {}
    <2>1. FiniteSubsetsOf(T) = SUBSET T
        BY FS_FiniteSubsetsOfFinite
    <2>2. \A n \in T : Above(n) \in SUBSET T
        OBVIOUS
    <2>3. Family \subseteq SUBSET T
        BY <2>2
    <2>4. Family # {}
        <3>1. PICK n \in T : TRUE
            OBVIOUS
        <3>2. Above(n) \in Family
            BY Zenon
        <3> HIDE DEF Family
        <3> QED BY <3>2
    <2> HIDE DEF Family
    <2> QED BY <2>1, <2>3, <2>4
<1>3. PICK A \in Family : \A B \in Family : ~ (<<B, A>> \in StrictSubsetOrdering(T))
    <2> HIDE DEF Family
    <2> QED BY <1>1, <1>2, WFMin
<1>4. PICK n \in T : A = Above(n)
    BY Zenon
<1>5. ASSUME NEW m \in T, m > n PROVE FALSE
    <2>1. Above(m) \subseteq Above(n) /\ m \in Above(n) /\ m \notin Above(m)
        <3>1. m \in Int /\ n \in Int /\ \A k \in T : k \in Int
            OBVIOUS
        <3>2. \A k \in T : k > m => k > n
            BY <1>5, <3>1
        <3>3. ~ (m > m)
            BY <3>1
        <3> QED BY <1>5, <3>2, <3>3, Zenon
    <2>3. Above(m) # A
        BY <1>4, <2>1, Zenon
    <2>4. <<Above(m), A>> \in (SUBSET T) \X (SUBSET T)
        BY <1>4, Zenon
    <2>2. <<Above(m), A>> \in StrictSubsetOrdering(T)
        <3> HIDE DEF Above
        <3> QED BY <1>4, <2>1, <2>3, <2>4 DEF StrictSubsetOrdering
    <2> QED BY <1>3, <2>2, Zenon
<1> QED BY <1>5

\* The bytes of disjoint sets of pages add up.
LEMMA BytesOfBoth ==
    ASSUME NEW S \in SUBSET Pages, NEW T \in SUBSET Pages, S \cap T = {}
    PROVE  /\ Bytes[S] \in Nat /\ Bytes[T] \in Nat
           /\ Bytes[S \cup T] = Bytes[S] + Bytes[T]
BY AlbumSizesAssumption

\* Taking pages out takes their bytes out, and there are that many to take.
LEMMA BytesOfRest ==
    ASSUME NEW S \in SUBSET Pages, NEW T \in SUBSET S
    PROVE  /\ Bytes[S] \in Nat /\ Bytes[T] \in Nat /\ Bytes[S \ T] \in Nat
           /\ Bytes[S \ T] = Bytes[S] - Bytes[T]
<1>1. (S \ T) \cup T = S /\ (S \ T) \cap T = {}
    OBVIOUS
<1>2. Bytes[(S \ T) \cup T] = Bytes[S \ T] + Bytes[T]
    BY <1>1, AlbumSizesAssumption
<1>3. Bytes[S] = Bytes[S \ T] + Bytes[T]
    BY <1>1, <1>2, Zenon
<1> QED BY <1>3, AlbumSizesAssumption

\* recordStorageDelta leaves a natural number.
LEMMA DeltaType == ASSUME used \in Nat, NEW d \in Int, RecordStorageDelta(d) PROVE used' \in Nat
BY DEF RecordStorageDelta, AtLeastZero

\* The first free position is one after the last taken, 1 in a book of covers.
LEMMA NextPositionType == ASSUME TypeOK PROVE NextSpreadPosition \in Nat
<1> DEFINE taken == {place[p].position : p \in OfKind("spread")}
           pos == [p \in OfKind("spread") |-> place[p].position]
<1>1. CASE taken = {}
    BY <1>1 DEF NextSpreadPosition
<1>2. CASE taken # {}
    <2>1. IsFiniteSet(OfKind("spread"))
        BY AlbumSizesAssumption, FS_Subset DEF OfKind, TypeOK
    <2>2. pos \in Surjection(OfKind("spread"), taken)
        BY DEF Surjection
    <2>3. IsFiniteSet(taken)
        <3> HIDE DEF taken, pos
        <3> QED BY <2>1, <2>2, FS_Surjection
    <2>4. taken \subseteq Nat \cup {-1}
        BY DEF TypeOK, OfKind
    <2>5. PICK n \in taken : \A m \in taken : m <= n
        <3> HIDE DEF taken
        <3>1. taken \in SUBSET Int
            BY <2>4
        <3> QED BY <1>2, <2>3, <3>1, LargestExists
    <2>6. (CHOOSE k \in taken : \A m \in taken : m <= k) \in taken
        <3> HIDE DEF taken
        <3> QED BY <2>5, Zenon
    <2>7. NextSpreadPosition = 1 + CHOOSE k \in taken : \A m \in taken : m <= k
        BY <1>2 DEF NextSpreadPosition
    <2>8. \A k \in taken : 1 + k \in Nat
        BY <2>4
    <2> HIDE DEF taken
    <2> QED BY <2>6, <2>7, <2>8, Zenon
<1> QED BY <1>1, <1>2

\* The presign places every page of the batch.
LEMMA PlaceOfType ==
    ASSUME TypeOK, NEW kind \in Kinds, NEW batch \in Batches, NEW p \in RangeOf(batch)
    PROVE  /\ PlaceOf(kind, batch, p) \in [kind : Kinds, position : Nat \cup {-1}]
           /\ PlaceOf(kind, batch, p).kind = kind
           /\ PlaceOf(kind, batch, p) # Unplaced
<1> DEFINE index == CHOOSE i \in DOMAIN batch : batch[i] = p
<1>1. batch \in Seq(Pages) /\ DOMAIN batch = 1..Len(batch) /\ Len(batch) \in Nat
    BY AlbumAssumption
<1>2. index \in 1..Len(batch)
    BY <1>1 DEF RangeOf
<1>3. NextSpreadPosition \in Nat
    BY NextPositionType
<1>4. PlaceOf(kind, batch, p) =
        [kind |-> kind, position |-> IF kind = "spread" THEN NextSpreadPosition + index - 1 ELSE 0]
    BY DEF PlaceOf
<1> HIDE DEF index
<1> QED BY <1>1, <1>2, <1>3, <1>4 DEF Unplaced

-----------------------------------------------------------------------------
(***************************************************************************)
(* The inductive invariant of the pages: those on their way, in the book,  *)
(* and on their way out are disjoint.                                      *)
(***************************************************************************)
UpType == [Uploads -> [step : {"idle", "put", "select", "delete", "insert", "unlink"},
                       kind : Kinds, queue : Batches \cup {<<>>},
                       landed : SUBSET Pages, replaced : SUBSET Pages]]

\* The pages of an upload, while it may still insert them.
Coming(u) == IF up[u].step \in {"put", "select", "delete", "insert"} THEN RangeOf(up[u].queue) ELSE {}
Going == refunding \cup unlinking \cup unsettled
Placed == {p \in Pages : place[p] # Unplaced}

\* An id that was handed out is never handed out again.
IdsAreSpent ==
    /\ rows \cup Going \subseteq Placed
    /\ \A u \in Uploads : Coming(u) \cup up[u].replaced \subseteq Placed

\* A page comes in one upload, and before it is in the book or on its way out.
ComingIsNew ==
    /\ \A u \in Uploads : Coming(u) \cap (rows \cup Going) = {}
    /\ \A u, v \in Uploads : Coming(u) \cap up[v].replaced = {}
    /\ \A u, v \in Uploads : u # v => Coming(u) \cap Coming(v) = {}

\* What the HEADs found is still there when the rows are inserted.
LandedIsStored ==
    \A u \in Uploads : up[u].step \in {"select", "delete", "insert"} => up[u].landed \subseteq objects

\* A replacement is of covers of one kind, and by the insert the rows it read
\* are gone, by its own deletion or by another.
ReplacedIsGone ==
    \A u \in Uploads :
        /\ up[u].step \in {"idle", "put", "select"} => up[u].replaced = {}
        /\ up[u].step \in {"select", "delete"} => up[u].kind # "spread"
        /\ up[u].step = "delete" => \A p \in up[u].replaced : place[p].kind = up[u].kind
        /\ up[u].step \in {"insert", "unlink"} => up[u].replaced \cap rows = {}

GoingIsGone == rows \cap Going = {}

PageInv ==
    /\ TypeOK
    /\ IdsAreSpent
    /\ ComingIsNew
    /\ LandedIsStored
    /\ ReplacedIsGone
    /\ GoingIsGone
    /\ PagesHaveObjects

-----------------------------------------------------------------------------
(***************************************************************************)
(* The pages: proof.                                                       *)
(***************************************************************************)
\* It holds of an empty album.
LEMMA PageInit == Init => PageInv
<1> SUFFICES ASSUME Init PROVE PageInv
    OBVIOUS
<1>1. /\ rows = {} /\ refunding = {} /\ unlinking = {} /\ unsettled = {}
      /\ \A u \in Uploads : up[u] = NoUpload
    BY DEF Init
<1>2. TypeOK
    BY AlbumAssumption DEF Init, TypeOK, Unplaced, Kinds, NoUpload
<1>3. Going = {} /\ \A u \in Uploads : Coming(u) = {} /\ up[u].replaced = {}
    BY <1>1 DEF Going, Coming, NoUpload
<1>4. IdsAreSpent /\ ComingIsNew /\ GoingIsGone /\ PagesHaveObjects
    BY <1>1, <1>3 DEF IdsAreSpent, ComingIsNew, GoingIsGone, PagesHaveObjects
<1>5. LandedIsStored /\ ReplacedIsGone
    BY <1>1 DEF LandedIsStored, ReplacedIsGone, NoUpload
<1> QED BY <1>2, <1>4, <1>5 DEF PageInv

\* A request moves on, and the locals it does not write stay.
LEMMA GoesEffect ==
    ASSUME up \in UpType, NEW u \in Uploads,
           NEW step \in {"idle", "put", "select", "delete", "insert", "unlink"}, Goes(u, step)
    PROVE  /\ up' \in UpType
           /\ up'[u].step = step
           /\ up'[u].kind = up[u].kind /\ up'[u].queue = up[u].queue
           /\ up'[u].landed = up[u].landed /\ up'[u].replaced = up[u].replaced
           /\ \A v \in Uploads \ {u} : up'[v] = up[v]
BY DEF Goes, UpType

\* A request ends, and forgets.
LEMMA EndsEffect ==
    ASSUME up \in UpType, NEW u \in Uploads, Ends(u)
    PROVE  /\ up' \in UpType
           /\ up'[u] = NoUpload
           /\ \A v \in Uploads \ {u} : up'[v] = up[v]
BY DEF Ends, UpType, NoUpload, Kinds

\* Steps that only let go: requests that end, charges given back, objects that
\* go which no row and no upload counts on.
LEMMA LettingGoKeeps ==
    ASSUME PageInv, UNCHANGED <<place, rows>>,
           up' \in UpType, \A u \in Uploads : up'[u] \in {up[u], NoUpload},
           refunding' \cup unlinking' \cup unsettled' \subseteq Going,
           objects' \subseteq objects,
           (objects \ objects') \cap rows = {},
           \A u \in Uploads : (objects \ objects') \cap Coming(u) = {},
           used' \in Nat, published' \in BOOLEAN, publishing' \in BOOLEAN, clean' \in BOOLEAN
    PROVE  PageInv'
<1>1. /\ refunding' \subseteq Pages /\ unlinking' \subseteq Pages /\ unsettled' \subseteq Pages
    BY DEF PageInv, TypeOK, Going
<1>2. \A u \in Uploads : up'[u].landed \subseteq RangeOf(up'[u].queue)
    BY DEF PageInv, TypeOK, NoUpload
<1>3. TypeOK'
    BY <1>1, <1>2 DEF PageInv, TypeOK, UpType
<1>4. /\ Going' \subseteq Going
      /\ \A u \in Uploads : Coming(u)' \subseteq Coming(u)
      /\ \A u \in Uploads : up'[u].replaced \subseteq up[u].replaced
    BY DEF Going, Coming, NoUpload
<1>5. IdsAreSpent' /\ GoingIsGone'
    BY <1>4 DEF PageInv, IdsAreSpent, GoingIsGone, Placed
<1>6. ComingIsNew'
    BY <1>4 DEF PageInv, ComingIsNew
<1>7. LandedIsStored'
    <2> SUFFICES ASSUME NEW u \in Uploads, up'[u].step \in {"select", "delete", "insert"}
                 PROVE  up'[u].landed \subseteq objects'
        BY DEF LandedIsStored
    <2>1. up'[u] = up[u]
        BY DEF NoUpload
    <2>2. up[u].landed \subseteq objects /\ up[u].landed \subseteq Coming(u)
        BY <2>1 DEF PageInv, LandedIsStored, TypeOK, Coming
    <2> QED BY <2>1, <2>2
<1>8. ReplacedIsGone'
    BY DEF PageInv, ReplacedIsGone, NoUpload
<1>9. PagesHaveObjects'
    BY DEF PageInv, PagesHaveObjects
<1> QED BY <1>3, <1>5, <1>6, <1>7, <1>8, <1>9 DEF PageInv

\* The presign hands out ids nobody had.
LEMMA PresignKeeps ==
    ASSUME PageInv, NEW u \in Uploads, NEW kind \in Kinds, NEW batch \in Batches,
           Presign(u, kind, batch)
    PROVE  PageInv'
<1> DEFINE ids == RangeOf(batch)
<1>t. up \in UpType /\ batch \in Seq(Pages) /\ ids \subseteq Pages
    BY AlbumAssumption DEF PageInv, TypeOK, UpType, RangeOf
<1>1. /\ up' \in UpType
      /\ up'[u] = [step |-> "put", kind |-> kind, queue |-> batch, landed |-> {}, replaced |-> {}]
      /\ \A v \in Uploads \ {u} : up'[v] = up[v]
    BY <1>t DEF Presign, UpType, NoUpload
<1>2. /\ place' \in [Pages -> [kind : Kinds, position : Nat \cup {-1}]]
      /\ \A p \in ids : place[p] = Unplaced /\ place'[p] # Unplaced
      /\ \A p \in Pages \ ids : place'[p] = place[p]
    <2>1. TypeOK
        BY DEF PageInv
    <2>2. \A p \in ids : /\ PlaceOf(kind, batch, p) \in [kind : Kinds, position : Nat \cup {-1}]
                         /\ PlaceOf(kind, batch, p) # Unplaced
        BY <2>1, PlaceOfType
    <2> QED BY <1>t, <2>1, <2>2 DEF Presign, TypeOK
<1>3. UNCHANGED <<rows, objects, account, publication, removal>> /\ up[u].step = "idle"
    BY DEF Presign
<1> HIDE DEF ids
<1>4. /\ Going' = Going /\ rows' = rows
      /\ Coming(u)' = ids
      /\ \A v \in Uploads \ {u} : Coming(v)' = Coming(v)
      /\ \A v \in Uploads : up'[v].replaced = up[v].replaced
    <2>1. Going' = Going /\ rows' = rows
        BY <1>3 DEF Going, account, removal
    <2>2. Coming(u)' = ids
        BY <1>1 DEF Coming, ids
    <2>3. \A v \in Uploads \ {u} : Coming(v)' = Coming(v)
        BY <1>1 DEF Coming
    <2>4. \A v \in Uploads : up'[v].replaced = up[v].replaced
        <3>1. up[u].replaced = {} /\ up'[u].replaced = {}
            BY <1>1, <1>3 DEF PageInv, ReplacedIsGone
        <3> QED BY <1>1, <3>1
    <2> QED BY <2>1, <2>2, <2>3, <2>4
<1>5. Placed' = Placed \cup ids /\ Placed \cap ids = {}
    BY <1>t, <1>2 DEF Placed
<1>6. TypeOK'
    BY <1>1, <1>2, <1>3 DEF PageInv, TypeOK, UpType, account, publication, removal
<1>7. IdsAreSpent'
    BY <1>4, <1>5 DEF PageInv, IdsAreSpent
<1>8. ComingIsNew'
    BY <1>4, <1>5 DEF PageInv, ComingIsNew, IdsAreSpent
<1>9. LandedIsStored'
    BY <1>1, <1>3 DEF PageInv, LandedIsStored
<1>10. ReplacedIsGone'
    <2> SUFFICES ASSUME NEW v \in Uploads
                 PROVE  /\ up'[v].step \in {"idle", "put", "select"} => up'[v].replaced = {}
                        /\ up'[v].step \in {"select", "delete"} => up'[v].kind # "spread"
                        /\ up'[v].step = "delete" =>
                             \A p \in up'[v].replaced : place'[p].kind = up'[v].kind
                        /\ up'[v].step \in {"insert", "unlink"} => up'[v].replaced \cap rows' = {}
        BY DEF ReplacedIsGone
    <2>1. CASE v = u
        BY <1>1, <2>1
    <2>2. CASE v # u
        <3>1. \A p \in up[v].replaced : place'[p] = place[p]
            BY <1>2, <1>5 DEF PageInv, IdsAreSpent, Placed
        <3> QED BY <1>1, <1>3, <2>2, <3>1 DEF PageInv, ReplacedIsGone
    <2> QED BY <2>1, <2>2
<1>11. GoingIsGone' /\ PagesHaveObjects'
    BY <1>3, <1>4 DEF PageInv, GoingIsGone, PagesHaveObjects
<1> QED BY <1>6, <1>7, <1>8, <1>9, <1>10, <1>11 DEF PageInv

\* The PUTs add objects; what the HEADs find is kept.
LEMMA PutKeeps == ASSUME PageInv, NEW u \in Uploads, Put(u) PROVE PageInv'
<1>t. up \in UpType /\ objects \subseteq Pages
    BY DEF PageInv, TypeOK, UpType
<1>1. PICK landed \in SUBSET RangeOf(up[u].queue) :
         /\ objects' = objects \cup landed
         /\ IF landed = {} THEN Ends(u)
            ELSE up' = [up EXCEPT
                   ![u].step = IF up[u].kind = "spread" THEN "insert" ELSE "select",
                   ![u].landed = landed]
    BY DEF Put
<1>2. up[u].step = "put" /\ UNCHANGED <<table, account, publication, removal>>
    BY DEF Put
<1>3. Coming(u) = RangeOf(up[u].queue) /\ Coming(u) \subseteq Pages
    BY <1>2 DEF Coming, PageInv, IdsAreSpent, Placed
<1>4. CASE landed = {}
    <2>1. up' \in UpType /\ \A v \in Uploads : up'[v] \in {up[v], NoUpload}
        BY <1>t, <1>1, <1>4, EndsEffect
    <2>2. objects' = objects
        BY <1>1, <1>4
    <2> QED
        BY <1>2, <2>1, <2>2, LettingGoKeeps
           DEF table, account, publication, removal, PageInv, TypeOK, Going
<1>5. CASE landed # {}
    <2>1. /\ up' \in UpType
          /\ up'[u].step = IF up[u].kind = "spread" THEN "insert" ELSE "select"
          /\ up'[u].landed = landed
          /\ up'[u].kind = up[u].kind /\ up'[u].queue = up[u].queue
          /\ up'[u].replaced = up[u].replaced
          /\ \A v \in Uploads \ {u} : up'[v] = up[v]
        BY <1>t, <1>1, <1>3, <1>5 DEF UpType
    <2>2. up[u].replaced = {}
        BY <1>2 DEF PageInv, ReplacedIsGone
    <2>3. /\ \A v \in Uploads : Coming(v)' = Coming(v) /\ up'[v].replaced = up[v].replaced
          /\ UNCHANGED <<Going, Placed>>
        BY <1>2, <2>1 DEF Coming, Going, Placed, table, account, removal
    <2>4. TypeOK'
        BY <1>1, <1>2, <1>3, <2>1
           DEF PageInv, TypeOK, UpType, table, account, publication, removal
    <2>5. IdsAreSpent' /\ ComingIsNew' /\ GoingIsGone'
        BY <1>2, <2>3 DEF PageInv, IdsAreSpent, ComingIsNew, GoingIsGone, table
    <2>6. LandedIsStored'
        BY <1>1, <2>1 DEF PageInv, LandedIsStored
    <2>7. ReplacedIsGone'
        BY <1>2, <2>1, <2>2 DEF PageInv, ReplacedIsGone, table
    <2>8. PagesHaveObjects'
        BY <1>1, <1>2 DEF PageInv, PagesHaveObjects, table
    <2> QED BY <2>4, <2>5, <2>6, <2>7, <2>8 DEF PageInv
<1> QED BY <1>4, <1>5

\* The rows a replacement reads are of its kind, and no upload's.
LEMMA SelectKeeps == ASSUME PageInv, NEW u \in Uploads, Select(u) PROVE PageInv'
<1>t. up \in UpType /\ rows \subseteq Pages
    BY DEF PageInv, TypeOK, UpType
<1>1. /\ up[u].step = "select" /\ UNCHANGED <<table, objects, account, publication, removal>>
      /\ up'[u].replaced = OfKind(up[u].kind)
      /\ up'[u].step = IF OfKind(up[u].kind) = {} THEN "insert" ELSE "delete"
      /\ up'[u].kind = up[u].kind /\ up'[u].queue = up[u].queue /\ up'[u].landed = up[u].landed
      /\ \A v \in Uploads \ {u} : up'[v] = up[v]
      /\ up' \in UpType
    BY <1>t DEF Select, UpType, OfKind
<1>2. /\ \A v \in Uploads : Coming(v)' = Coming(v)
      /\ UNCHANGED <<Going, Placed>>
    BY <1>1 DEF Coming, Going, Placed, table, account, removal
<1>3. OfKind(up[u].kind) \subseteq rows /\ \A p \in OfKind(up[u].kind) : place[p].kind = up[u].kind
    BY DEF OfKind
<1>4. TypeOK'
    BY <1>1 DEF PageInv, TypeOK, UpType, table, account, publication, removal
<1>5. IdsAreSpent' /\ GoingIsGone'
    BY <1>1, <1>2, <1>3 DEF PageInv, IdsAreSpent, GoingIsGone, table
<1>6. ComingIsNew'
    BY <1>1, <1>2, <1>3 DEF PageInv, ComingIsNew, table
<1>7. LandedIsStored' /\ PagesHaveObjects'
    BY <1>1 DEF PageInv, LandedIsStored, PagesHaveObjects, table
<1>8. ReplacedIsGone'
    BY <1>1, <1>3 DEF PageInv, ReplacedIsGone, table
<1> QED BY <1>4, <1>5, <1>6, <1>7, <1>8 DEF PageInv

\* After its deletion no row of the kind is left, hence none that it read.
LEMMA DeleteReplacedKeeps == ASSUME PageInv, NEW u \in Uploads, DeleteReplaced(u) PROVE PageInv'
<1> DEFINE gone == OfKind(up[u].kind)
<1>t. up \in UpType /\ rows \subseteq Pages
    BY DEF PageInv, TypeOK, UpType
<1>1. /\ up[u].step = "delete" /\ UNCHANGED <<place, objects, used, publication, removal>>
      /\ rows' = rows \ gone /\ unsettled' = unsettled \cup gone
      /\ clean' = (clean /\ up[u].replaced = gone)
      /\ Goes(u, "insert")
    BY DEF DeleteReplaced
<1>2. /\ up' \in UpType /\ up'[u].step = "insert"
      /\ up'[u].kind = up[u].kind /\ up'[u].queue = up[u].queue
      /\ up'[u].landed = up[u].landed /\ up'[u].replaced = up[u].replaced
      /\ \A v \in Uploads \ {u} : up'[v] = up[v]
    BY <1>t, <1>1, GoesEffect
<1>3. gone \subseteq rows /\ \A p \in rows \ gone : place[p].kind # up[u].kind
    BY DEF OfKind
<1> HIDE DEF gone
<1>4. /\ \A v \in Uploads : Coming(v)' = Coming(v) /\ up'[v].replaced = up[v].replaced
      /\ Going' = Going \cup gone /\ Placed' = Placed
    BY <1>1, <1>2 DEF Coming, Going, Placed, removal
<1>5. TypeOK'
    BY <1>1, <1>2, <1>3 DEF PageInv, TypeOK, UpType, publication, removal
<1>6. IdsAreSpent' /\ ComingIsNew' /\ GoingIsGone'
    BY <1>1, <1>3, <1>4 DEF PageInv, IdsAreSpent, ComingIsNew, GoingIsGone
<1>7. LandedIsStored' /\ PagesHaveObjects'
    BY <1>1, <1>2 DEF PageInv, LandedIsStored, PagesHaveObjects
<1>8. ReplacedIsGone'
    <2>1. up[u].replaced \cap (rows \ gone) = {}
        BY <1>1, <1>3 DEF PageInv, ReplacedIsGone
    <2> QED BY <1>1, <1>2, <2>1 DEF PageInv, ReplacedIsGone
<1> QED BY <1>5, <1>6, <1>7, <1>8 DEF PageInv

\* The rows inserted are of pages that landed, and of no page on its way out.
LEMMA InsertKeeps == ASSUME PageInv, NEW u \in Uploads, Insert(u) PROVE PageInv'
<1>t. /\ up \in UpType /\ rows \subseteq Pages /\ used \in Nat
      /\ up[u].landed \in SUBSET Pages /\ up[u].replaced \in SUBSET Pages
      /\ up[u].landed \subseteq RangeOf(up[u].queue)
    BY DEF PageInv, TypeOK, UpType
<1>1. /\ up[u].step = "insert" /\ UNCHANGED <<place, objects, clean, publication, removal>>
      /\ rows' = rows \cup up[u].landed /\ unsettled' = unsettled \ up[u].replaced
      /\ RecordStorageDelta(Bytes[up[u].landed] - Bytes[up[u].replaced])
      /\ IF up[u].replaced = {} THEN Ends(u) ELSE Goes(u, "unlink")
    BY DEF Insert
<1>2. /\ up' \in UpType /\ up'[u].step \in {"idle", "unlink"}
      /\ up'[u].replaced = up[u].replaced
      /\ up'[u].landed \subseteq RangeOf(up'[u].queue)
      /\ \A v \in Uploads \ {u} : up'[v] = up[v]
      /\ up'[u].step = "idle" => up[u].replaced = {}
    <2>1. CASE up[u].replaced = {}
        BY <1>t, <1>1, <2>1, EndsEffect DEF NoUpload
    <2>2. CASE up[u].replaced # {}
        BY <1>t, <1>1, <2>2, GoesEffect
    <2> QED BY <2>1, <2>2
<1>3. /\ Coming(u)' = {} /\ Coming(u) = RangeOf(up[u].queue)
      /\ \A v \in Uploads \ {u} : Coming(v)' = Coming(v)
      /\ \A v \in Uploads : up'[v].replaced = up[v].replaced
      /\ Going' \subseteq Going /\ Placed' = Placed
    BY <1>1, <1>2 DEF Coming, Going, Placed, removal
<1>4. used' \in Nat
    <2>1. Bytes[up[u].landed] - Bytes[up[u].replaced] \in Int
        BY <1>t, AlbumSizesAssumption
    <2> QED BY <1>t, <1>1, <2>1, DeltaType
<1>5. TypeOK'
    BY <1>t, <1>1, <1>2, <1>4 DEF PageInv, TypeOK, UpType, publication, removal
<1>6. IdsAreSpent' /\ ComingIsNew' /\ GoingIsGone'
    <2>1. up[u].landed \subseteq Coming(u)
        BY <1>t, <1>3
    <2>2. IdsAreSpent'
        BY <1>1, <1>3, <2>1 DEF PageInv, IdsAreSpent
    <2>3. ComingIsNew'
        BY <1>1, <1>3, <2>1 DEF PageInv, ComingIsNew
    <2>4. GoingIsGone'
        BY <1>1, <1>3, <2>1 DEF PageInv, ComingIsNew, GoingIsGone
    <2> QED BY <2>2, <2>3, <2>4
<1>7. LandedIsStored' /\ PagesHaveObjects'
    BY <1>1, <1>2 DEF PageInv, LandedIsStored, PagesHaveObjects
<1>8. ReplacedIsGone'
    <2>1. \A v \in Uploads : up[u].landed \cap up[v].replaced = {}
        BY <1>t, <1>3 DEF PageInv, ComingIsNew
    <2> QED BY <1>1, <1>2, <2>1 DEF PageInv, ReplacedIsGone
<1> QED BY <1>5, <1>6, <1>7, <1>8 DEF PageInv

\* The page of a DELETE leaves the book for good.
LEMMA DeletePageKeeps == ASSUME PageInv, NEW p \in Pages, DeletePage(p) PROVE PageInv'
<1>1. /\ p \in rows /\ rows' = rows \ {p} /\ refunding' = refunding \cup {p}
      /\ unsettled' = unsettled \cup {p}
      /\ UNCHANGED <<place, objects, used, clean, publication, up, unlinking>>
    BY DEF DeletePage
<1>2. Going' = Going \cup {p} /\ Placed' = Placed /\ \A u \in Uploads : Coming(u)' = Coming(u)
    BY <1>1 DEF Going, Placed, Coming
<1>3. TypeOK'
    BY <1>1 DEF PageInv, TypeOK, publication
<1>4. IdsAreSpent' /\ ComingIsNew' /\ GoingIsGone'
    BY <1>1, <1>2 DEF PageInv, IdsAreSpent, ComingIsNew, GoingIsGone
<1>5. LandedIsStored' /\ PagesHaveObjects' /\ ReplacedIsGone'
    BY <1>1 DEF PageInv, LandedIsStored, PagesHaveObjects, ReplacedIsGone
<1> QED BY <1>3, <1>4, <1>5 DEF PageInv

\* Every step keeps it.
LEMMA PageNext == PageInv /\ [Next]_vars => PageInv'
<1> SUFFICES ASSUME PageInv, [Next]_vars PROVE PageInv'
    OBVIOUS
<1>t. /\ up \in UpType /\ used \in Nat /\ published \in BOOLEAN /\ publishing \in BOOLEAN
      /\ clean \in BOOLEAN
    BY DEF PageInv, TypeOK, UpType
<1>1. ASSUME NEW u \in Uploads, InsertFails(u) \/ UploadDies(u) PROVE PageInv'
    <2>1. up' \in UpType /\ \A v \in Uploads : up'[v] \in {up[v], NoUpload}
        BY <1>1, <1>t, EndsEffect DEF InsertFails, UploadDies
    <2> QED
        BY <1>1, <1>t, <2>1, LettingGoKeeps
           DEF InsertFails, UploadDies, table, account, publication, removal, Going
<1>2. ASSUME NEW u \in Uploads, Unlink(u) PROVE PageInv'
    <2>1. up' \in UpType /\ \A v \in Uploads : up'[v] \in {up[v], NoUpload}
        BY <1>2, <1>t, EndsEffect DEF Unlink
    <2>2. objects' \subseteq objects /\ objects \ objects' \subseteq up[u].replaced
        BY <1>2 DEF Unlink
    <2>3. up[u].replaced \cap rows = {} /\ \A v \in Uploads : up[u].replaced \cap Coming(v) = {}
        BY <1>2 DEF Unlink, PageInv, ReplacedIsGone, ComingIsNew
    <2> QED
        BY <1>2, <1>t, <2>1, <2>2, <2>3, LettingGoKeeps
           DEF Unlink, table, account, publication, removal, Going
<1>3. ASSUME NEW p \in Pages, Refund(p) PROVE PageInv'
    <2>1. used' \in Nat
        <3>1. Bytes[{p}] \in Nat
            BY AlbumSizesAssumption
        <3>2. -Bytes[{p}] \in Int
            BY <3>1
        <3> QED BY <1>3, <1>t, <3>2, DeltaType DEF Refund
    <2>2. refunding' \cup unlinking' \cup unsettled' \subseteq Going
        BY <1>3 DEF Refund, Going
    <2> QED
        BY <1>3, <1>t, <2>1, <2>2, LettingGoKeeps DEF Refund, table, publication
<1>4. ASSUME NEW p \in Pages, UnlinkPage(p) PROVE PageInv'
    <2>1. objects' \subseteq objects /\ objects \ objects' \subseteq {p} /\ p \in Going
        BY <1>4 DEF UnlinkPage, Going
    <2>2. p \notin rows /\ \A v \in Uploads : p \notin Coming(v)
        BY <2>1 DEF PageInv, GoingIsGone, ComingIsNew
    <2>3. refunding' \cup unlinking' \cup unsettled' \subseteq Going
        BY <1>4 DEF UnlinkPage, Going, account
    <2> QED
        BY <1>4, <1>t, <2>1, <2>2, <2>3, LettingGoKeeps
           DEF UnlinkPage, table, account, publication
<1>5. ASSUME NEW p \in Pages, DeleteDies(p) PROVE PageInv'
    BY <1>5, <1>t, LettingGoKeeps DEF DeleteDies, table, account, publication, Going
<1>6. CASE CheckPublish \/ Publish \/ Unpublish
    BY <1>6, <1>t, LettingGoKeeps
       DEF CheckPublish, Publish, Unpublish, table, account, removal, Going
<1>7. CASE Recount
    BY <1>7, <1>t, AlbumAssumption, LettingGoKeeps
       DEF Recount, table, publication, removal, Going
<1>8. CASE UNCHANGED vars
    BY <1>8, <1>t, LettingGoKeeps DEF vars, table, account, publication, removal, Going
<1> QED
    BY <1>1, <1>2, <1>3, <1>4, <1>5, <1>6, <1>7, <1>8, PresignKeeps, PutKeeps, SelectKeeps,
       DeleteReplacedKeeps, InsertKeeps, DeletePageKeeps
       DEF Next

LEMMA PageInvariant == Spec => []PageInv
<1>1. Init => PageInv
    BY PageInit
<1>2. PageInv /\ [Next]_vars => PageInv'
    BY PageNext
<1> QED BY <1>1, <1>2, PTL DEF Spec
-----------------------------------------------------------------------------
(***************************************************************************)
(* The counter.  A replacement about to insert gives back what is owed for *)
(* the rows it read; that it and no other removed them is what makes the   *)
(* rows it read and the rows it deleted the same ones - the exception that *)
(* `clean' marks.                                                          *)
(***************************************************************************)
\* What is to be given back is owed, and owed by one request only.
OwedOnce ==
    /\ refunding \subseteq unsettled
    /\ \A u \in Uploads : up[u].step = "insert" =>
         up[u].replaced \subseteq unsettled /\ up[u].replaced \cap refunding = {}
    /\ \A u, v \in Uploads :
         u # v /\ up[u].step = "insert" /\ up[v].step = "insert"
           => up[u].replaced \cap up[v].replaced = {}

DriftInv == PageInv /\ DriftIsExplained /\ (clean => OwedOnce)

LEMMA DriftInit == Init => DriftInv
<1> SUFFICES ASSUME Init PROVE DriftInv
    OBVIOUS
<1>1. PageInv
    BY PageInit
<1>2. rows \cup unsettled = {} /\ used = EventBytes
    BY DEF Init
<1>3. DriftIsExplained
    BY <1>2, AlbumSizesAssumption, AlbumAssumption DEF DriftIsExplained, Owed
<1>4. OwedOnce
    BY DEF Init, OwedOnce, NoUpload
<1> QED BY <1>1, <1>3, <1>4 DEF DriftInv

\* Steps that charge nothing, and bring no replacement to its insert.
LEMMA NothingChargedKeeps ==
    ASSUME DriftInv, PageInv', clean' => clean,
           UNCHANGED <<rows, unsettled, used>>, refunding' \subseteq refunding,
           \A u \in Uploads : up'[u].step = "insert" => up'[u].replaced = {} \/ up'[u] = up[u]
    PROVE  DriftInv'
<1>1. DriftIsExplained'
    BY DEF DriftInv, DriftIsExplained, Owed
<1>2. (clean => OwedOnce)'
    BY DEF DriftInv, OwedOnce
<1> QED BY <1>1, <1>2 DEF DriftInv

\* The rows deleted are owed from then on, by this request alone.
LEMMA DeleteReplacedOwes ==
    ASSUME DriftInv, PageInv', NEW u \in Uploads, DeleteReplaced(u)
    PROVE  DriftInv'
<1> DEFINE gone == OfKind(up[u].kind)
<1>t. up \in UpType
    BY DEF DriftInv, PageInv, TypeOK, UpType
<1>1. /\ up[u].step = "delete" /\ UNCHANGED <<used, removal>>
      /\ rows' = rows \ gone /\ unsettled' = unsettled \cup gone
      /\ clean' = (clean /\ up[u].replaced = gone)
      /\ Goes(u, "insert") /\ gone \subseteq rows
    BY DEF DeleteReplaced, OfKind
<1> HIDE DEF gone
<1>2. /\ up'[u].replaced = up[u].replaced
      /\ \A v \in Uploads \ {u} : up'[v] = up[v]
    BY <1>t, <1>1, GoesEffect
<1>3. rows' \cup unsettled' = rows \cup unsettled
    BY <1>1
<1>4. DriftIsExplained'
    BY <1>1, <1>3 DEF DriftInv, DriftIsExplained, Owed
<1>5. ASSUME clean' PROVE OwedOnce'
    <2>1. OwedOnce /\ up[u].replaced = gone
        BY <1>1, <1>5 DEF DriftInv
    <2>2. gone \cap refunding = {} /\ refunding' = refunding
        BY <1>1 DEF DriftInv, PageInv, GoingIsGone, Going, removal
    <2>3. \A v \in Uploads \ {u} : up[v].step = "insert" => up[v].replaced \cap gone = {}
        BY <1>1 DEF DriftInv, PageInv, ReplacedIsGone
    <2> QED BY <1>1, <1>2, <2>1, <2>2, <2>3 DEF OwedOnce
<1> QED BY <1>4, <1>5 DEF DriftInv

\* What is taken away from a sum of bytes is at most what is given back for it.
LEMMA BytesOfFewer ==
    ASSUME NEW S \in SUBSET Pages, NEW R \in SUBSET Pages
    PROVE  /\ Bytes[S] \in Nat /\ Bytes[R] \in Nat /\ Bytes[S \ R] \in Nat
           /\ Bytes[S \ R] >= Bytes[S] - Bytes[R]
<1> DEFINE T == R \cap S
<1>1. T \in SUBSET S /\ T \in SUBSET R /\ S \ R = S \ T
    OBVIOUS
<1> HIDE DEF T
<1>2. /\ Bytes[S] \in Nat /\ Bytes[T] \in Nat /\ Bytes[S \ T] \in Nat
      /\ Bytes[S \ T] = Bytes[S] - Bytes[T]
    BY <1>1, BytesOfRest
<1>3. /\ Bytes[R] \in Nat /\ Bytes[R \ T] \in Nat
      /\ Bytes[R \ T] = Bytes[R] - Bytes[T]
    BY <1>1, BytesOfRest
<1>4. Bytes[T] <= Bytes[R]
    BY <1>2, <1>3
<1>5. Bytes[S \ R] = Bytes[S \ T]
    BY <1>1
<1> QED BY <1>2, <1>3, <1>4, <1>5

\* The transaction charges for what landed less what is owed for the replaced.
LEMMA InsertSettles ==
    ASSUME DriftInv, PageInv', NEW u \in Uploads, Insert(u)
    PROVE  DriftInv'
<1> DEFINE landed == up[u].landed
           replaced == up[u].replaced
<1>t. /\ up \in UpType /\ rows \subseteq Pages /\ unsettled \subseteq Pages /\ used \in Nat
      /\ landed \in SUBSET Pages /\ replaced \in SUBSET Pages
    BY DEF DriftInv, PageInv, TypeOK, UpType
<1>1. /\ up[u].step = "insert" /\ UNCHANGED <<clean, removal>>
      /\ rows' = rows \cup landed /\ unsettled' = unsettled \ replaced
      /\ used' = AtLeastZero(used + (Bytes[landed] - Bytes[replaced]))
      /\ IF replaced = {} THEN Ends(u) ELSE Goes(u, "unlink")
    BY DEF Insert, RecordStorageDelta
<1>2. up'[u].step \in {"idle", "unlink"} /\ \A v \in Uploads \ {u} : up'[v] = up[v]
    <2>1. CASE replaced = {}
        BY <1>t, <1>1, <2>1, EndsEffect DEF NoUpload
    <2>2. CASE replaced # {}
        BY <1>t, <1>1, <2>2, GoesEffect
    <2> QED BY <2>1, <2>2
<1>3. landed \cap (rows \cup unsettled) = {} /\ replaced \cap rows = {}
    <2>1. landed \subseteq Coming(u)
        BY <1>1 DEF DriftInv, PageInv, TypeOK, Coming
    <2> QED BY <1>1, <2>1 DEF DriftInv, PageInv, ComingIsNew, ReplacedIsGone, Going
<1> HIDE DEF landed, replaced
<1>4. ASSUME clean PROVE replaced \subseteq unsettled /\ replaced \cap refunding = {}
    BY <1>1, <1>4 DEF DriftInv, OwedOnce, replaced
<1>5. ASSUME clean PROVE used' = EventBytes + Bytes[rows' \cup unsettled']
    <2> DEFINE S == rows \cup unsettled
    <2>1. rows' \cup unsettled' = (S \ replaced) \cup landed
        BY <1>1, <1>3
    <2>2. S \in SUBSET Pages /\ replaced \in SUBSET S /\ (S \ replaced) \cap landed = {}
        BY <1>t, <1>3, <1>4, <1>5
    <2>3. used = EventBytes + Bytes[S]
        BY <1>5 DEF DriftInv, DriftIsExplained, Owed
    <2> HIDE DEF S
    <2>4. /\ Bytes[S] \in Nat /\ Bytes[replaced] \in Nat /\ Bytes[S \ replaced] \in Nat
          /\ Bytes[S \ replaced] = Bytes[S] - Bytes[replaced]
        BY <2>2, BytesOfRest
    <2>5. /\ Bytes[landed] \in Nat
          /\ Bytes[(S \ replaced) \cup landed] = Bytes[S \ replaced] + Bytes[landed]
        BY <1>t, <2>2, BytesOfBoth
    <2>6. Bytes[rows' \cup unsettled'] = Bytes[S] - Bytes[replaced] + Bytes[landed]
        BY <2>1, <2>4, <2>5
    <2> HIDE <2>1
    <2> QED BY <1>1, <2>3, <2>4, <2>5, <2>6, AlbumAssumption DEF AtLeastZero
<1>6. used' <= EventBytes + Bytes[rows' \cup unsettled']
    <2> DEFINE S == rows \cup unsettled
    <2>1. rows' \cup unsettled' = (S \ replaced) \cup landed
        BY <1>1, <1>3
    <2>2. S \in SUBSET Pages /\ (S \ replaced) \cap landed = {}
        BY <1>t, <1>3
    <2>3. used <= EventBytes + Bytes[S]
        BY DEF DriftInv, DriftIsExplained, Owed
    <2> HIDE DEF S
    <2>4. /\ Bytes[S] \in Nat /\ Bytes[replaced] \in Nat /\ Bytes[S \ replaced] \in Nat
          /\ Bytes[S \ replaced] >= Bytes[S] - Bytes[replaced]
        BY <1>t, <2>2, BytesOfFewer DEF replaced
    <2>5. /\ Bytes[landed] \in Nat
          /\ Bytes[(S \ replaced) \cup landed] = Bytes[S \ replaced] + Bytes[landed]
        BY <1>t, <2>2, BytesOfBoth
    <2>6. Bytes[rows' \cup unsettled'] = Bytes[S \ replaced] + Bytes[landed]
        BY <2>1, <2>5
    <2> HIDE <2>1
    <2> QED BY <1>t, <1>1, <2>3, <2>4, <2>5, <2>6, AlbumAssumption DEF AtLeastZero
<1>8. DriftIsExplained'
    BY <1>1, <1>5, <1>6 DEF DriftIsExplained, Owed
<1>7. ASSUME clean' PROVE OwedOnce'
    <2>1. OwedOnce /\ clean
        BY <1>1, <1>7 DEF DriftInv
    <2>2. \A v \in Uploads \ {u} : up[v].step = "insert" => up[v].replaced \cap replaced = {}
        BY <1>1, <2>1 DEF OwedOnce, replaced
    <2>3. refunding' = refunding
        BY <1>1 DEF removal
    <2> QED BY <1>1, <1>2, <1>4, <2>1, <2>2, <2>3 DEF OwedOnce
<1> QED BY <1>7, <1>8 DEF DriftInv

\* The page of a DELETE goes on being charged for until it is refunded ...
LEMMA DeletePageOwes ==
    ASSUME DriftInv, PageInv', NEW p \in Pages, DeletePage(p)
    PROVE  DriftInv'
<1>1. /\ p \in rows /\ rows' = rows \ {p} /\ refunding' = refunding \cup {p}
      /\ unsettled' = unsettled \cup {p} /\ UNCHANGED <<used, clean, up>>
    BY DEF DeletePage
<1>2. rows' \cup unsettled' = rows \cup unsettled
    BY <1>1
<1>3. DriftIsExplained'
    BY <1>1, <1>2 DEF DriftInv, DriftIsExplained, Owed
<1>4. \A u \in Uploads : up[u].step = "insert" => p \notin up[u].replaced
    BY <1>1 DEF DriftInv, PageInv, ReplacedIsGone
<1>5. (clean => OwedOnce)'
    BY <1>1, <1>4 DEF DriftInv, OwedOnce
<1> QED BY <1>3, <1>5 DEF DriftInv

\* ... once.
LEMMA RefundSettles ==
    ASSUME DriftInv, PageInv', NEW p \in Pages, Refund(p)
    PROVE  DriftInv'
<1>t. rows \subseteq Pages /\ unsettled \subseteq Pages
    BY DEF DriftInv, PageInv, TypeOK
<1>1. /\ p \in refunding /\ refunding' = refunding \ {p} /\ unsettled' = unsettled \ {p}
      /\ used' = AtLeastZero(used + (-Bytes[{p}])) /\ UNCHANGED <<rows, clean, up>>
    BY DEF Refund, RecordStorageDelta, table
<1>2. p \notin rows
    BY <1>1 DEF DriftInv, PageInv, GoingIsGone, Going
<1>3. ASSUME clean PROVE used' = EventBytes + Bytes[rows' \cup unsettled']
    <2> DEFINE S == rows \cup unsettled
    <2>1. rows' \cup unsettled' = S \ {p} /\ S \in SUBSET Pages
        BY <1>t, <1>1, <1>2
    <2>2. {p} \in SUBSET S
        BY <1>1, <1>3 DEF DriftInv, OwedOnce
    <2>3. used = EventBytes + Bytes[S]
        BY <1>3 DEF DriftInv, DriftIsExplained, Owed
    <2> HIDE DEF S
    <2>4. /\ Bytes[S] \in Nat /\ Bytes[{p}] \in Nat /\ Bytes[S \ {p}] \in Nat
          /\ Bytes[S \ {p}] = Bytes[S] - Bytes[{p}]
        BY <2>1, <2>2, BytesOfRest
    <2>5. Bytes[rows' \cup unsettled'] = Bytes[S] - Bytes[{p}]
        BY <2>1, <2>4
    <2> HIDE <2>1
    <2> QED BY <1>1, <2>3, <2>4, <2>5, AlbumAssumption DEF AtLeastZero
<1>4. used' <= EventBytes + Bytes[rows' \cup unsettled']
    <2> DEFINE S == rows \cup unsettled
    <2>1. rows' \cup unsettled' = S \ {p} /\ S \in SUBSET Pages /\ {p} \in SUBSET Pages
        BY <1>t, <1>1, <1>2
    <2>2. used <= EventBytes + Bytes[S] /\ used \in Nat
        BY DEF DriftInv, DriftIsExplained, Owed, PageInv, TypeOK
    <2> HIDE DEF S
    <2>3. /\ Bytes[S] \in Nat /\ Bytes[{p}] \in Nat /\ Bytes[S \ {p}] \in Nat
          /\ Bytes[S \ {p}] >= Bytes[S] - Bytes[{p}]
        BY <2>1, BytesOfFewer
    <2>4. Bytes[rows' \cup unsettled'] = Bytes[S \ {p}]
        BY <2>1
    <2> HIDE <2>1
    <2> QED BY <1>1, <2>2, <2>3, <2>4, AlbumAssumption DEF AtLeastZero
<1>6. DriftIsExplained'
    BY <1>1, <1>3, <1>4 DEF DriftIsExplained, Owed
<1>5. (clean => OwedOnce)'
    BY <1>1 DEF DriftInv, OwedOnce
<1> QED BY <1>5, <1>6 DEF DriftInv

LEMMA DriftNext == DriftInv /\ [Next]_vars => DriftInv'
<1> SUFFICES ASSUME DriftInv, [Next]_vars PROVE DriftInv'
    OBVIOUS
<1>t. up \in UpType
    BY DEF DriftInv, PageInv, TypeOK, UpType
<1>p. PageInv'
    BY PageNext DEF DriftInv
<1>1. ASSUME NEW u \in Uploads, NEW kind \in Kinds, NEW batch \in Batches, Presign(u, kind, batch)
      PROVE  DriftInv'
    <2>1. \A v \in Uploads : up'[v].step = "insert" => up'[v].replaced = {} \/ up'[v] = up[v]
        BY <1>1, <1>t DEF Presign, UpType, NoUpload
    <2> QED BY <1>1, <1>p, <2>1, NothingChargedKeeps DEF Presign, account, removal
<1>2. ASSUME NEW u \in Uploads, Put(u) PROVE DriftInv'
    <2>1. up[u].replaced = {}
        BY <1>2 DEF Put, DriftInv, PageInv, ReplacedIsGone
    <2>2. \A v \in Uploads : up'[v].step = "insert" => up'[v].replaced = {} \/ up'[v] = up[v]
        BY <1>2, <1>t, <2>1 DEF Put, Ends, UpType, NoUpload
    <2> QED BY <1>2, <1>p, <2>2, NothingChargedKeeps DEF Put, table, account, removal
<1>3. ASSUME NEW u \in Uploads, Select(u) PROVE DriftInv'
    <2>1. \A v \in Uploads : up'[v].step = "insert" => up'[v].replaced = {} \/ up'[v] = up[v]
        BY <1>3, <1>t DEF Select, UpType
    <2> QED BY <1>3, <1>p, <2>1, NothingChargedKeeps DEF Select, table, account, removal
<1>4. ASSUME NEW u \in Uploads, InsertFails(u) \/ Unlink(u) \/ UploadDies(u) PROVE DriftInv'
    <2>1. \A v \in Uploads : up'[v].step = "insert" => up'[v].replaced = {} \/ up'[v] = up[v]
        BY <1>4, <1>t, EndsEffect DEF InsertFails, Unlink, UploadDies, NoUpload
    <2> QED
        BY <1>4, <1>p, <2>1, NothingChargedKeeps
           DEF InsertFails, Unlink, UploadDies, table, account, removal
<1>5. ASSUME NEW p \in Pages, UnlinkPage(p) \/ DeleteDies(p) PROVE DriftInv'
    BY <1>5, <1>p, NothingChargedKeeps DEF UnlinkPage, DeleteDies, table, account
<1>6. CASE CheckPublish \/ Publish \/ Unpublish \/ UNCHANGED vars
    BY <1>6, <1>p, NothingChargedKeeps
       DEF CheckPublish, Publish, Unpublish, vars, table, account, removal
<1>7. CASE Recount
    <2>1. rows \cup unsettled \in SUBSET Pages
        BY DEF DriftInv, PageInv, TypeOK
    <2>2. Bytes[rows \cup unsettled] \in Nat
        BY <2>1, AlbumSizesAssumption
    <2>3. EventBytes <= EventBytes + Bytes[rows \cup unsettled]
        BY <2>2, AlbumAssumption
    <2> QED BY <1>7, <1>p, <2>3 DEF Recount, table, DriftInv, DriftIsExplained, Owed
<1> QED
    BY <1>1, <1>2, <1>3, <1>4, <1>5, <1>6, <1>7, <1>p, DeleteReplacedOwes, InsertSettles,
       DeletePageOwes, RefundSettles
       DEF Next

LEMMA DriftInvariant == Spec => []DriftInv
<1>1. Init => DriftInv
    BY DriftInit
<1>2. DriftInv /\ [Next]_vars => DriftInv'
    BY DriftNext
<1> QED BY <1>1, <1>2, PTL DEF Spec

-----------------------------------------------------------------------------
(***************************************************************************)
(* The order of the pages.  The unique index keeps the places of the rows  *)
(* apart, and a place never changes once it was given; two uploads may     *)
(* hold the same places, and then one of them fails.                       *)
(***************************************************************************)
\* Rows differ in their place; so do the pages of one upload; covers are at 0.
PlacesDiffer == \A p, q \in rows : place[p] = place[q] => p = q
SelectionsDiffer ==
    \A u \in Uploads : \A p, q \in Coming(u) : place[p] = place[q] => p = q
CoversAreAtZero == \A p \in Pages : place[p].kind # "spread" => place[p].position = 0

BookInv == PageInv /\ PlacesDiffer /\ SelectionsDiffer /\ CoversAreAtZero

LEMMA BookInit == Init => BookInv
<1> SUFFICES ASSUME Init PROVE BookInv
    OBVIOUS
<1>1. PageInv
    BY PageInit
<1>2. PlacesDiffer /\ SelectionsDiffer /\ CoversAreAtZero
    BY DEF Init, PlacesDiffer, SelectionsDiffer, Coming, NoUpload, CoversAreAtZero, Unplaced
<1> QED BY <1>1, <1>2 DEF BookInv

\* Steps that place no page and insert none.
LEMMA NothingPlacedKeeps ==
    ASSUME BookInv, PageInv', place' = place, rows' \subseteq rows,
           \A u \in Uploads : Coming(u)' \subseteq Coming(u)
    PROVE  BookInv'
<1>1. PlacesDiffer' /\ CoversAreAtZero'
    BY DEF BookInv, PlacesDiffer, CoversAreAtZero
<1>2. SelectionsDiffer'
    BY DEF BookInv, SelectionsDiffer
<1> QED BY <1>1, <1>2 DEF BookInv

\* The positions of a selection count on from the first free one.
LEMMA PresignPlaces ==
    ASSUME BookInv, PageInv', NEW u \in Uploads, NEW kind \in Kinds, NEW batch \in Batches,
           Presign(u, kind, batch)
    PROVE  BookInv'
<1> DEFINE ids == RangeOf(batch)
           index == [p \in ids |-> CHOOSE i \in DOMAIN batch : batch[i] = p]
<1>t. /\ up \in UpType /\ batch \in Seq(Pages) /\ ids \subseteq Pages
      /\ DOMAIN batch = 1..Len(batch) /\ Len(batch) \in Nat
    BY AlbumAssumption DEF BookInv, PageInv, TypeOK, UpType, RangeOf
<1>1. /\ up[u].step = "idle" /\ rows' = rows
      /\ \A p \in ids : place[p] = Unplaced
      /\ kind # "spread" => Len(batch) = 1
      /\ up'[u].step = "put" /\ up'[u].queue = batch
      /\ \A v \in Uploads \ {u} : up'[v] = up[v]
    BY <1>t DEF Presign, UpType, NoUpload
<1>2. \A p \in ids : index[p] \in 1..Len(batch) /\ batch[index[p]] = p
    BY <1>t DEF RangeOf
<1>3. NextSpreadPosition \in Nat
    BY NextPositionType DEF BookInv, PageInv
<1>4. /\ \A p \in ids :
           /\ place'[p].kind = kind
           /\ place'[p].position =
                IF kind = "spread" THEN NextSpreadPosition + index[p] - 1 ELSE 0
      /\ \A p \in Pages \ ids : place'[p] = place[p]
    <2>1. /\ \A p \in ids : place'[p] = PlaceOf(kind, batch, p)
          /\ \A p \in Pages \ ids : place'[p] = place[p]
        BY <1>t DEF Presign
    <2>2. ASSUME NEW p \in ids
          PROVE  /\ PlaceOf(kind, batch, p).kind = kind
                 /\ PlaceOf(kind, batch, p).position =
                      IF kind = "spread" THEN NextSpreadPosition + index[p] - 1 ELSE 0
        BY DEF PlaceOf
    <2> HIDE DEF ids, index
    <2> QED BY <2>1, <2>2
<1>5. ASSUME NEW p \in ids, NEW q \in ids, place'[p] = place'[q] PROVE p = q
    <2> HIDE DEF index, ids
    <2>1. CASE kind = "spread"
        <3>1. NextSpreadPosition + index[p] - 1 = NextSpreadPosition + index[q] - 1
            BY <1>4, <1>5, <2>1
        <3>2. index[p] \in Int /\ index[q] \in Int
            BY <1>2
        <3>3. index[p] = index[q]
            BY <1>3, <3>1, <3>2
        <3> QED BY <1>2, <3>3
    <2>2. CASE kind # "spread"
        <3>1. Len(batch) = 1
            BY <1>1, <2>2
        <3>2. index[p] = 1 /\ index[q] = 1
            BY <1>2, <3>1
        <3> QED BY <1>2, <3>2
    <2> QED BY <2>1, <2>2
<1>6. CoversAreAtZero'
    <2> HIDE DEF index, ids
    <2> QED BY <1>4 DEF BookInv, CoversAreAtZero
<1> HIDE DEF index, ids
<1>7. rows \cap ids = {} /\ \A v \in Uploads : Coming(v) \cap ids = {}
    BY <1>1 DEF BookInv, PageInv, IdsAreSpent, Placed
<1>8. Coming(u)' = ids /\ \A v \in Uploads \ {u} : Coming(v)' = Coming(v)
    BY <1>1 DEF Coming, ids
<1>9. PlacesDiffer'
    <2>1. \A p \in rows : p \in Pages \ ids
        BY <1>7 DEF BookInv, PageInv, TypeOK
    <2> QED BY <1>1, <1>4, <2>1 DEF BookInv, PlacesDiffer
<1>10. SelectionsDiffer'
    <2>1. \A v \in Uploads : \A p \in Coming(v) : p \in Pages \ ids
        BY <1>7 DEF BookInv, PageInv, IdsAreSpent, Placed
    <2> QED BY <1>4, <1>5, <1>8, <2>1 DEF BookInv, SelectionsDiffer
<1> QED BY <1>6, <1>9, <1>10 DEF BookInv

\* What the unique index lets in is at a place of its own.
LEMMA InsertPlaces ==
    ASSUME BookInv, PageInv', NEW u \in Uploads, Insert(u)
    PROVE  BookInv'
<1> DEFINE landed == up[u].landed
<1>t. up \in UpType /\ landed \subseteq RangeOf(up[u].queue)
    BY DEF BookInv, PageInv, TypeOK, UpType
<1>1. /\ up[u].step = "insert" /\ UNCHANGED place /\ rows' = rows \cup landed
      /\ \A p \in landed, q \in rows : place[p] # place[q]
      /\ IF up[u].replaced = {} THEN Ends(u) ELSE Goes(u, "unlink")
    BY DEF Insert, Clashes
<1>2. up'[u].step \in {"idle", "unlink"} /\ \A v \in Uploads \ {u} : up'[v] = up[v]
    <2>1. CASE up[u].replaced = {}
        BY <1>t, <1>1, <2>1, EndsEffect DEF NoUpload
    <2>2. CASE up[u].replaced # {}
        BY <1>t, <1>1, <2>2, GoesEffect
    <2> QED BY <2>1, <2>2
<1>3. landed \subseteq Coming(u)
    BY <1>t, <1>1 DEF Coming
<1>4. \A v \in Uploads : Coming(v)' \subseteq Coming(v)
    BY <1>2 DEF Coming
<1> HIDE DEF landed
<1>5. PlacesDiffer'
    BY <1>1, <1>3 DEF BookInv, PlacesDiffer, SelectionsDiffer
<1>6. SelectionsDiffer' /\ CoversAreAtZero'
    BY <1>1, <1>4 DEF BookInv, SelectionsDiffer, CoversAreAtZero
<1> QED BY <1>5, <1>6 DEF BookInv

LEMMA BookNext == BookInv /\ [Next]_vars => BookInv'
<1> SUFFICES ASSUME BookInv, [Next]_vars PROVE BookInv'
    OBVIOUS
<1>t. up \in UpType
    BY DEF BookInv, PageInv, TypeOK, UpType
<1>p. PageInv'
    BY PageNext DEF BookInv
<1>1. ASSUME NEW u \in Uploads, Put(u) PROVE BookInv'
    <2>1. \A v \in Uploads : Coming(v)' \subseteq Coming(v)
        BY <1>1, <1>t DEF Put, Ends, Coming, UpType, NoUpload
    <2> QED BY <1>1, <1>p, <2>1, NothingPlacedKeeps DEF Put, table
<1>2. ASSUME NEW u \in Uploads, Select(u) PROVE BookInv'
    <2>1. \A v \in Uploads : Coming(v)' \subseteq Coming(v)
        BY <1>2, <1>t DEF Select, Coming, UpType
    <2> QED BY <1>2, <1>p, <2>1, NothingPlacedKeeps DEF Select, table
<1>3. ASSUME NEW u \in Uploads, DeleteReplaced(u) PROVE BookInv'
    <2>1. \A v \in Uploads : Coming(v)' \subseteq Coming(v)
        BY <1>3, <1>t, GoesEffect DEF DeleteReplaced, Coming
    <2> QED BY <1>3, <1>p, <2>1, NothingPlacedKeeps DEF DeleteReplaced
<1>4. ASSUME NEW u \in Uploads, InsertFails(u) \/ Unlink(u) \/ UploadDies(u) PROVE BookInv'
    <2>1. \A v \in Uploads : Coming(v)' \subseteq Coming(v)
        BY <1>4, <1>t, EndsEffect DEF InsertFails, Unlink, UploadDies, Coming, NoUpload
    <2> QED BY <1>4, <1>p, <2>1, NothingPlacedKeeps DEF InsertFails, Unlink, UploadDies, table
<1>5. ASSUME NEW p \in Pages, DeletePage(p) \/ Refund(p) \/ UnlinkPage(p) \/ DeleteDies(p)
      PROVE  BookInv'
    BY <1>5, <1>p, NothingPlacedKeeps
       DEF DeletePage, Refund, UnlinkPage, DeleteDies, table, Coming
<1>6. CASE CheckPublish \/ Publish \/ Unpublish \/ Recount \/ UNCHANGED vars
    BY <1>6, <1>p, NothingPlacedKeeps
       DEF CheckPublish, Publish, Unpublish, Recount, vars, table, Coming
<1> QED
    BY <1>1, <1>2, <1>3, <1>4, <1>5, <1>6, <1>p, PresignPlaces, InsertPlaces DEF Next

LEMMA BookInvariant == Spec => []BookInv
<1>1. Init => BookInv
    BY BookInit
<1>2. BookInv /\ [Next]_vars => BookInv'
    BY BookNext
<1> QED BY <1>1, <1>2, PTL DEF Spec

-----------------------------------------------------------------------------
(***************************************************************************)
(* The book.                                                               *)
(***************************************************************************)
\* Spreads differ in their position; a cover of either kind is the only one.
LEMMA OnePagePerPlace ==
    ASSUME BookInv
    PROVE  /\ IsFiniteSet(OfKind("spread")) /\ OfKind("spread") \subseteq Pages
           /\ \A p \in OfKind("spread") : place[p].position \in Int
           /\ \A p, q \in OfKind("spread") :
                place[p].position = place[q].position => p = q
           /\ \A kind \in {"cover", "back"} : \A p, q \in OfKind(kind) : p = q
<1>1. rows \subseteq Pages /\ place \in [Pages -> [kind : Kinds, position : Nat \cup {-1}]]
    BY DEF BookInv, PageInv, TypeOK
<1>2. IsFiniteSet(OfKind("spread"))
    BY <1>1, AlbumSizesAssumption, FS_Subset DEF OfKind
<1>3. ASSUME NEW p \in rows, NEW q \in rows,
             place[p].kind = place[q].kind, place[p].position = place[q].position
      PROVE  p = q
    <2>1. place[p] = place[q]
        BY <1>1, <1>3
    <2> QED BY <2>1 DEF BookInv, PlacesDiffer
<1>4. \A p \in OfKind("spread") : p \in Pages /\ place[p].position \in Int
    BY <1>1 DEF OfKind
<1>5. \A p, q \in OfKind("spread") : place[p].position = place[q].position => p = q
    BY <1>3 DEF OfKind
<1>6. ASSUME NEW kind \in {"cover", "back"}, NEW p \in OfKind(kind), NEW q \in OfKind(kind)
      PROVE  p = q
    <2>1. place[p].position = 0 /\ place[q].position = 0
        BY <1>1 DEF BookInv, CoversAreAtZero, OfKind
    <2> QED BY <1>3, <2>1 DEF OfKind
<1> QED BY <1>2, <1>4, <1>5, <1>6

\* How many spreads there are up to p says where p is among them.
LEMMA UpToOrders ==
    ASSUME BookInv, NEW p \in OfKind("spread")
    PROVE  /\ Cardinality(UpTo(p)) \in 1..Cardinality(OfKind("spread"))
           /\ \A q \in OfKind("spread") : place[p].position < place[q].position =>
                Cardinality(UpTo(p)) < Cardinality(UpTo(q))
<1> DEFINE spreads == OfKind("spread")
<1>1. /\ IsFiniteSet(spreads) /\ \A q \in spreads : place[q].position \in Int
    BY OnePagePerPlace
<1> HIDE DEF spreads
<1>2. ASSUME NEW q \in spreads
      PROVE  /\ IsFiniteSet(UpTo(q)) /\ UpTo(q) \subseteq spreads /\ q \in UpTo(q)
             /\ Cardinality(UpTo(q)) \in Nat
             /\ Cardinality(UpTo(q)) <= Cardinality(spreads)
    <2>1. UpTo(q) \subseteq spreads /\ q \in UpTo(q)
        BY <1>1 DEF UpTo, spreads
    <2> QED BY <1>1, <2>1, FS_Subset, FS_CardinalityType
<1>3. p \in spreads
    BY DEF spreads
<1>4. Cardinality(UpTo(p)) # 0
    BY <1>2, <1>3, FS_EmptySet
<1>5. ASSUME NEW q \in spreads, place[p].position < place[q].position
      PROVE  Cardinality(UpTo(p)) < Cardinality(UpTo(q))
    <2>1. UpTo(p) \subseteq UpTo(q) \ {q}
        BY <1>1, <1>3, <1>5 DEF UpTo, spreads
    <2>2. IsFiniteSet(UpTo(q) \ {q}) /\ Cardinality(UpTo(q) \ {q}) = Cardinality(UpTo(q)) - 1
        BY <1>2, FS_RemoveElement
    <2>3. Cardinality(UpTo(p)) <= Cardinality(UpTo(q)) - 1
        BY <2>1, <2>2, FS_Subset
    <2> QED BY <1>2, <1>3, <2>3
<1>6. Cardinality(spreads) \in Nat
    BY <1>1, FS_CardinalityType
<1> QED BY <1>2, <1>3, <1>4, <1>5, <1>6 DEF spreads

\* ORDER BY position: a list of all the spreads, in ascending order.
LEMMA SpreadsAreInOrder ==
    ASSUME BookInv
    PROVE  /\ SpreadsInOrder \in Seq(OfKind("spread"))
           /\ Len(SpreadsInOrder) = Cardinality(OfKind("spread"))
           /\ DOMAIN SpreadsInOrder = 1..Len(SpreadsInOrder)
           /\ \A p \in OfKind("spread") : \E k \in DOMAIN SpreadsInOrder : SpreadsInOrder[k] = p
           /\ \A k, m \in DOMAIN SpreadsInOrder : k < m =>
                place[SpreadsInOrder[k]].position < place[SpreadsInOrder[m]].position
<1> DEFINE spreads == OfKind("spread")
           n == Cardinality(spreads)
           count == [p \in spreads |-> Cardinality(UpTo(p))]
           at(k) == CHOOSE p \in spreads : Cardinality(UpTo(p)) = k
<1>1. /\ IsFiniteSet(spreads) /\ n \in Nat
      /\ \A p \in spreads : place[p].position \in Int
      /\ \A p, q \in spreads : place[p].position = place[q].position => p = q
    BY OnePagePerPlace, FS_CardinalityType
<1>2. /\ count \in [spreads -> 1..n]
      /\ \A p, q \in spreads : place[p].position < place[q].position => count[p] < count[q]
    BY UpToOrders
<1>s. SpreadsInOrder = [k \in 1..n |-> at(k)]
    BY DEF SpreadsInOrder
<1>c. \A p \in spreads : count[p] = Cardinality(UpTo(p))
    OBVIOUS
<1> HIDE DEF spreads, n, count
<1>3. ASSUME NEW p \in spreads, NEW q \in spreads, count[p] = count[q] PROVE p = q
    <2>1. count[p] \in Int /\ count[q] \in Int
        BY <1>2
    <2>2. place[p].position = place[q].position
        BY <1>1, <1>2, <1>3, <2>1
    <2> QED BY <1>1, <2>2
<1>4. count \in Injection(spreads, 1..n)
    BY <1>2, <1>3, Fun_IsInj
<1>5. IsFiniteSet(1..n) /\ Cardinality(1..n) = n
    BY <1>1, FS_Interval
<1>6. count \in Surjection(spreads, 1..n)
    BY <1>1, <1>4, <1>5, FS_Injection DEF n
<1>7. \A k \in 1..n : \E p \in spreads : count[p] = k
    BY <1>6 DEF Surjection
<1>8. ASSUME NEW k \in 1..n PROVE at(k) \in spreads /\ count[at(k)] = k
    <2>1. \E p \in spreads : Cardinality(UpTo(p)) = k
        BY <1>7, <1>c
    <2>2. at(k) \in spreads /\ Cardinality(UpTo(at(k))) = k
        BY <2>1
    <2> QED BY <2>2, <1>c
<1> HIDE DEF at
<1>9. SpreadsInOrder \in [1..n -> spreads] /\ \A k \in 1..n : count[SpreadsInOrder[k]] = k
    BY <1>s, <1>8
<1>10. /\ SpreadsInOrder \in Seq(spreads) /\ Len(SpreadsInOrder) = n
       /\ DOMAIN SpreadsInOrder = 1..Len(SpreadsInOrder)
    BY <1>1, <1>9
<1>11. \A p \in spreads : count[p] \in 1..n /\ SpreadsInOrder[count[p]] = p
    BY <1>2, <1>3, <1>9
<1>12. ASSUME NEW k \in 1..n, NEW m \in 1..n, k < m
       PROVE  place[SpreadsInOrder[k]].position < place[SpreadsInOrder[m]].position
    <2> DEFINE p == SpreadsInOrder[k]
               q == SpreadsInOrder[m]
    <2>1. p \in spreads /\ q \in spreads /\ count[p] = k /\ count[q] = m
        BY <1>9
    <2>2. place[p].position \in Int /\ place[q].position \in Int
        BY <1>1, <2>1
    <2>3. p # q /\ ~(place[q].position < place[p].position)
        BY <1>2, <1>12, <2>1
    <2> QED BY <1>1, <2>1, <2>2, <2>3
<1> QED BY <1>10, <1>11, <1>12 DEF spreads, n

\* The faces of a book with a cover: the cover, both halves of each spread, and
\* the back cover, or a blank one that makes the number even.
LEMMA FacesOfTheBook ==
    ASSUME NEW cover, NEW back, NEW S, NEW spreads \in Seq(S),
           NEW faces, faces = BuildFaces(cover, spreads, back), cover # NoPage
    PROVE  /\ Len(spreads) \in Nat
           /\ LeafCount(faces) = Len(spreads) + 1
           /\ faces[1] = Full(cover)
           /\ faces[2 * Len(spreads) + 2] = IF back = NoPage THEN Blank ELSE Full(back)
           /\ \A k \in 1..Len(spreads) :
                /\ faces[2 * k] = [page |-> spreads[k], half |-> "left"]
                /\ faces[2 * k + 1] = [page |-> spreads[k], half |-> "right"]
<1> DEFINE n == Len(spreads)
           halves == Halves(spreads)
           F == {Full(cover), Full(back), Blank} \cup {halves[i] : i \in 1..2 * n}
           front == <<Full(cover)>> \o halves
<1>1. n \in Nat
    OBVIOUS
<1>2. /\ DOMAIN halves = 1..2 * n
      /\ \A k \in 1..n : /\ halves[2 * k - 1] = [page |-> spreads[k], half |-> "left"]
                         /\ halves[2 * k] = [page |-> spreads[k], half |-> "right"]
    <2>1. halves = [i \in 1..2 * n |->
                      [page |-> spreads[(i + 1) \div 2],
                       half |-> IF i % 2 = 1 THEN "left" ELSE "right"]]
        BY DEF Halves
    <2> HIDE DEF halves
    <2>2. ASSUME NEW k \in 1..n
          PROVE  /\ 2 * k - 1 \in 1..2 * n /\ ((2 * k - 1) + 1) \div 2 = k /\ (2 * k - 1) % 2 = 1
                 /\ 2 * k \in 1..2 * n /\ (2 * k + 1) \div 2 = k /\ (2 * k) % 2 = 0
        <3> HIDE DEF n
        <3> QED BY <1>1
    <2> HIDE DEF n
    <2> QED BY <2>1, <2>2
<1>3. halves \in Seq(F) /\ Len(halves) = 2 * n
    <2>1. halves \in [1..2 * n -> F] /\ 2 * n \in Nat
        <3>1. halves = [i \in 1..2 * n |-> halves[i]]
            BY DEF Halves
        <3> HIDE DEF halves, n
        <3> QED BY <1>1, <3>1
    <2> HIDE DEF halves, n, F
    <2> QED BY <2>1
<1>4. Full(cover) \in F /\ Full(back) \in F /\ Blank \in F
    OBVIOUS
<1>5. faces = IF Len(front \o Covering(back)) % 2 = 1
              THEN Append(front \o Covering(back), Blank) ELSE front \o Covering(back)
    BY DEF BuildFaces, Covering
<1> HIDE DEF n, halves, F
<1>6. /\ front \in Seq(F) /\ Len(front) = 2 * n + 1
      /\ front[1] = Full(cover)
      /\ \A i \in 1..2 * n : front[i + 1] = halves[i]
    <2>1. <<Full(cover)>> \in Seq(F) /\ Len(<<Full(cover)>>) = 1 /\ <<Full(cover)>>[1] = Full(cover)
        BY <1>4
    <2>2. /\ front \in Seq(F) /\ Len(front) = 1 + 2 * n
          /\ \A i \in 1..1 + 2 * n :
               front[i] = IF i <= 1 THEN <<Full(cover)>>[i] ELSE halves[i - 1]
        BY <1>3, <2>1, ConcatProperties
    <2> HIDE DEF front
    <2>3. front[1] = Full(cover)
        BY <1>1, <2>1, <2>2
    <2>4. ASSUME NEW i \in 1..2 * n PROVE front[i + 1] = halves[i]
        <3>1. i + 1 \in 1..1 + 2 * n /\ ~(i + 1 <= 1) /\ (i + 1) - 1 = i
            BY <1>1
        <3> QED BY <2>2, <3>1
    <2> QED BY <1>1, <2>2, <2>3, <2>4
<1> HIDE DEF front
<1>7. /\ Len(faces) = 2 * n + 2
      /\ \A i \in 1..2 * n + 1 : faces[i] = front[i]
      /\ faces[2 * n + 2] = IF back = NoPage THEN Blank ELSE Full(back)
    <2>1. CASE back = NoPage
        <3>1. front \o Covering(back) = front
            BY <1>6, <2>1, ConcatEmptySeq DEF Covering
        <3>2. Len(front) % 2 = 1
            BY <1>1, <1>6
        <3>3. faces = Append(front, Blank)
            BY <1>5, <3>1, <3>2
        <3> QED BY <1>1, <1>4, <1>6, <2>1, <3>3, AppendProperties
    <2>2. CASE back # NoPage
        <3>1. front \o Covering(back) = Append(front, Full(back))
            BY <1>4, <1>6, <2>2, AppendIsConcat DEF Covering
        <3> DEFINE all == Append(front, Full(back))
        <3>2. /\ Len(all) = 2 * n + 2 /\ \A i \in 1..2 * n + 1 : all[i] = front[i]
              /\ all[2 * n + 2] = Full(back)
            BY <1>1, <1>4, <1>6, AppendProperties
        <3>3. (2 * n + 2) % 2 = 0
            BY <1>1
        <3>4. faces = all
            BY <1>5, <3>1, <3>2, <3>3
        <3> HIDE DEF all
        <3> QED BY <2>2, <3>2, <3>4
    <2> QED BY <2>1, <2>2
<1>8. LeafCount(faces) = n + 1
    BY <1>1, <1>7 DEF LeafCount
<1>9. faces[1] = Full(cover)
    BY <1>1, <1>6, <1>7
<1>10. ASSUME NEW k \in 1..n
       PROVE  /\ faces[2 * k] = [page |-> spreads[k], half |-> "left"]
              /\ faces[2 * k + 1] = [page |-> spreads[k], half |-> "right"]
    <2>1. /\ 2 * k \in 1..2 * n + 1 /\ 2 * k + 1 \in 1..2 * n + 1
          /\ 2 * k - 1 \in 1..2 * n /\ 2 * k \in 1..2 * n /\ (2 * k - 1) + 1 = 2 * k
        BY <1>1
    <2>2. faces[2 * k] = halves[2 * k - 1] /\ faces[2 * k + 1] = halves[2 * k]
        BY <1>6, <1>7, <2>1
    <2> QED BY <1>2, <2>2
<1> QED BY <1>1, <1>7, <1>8, <1>9, <1>10 DEF n

\* A tally has a most common ratio, and a first index that carries it.
LEMMA MajorityWins ==
    ASSUME NEW S, NEW spreads \in Seq(S), Known(spreads) # {}
    PROVE  \A i \in Known(spreads) :
             Votes(spreads, Ratio[spreads[i]]) <= Votes(spreads, Winner(spreads))
<1> DEFINE known == Known(spreads)
           votes == [i \in known |-> Votes(spreads, Ratio[spreads[i]])]
           tallies == {votes[i] : i \in known}
           best == {i \in known : \A j \in known :
                      Votes(spreads, Ratio[spreads[j]]) <= Votes(spreads, Ratio[spreads[i]])}
           opposite == {-i : i \in best}
           first == CHOOSE i \in best : \A j \in best : i <= j
<1>1. known \subseteq 1..Len(spreads) /\ IsFiniteSet(known)
    <2>1. known \subseteq 1..Len(spreads) /\ Len(spreads) \in Nat
        BY DEF Known
    <2>2. IsFiniteSet(1..Len(spreads))
        BY <2>1, FS_Interval
    <2> QED BY <2>1, <2>2, FS_Subset
<1>2. \A i \in known : votes[i] \in Nat
    <2> SUFFICES ASSUME NEW i \in known PROVE Votes(spreads, Ratio[spreads[i]]) \in Nat
        OBVIOUS
    <2>1. {j \in Known(spreads) : Ratio[spreads[j]] = Ratio[spreads[i]]} \subseteq known
        OBVIOUS
    <2>2. IsFiniteSet({j \in Known(spreads) : Ratio[spreads[j]] = Ratio[spreads[i]]})
        BY <1>1, <2>1, FS_Subset
    <2> QED BY <2>2, FS_CardinalityType DEF Votes
<1>v. \A i \in known : votes[i] = Votes(spreads, Ratio[spreads[i]])
    OBVIOUS
<1>w. Winner(spreads) = Ratio[spreads[first]]
    BY DEF Winner
<1>3. PICK t \in tallies : \A s \in tallies : s <= t
    <2>1. votes \in Surjection(known, tallies)
        BY DEF Surjection
    <2>2. tallies \subseteq Int /\ tallies # {}
        <3> HIDE DEF votes
        <3> QED BY <1>2
    <2> HIDE DEF votes, tallies
    <2>3. IsFiniteSet(tallies)
        BY <1>1, <2>1, FS_Surjection
    <2> QED BY <2>2, <2>3, LargestExists
<1>4. best # {}
    <2>1. PICK i \in known : t = votes[i]
        OBVIOUS
    <2>2. \A j \in known : votes[j] <= votes[i]
        BY <1>3, <2>1
    <2> HIDE DEF votes
    <2>3. i \in best
        BY <1>v, <2>2
    <2> QED BY <2>3
<1>5. best \subseteq Int /\ IsFiniteSet(best)
    BY <1>1, FS_Subset
<1> HIDE DEF best
<1>6. PICK m \in opposite : \A k \in opposite : k <= m
    <2>1. opposite \subseteq Int /\ opposite # {}
        <3>1. \A i \in best : -i \in Int
            BY <1>5
        <3>2. PICK i \in best : TRUE
            BY <1>4
        <3>3. -i \in opposite
            BY <3>2
        <3> QED BY <3>1, <3>3, Zenon
    <2>2. IsFiniteSet(opposite)
        <3> DEFINE f == [i \in best |-> -i]
        <3>1. f \in Surjection(best, opposite)
            BY DEF Surjection
        <3> HIDE DEF f, opposite
        <3> QED BY <1>5, <3>1, FS_Surjection
    <2> HIDE DEF opposite
    <2> QED BY <2>1, <2>2, LargestExists
<1>7. PICK i \in best : m = -i
    OBVIOUS
<1>8. ASSUME NEW j \in best PROVE i <= j
    <2>1. -j \in opposite
        OBVIOUS
    <2> HIDE DEF opposite
    <2>2. -j <= -i /\ i \in Int /\ j \in Int
        BY <1>5, <1>6, <1>7, <2>1
    <2> QED BY <2>2
<1>9. first \in best
    <2> HIDE DEF opposite
    <2> QED BY <1>8
<1> HIDE DEF first
<1>10. \A j \in known : Votes(spreads, Ratio[spreads[j]]) <= Votes(spreads, Ratio[spreads[first]])
    BY <1>9 DEF best
<1> QED BY <1>w, <1>10

LEMMA BookIsRead == BookInv => BookReadsInOrder
<1> SUFFICES ASSUME BookInv PROVE EveryPageOnce /\ ReadsInOrder /\ MajorityShapesTheBook
    BY DEF BookReadsInOrder
<1> DEFINE first == TheOne("cover")
           last == TheOne("back")
           list == SpreadsInOrder
           n == Len(list)
<1>1. /\ list \in Seq(OfKind("spread")) /\ DOMAIN list = 1..n /\ n \in Nat
      /\ EveryPageOnce
    <2>1. /\ list \in Seq(OfKind("spread")) /\ DOMAIN list = 1..n
          /\ \A p \in OfKind("spread") : \E k \in DOMAIN SpreadsInOrder : SpreadsInOrder[k] = p
          /\ \A k, m \in DOMAIN SpreadsInOrder : k < m =>
               place[SpreadsInOrder[k]].position < place[SpreadsInOrder[m]].position
        BY SpreadsAreInOrder
    <2>2. \A kind \in {"cover", "back"} : \A p, q \in OfKind(kind) : p = q
        BY OnePagePerPlace
    <2>3. EveryPageOnce
        BY <2>1, <2>2 DEF EveryPageOnce
    <2> QED BY <2>1, <2>3
<1> HIDE DEF list
<1>2. ASSUME first # NoPage
      PROVE  /\ Right(Book, 0) = Full(first)
             /\ Left(Book, LeafCount(Book)) =
                  (IF OfKind("back") = {} THEN Blank ELSE Full(last))
             /\ \A k \in DOMAIN list :
                  /\ Left(Book, k) = [page |-> list[k], half |-> "left"]
                  /\ Right(Book, k) = [page |-> list[k], half |-> "right"]
             /\ \A turned \in 0..LeafCount(Book) :
                  {NextTurn(Book, turned), PrevTurn(turned)} \subseteq 0..LeafCount(Book)
    <2>0. Book = BuildFaces(first, list, last)
        BY DEF Book, list
    <2> HIDE DEF first, last
    <2>a. list \in Seq(OfKind("spread")) /\ n = Len(list)
        BY <1>1
    <2> HIDE DEF n
    <2>1. /\ LeafCount(Book) = n + 1
          /\ Book[1] = Full(first)
          /\ Book[2 * n + 2] = IF last = NoPage THEN Blank ELSE Full(last)
          /\ \A k \in 1..n : /\ Book[2 * k] = [page |-> list[k], half |-> "left"]
                             /\ Book[2 * k + 1] = [page |-> list[k], half |-> "right"]
        BY <1>2, <2>0, <2>a, FacesOfTheBook
    <2>2. Right(Book, 0) = Full(first)
        BY <1>1, <2>1 DEF Right
    <2>3. Left(Book, LeafCount(Book)) = (IF last = NoPage THEN Blank ELSE Full(last))
        <3>1. n + 1 > 0 /\ 2 * (n + 1) = 2 * n + 2
            BY <1>1
        <3>2. Left(Book, n + 1) = Book[2 * n + 2]
            BY <3>1 DEF Left
        <3> QED BY <2>1, <3>2
    <2>4. OfKind("back") = {} => last = NoPage
        BY DEF TheOne, last
    <2>5. Left(Book, LeafCount(Book)) = (IF OfKind("back") = {} THEN Blank ELSE Full(last))
        BY <2>3, <2>4 DEF Blank
    <2>6. ASSUME NEW k \in 1..n
          PROVE  /\ Left(Book, k) = [page |-> list[k], half |-> "left"]
                 /\ Right(Book, k) = [page |-> list[k], half |-> "right"]
        <3>1. k > 0 /\ k < n + 1
            BY <1>1
        <3>2. Left(Book, k) = Book[2 * k] /\ Right(Book, k) = Book[2 * k + 1]
            BY <2>1, <3>1 DEF Left, Right
        <3> QED BY <2>1, <3>2
    <2>7. ASSUME NEW turned \in 0..LeafCount(Book)
          PROVE  {NextTurn(Book, turned), PrevTurn(turned)} \subseteq 0..LeafCount(Book)
        BY <1>1, <2>1 DEF NextTurn, PrevTurn
    <2> QED BY <1>1, <2>2, <2>5, <2>6, <2>7
<1>3. ReadsInOrder
    BY <1>2 DEF ReadsInOrder, list
<1>4. MajorityShapesTheBook
    <2>1. ASSUME NEW i \in Known(list)
          PROVE  Votes(list, Ratio[list[i]]) <= Votes(list, OpenBookAspect(first, list))
        <3>1. OpenBookAspect(first, list) = Winner(list)
            BY <2>1 DEF OpenBookAspect
        <3>2. Votes(list, Ratio[list[i]]) <= Votes(list, Winner(list))
            BY <1>1, <2>1, MajorityWins
        <3> QED BY <3>1, <3>2
    <2> QED BY <2>1 DEF MajorityShapesTheBook, list
<1> QED BY <1>1, <1>3, <1>4

-----------------------------------------------------------------------------
(***************************************************************************)
(* The theorems.                                                           *)
(***************************************************************************)

\* The counter stays a natural number and every request keeps its shape.
THEOREM AlbumTypeCorrect == Spec => []TypeOK
<1>1. PageInv => TypeOK
    BY DEF PageInv
<1> QED BY <1>1, PageInvariant, PTL

\* No page of the book is a broken image, although album/pages deletes the
\* objects of replaced pages and of removed ones after their rows, beside
\* uploads that are inserting others.
THEOREM PagesStored == Spec => []PagesHaveObjects
<1>1. PageInv => PagesHaveObjects
    BY DEF PageInv
<1> QED BY <1>1, PageInvariant, PTL

\* Whatever overlaps or dies, recordStorageDelta's deltas never add up to more
\* than the pages in the book and those whose removal was cut short; and to just
\* that as long as no recount ran and every replacement deleted the covers it had
\* read (neither another replacement nor a DELETE came between).
THEOREM DriftExplained == Spec => []DriftIsExplained
<1>1. DriftInv => DriftIsExplained
    BY DEF DriftInv
<1> QED BY <1>1, DriftInvariant, PTL

\* The book opened from a share link is in order, for any number of pages: what
\* the presigns, clashes, removals and replacements leave is every spread once,
\* by position, between at most one cover and one back, and buildFaces and
\* openBookAspect lay it out as their comments say.
THEOREM BookStaysInOrder == Spec => []BookReadsInOrder
<1> QED BY BookIsRead, BookInvariant, PTL
=============================================================================
