-------------------------------- MODULE Album --------------------------------
(***************************************************************************)
(* The flipbook album of one event: its pages, their objects and the bytes *)
(* the workspace is charged for them.                                      *)
(*                                                                         *)
(*   Presign          POST album/upload-url    quota, positions, ids       *)
(*   Put              the browser's PUTs, and the HEADs of the finalize    *)
(*   Select ... Unlink POST album/pages        replace a cover; insert     *)
(*   DeletePage ...   DELETE album/pages       row, charge, object         *)
(*   CheckPublish ... PATCH album              look, then write            *)
(*   Recount          the worker's nightly recomputeAllWorkspaceUsage      *)
(*                                                                         *)
(* Uploads of one owner run beside each other: the three pickers of the    *)
(* album manager, two tabs, two devices.  Only the insert of the rows and  *)
(* its charge are a transaction; every other statement stands alone, and a *)
(* request may die between two of them.                                    *)
(***************************************************************************)
EXTENDS Integers, FiniteSets, Sequences

CONSTANTS
    Pages,          \* page ids (randomUUID: never drawn twice)
    Batches,        \* the selections of files: sequences of pages
    Uploads,        \* uploads that may run beside each other
    Bytes,          \* Bytes[S]: the size of the pages in S together
    EventBytes,     \* what the event photos of the workspace take
    Quota,          \* storage_quota_bytes
    Recounting      \* does the nightly recount run?

ASSUME AlbumSizesAssumption ==
    /\ IsFiniteSet(Pages)
    /\ Bytes \in [SUBSET Pages -> Nat]
    /\ Bytes[{}] = 0
    /\ \A S, T \in SUBSET Pages :
         S \cap T = {} => Bytes[S \cup T] = Bytes[S] + Bytes[T]

ASSUME AlbumAssumption ==
    /\ Batches \subseteq Seq(Pages)
    /\ EventBytes \in Nat /\ Quota \in Nat
    /\ Recounting \in BOOLEAN

VARIABLES
    place,      \* kind and position a page was given by the presign
    rows,       \* pages with a row in album_pages
    objects,    \* pages with an object in the bucket
    used,       \* workspaces.storage_used_bytes
    published,  \* albums.published_at IS NOT NULL
    up,         \* where each upload is, with its locals
    publishing, \* a PATCH that found something to publish and has to write it
    refunding,  \* DELETE requests: row gone, charge to give back
    unlinking,  \* DELETE requests: charge given back, object to delete
    unsettled,  \* history: pages whose row went and whose charge did not yet
    clean       \* history: every replacement deleted just the rows it had read,
                \* and no recount has overwritten the counter

table == <<place, rows>>
account == <<used, unsettled, clean>>
removal == <<refunding, unlinking>>
publication == <<published, publishing>>
vars == <<table, objects, account, publication, up, removal>>

Kinds == {"cover", "spread", "back"}
Unplaced == [kind |-> "spread", position |-> -1]
NoUpload == [step |-> "idle", kind |-> "spread", queue |-> <<>>, landed |-> {}, replaced |-> {}]

RangeOf(queue) == {queue[i] : i \in DOMAIN queue}

TypeOK ==
    /\ place \in [Pages -> [kind : Kinds, position : Nat \cup {-1}]]
    /\ rows \subseteq Pages
    /\ objects \subseteq Pages
    /\ used \in Nat
    /\ published \in BOOLEAN /\ publishing \in BOOLEAN
    /\ up \in [Uploads -> [step : {"idle", "put", "select", "delete", "insert", "unlink"},
                          kind : Kinds, queue : Batches \cup {<<>>},
                          landed : SUBSET Pages, replaced : SUBSET Pages]]
    /\ \A u \in Uploads : up[u].landed \subseteq RangeOf(up[u].queue)
    /\ refunding \subseteq Pages /\ unlinking \subseteq Pages
    /\ unsettled \subseteq Pages
    /\ clean \in BOOLEAN

Init ==
    /\ place = [p \in Pages |-> Unplaced]
    /\ rows = {} /\ objects = {}
    /\ used = EventBytes
    /\ published = FALSE /\ publishing = FALSE
    /\ up = [u \in Uploads |-> NoUpload]
    /\ refunding = {} /\ unlinking = {}
    /\ unsettled = {} /\ clean = TRUE

OfKind(kind) == {p \in rows : place[p].kind = kind}

\* A counter without the GREATEST(..., 0).
Unclamped(n) == n
AtLeastZero(n) == IF n < 0 THEN 0 ELSE n
RecordStorageDelta(delta) == used' = AtLeastZero(used + delta)

(***************************************************************************)
(* Uploading.                                                              *)
(***************************************************************************)
\* Spreads run from 1; an aggregate over no row is NULL, hence 0.
NextSpreadPosition ==
    LET taken == {place[p].position : p \in OfKind("spread")}
    IN  IF taken = {} THEN 1 ELSE 1 + CHOOSE n \in taken : \A m \in taken : m <= n

\* Positions in the order the files were selected; the covers are all at 0.
PlaceOf(kind, batch, p) ==
    LET index == CHOOSE i \in DOMAIN batch : batch[i] = p
    IN  [kind |-> kind,
         position |-> IF kind = "spread" THEN NextSpreadPosition + index - 1 ELSE 0]

Presign(u, kind, batch) ==
    /\ up[u].step = "idle"
    /\ \A p \in RangeOf(batch) : place[p] = Unplaced
    /\ kind # "spread" => Len(batch) = 1
    /\ used + Bytes[RangeOf(batch)] <= Quota
    /\ place' = [p \in Pages |-> IF p \in RangeOf(batch) THEN PlaceOf(kind, batch, p)
                                 ELSE place[p]]
    /\ up' = [up EXCEPT ![u] = [NoUpload EXCEPT !.step = "put", !.kind = kind, !.queue = batch]]
    /\ UNCHANGED <<rows, objects, account, publication, removal>>

Goes(u, step) == up' = [up EXCEPT ![u].step = step]
Ends(u) == up' = [up EXCEPT ![u] = NoUpload]

\* A finalize that believes the browser about what was uploaded.
PutTrusted(u) ==
    /\ up[u].step = "put"
    /\ \E landed \in SUBSET RangeOf(up[u].queue) : objects' = objects \cup landed
    /\ up' = [up EXCEPT ![u].step = IF up[u].kind = "spread" THEN "insert" ELSE "select",
                        ![u].landed = RangeOf(up[u].queue)]
    /\ UNCHANGED <<table, account, publication, removal>>

\* Each PUT succeeds or fails on its own.  The finalize submits the whole queue,
\* and the HEADs keep what is there; if nothing is, the upload failed.
Put(u) ==
    /\ up[u].step = "put"
    /\ \E landed \in SUBSET RangeOf(up[u].queue) :
         /\ objects' = objects \cup landed
         /\ IF landed = {} THEN Ends(u)
            ELSE up' = [up EXCEPT
                   ![u].step = IF up[u].kind = "spread" THEN "insert" ELSE "select",
                   ![u].landed = landed]
    /\ UNCHANGED <<table, account, publication, removal>>

\* A cover is replaced: read the rows of its kind, for their keys and sizes ...
Select(u) ==
    /\ up[u].step = "select"
    /\ up' = [up EXCEPT ![u].replaced = OfKind(up[u].kind),
                        ![u].step = IF OfKind(up[u].kind) = {} THEN "insert" ELSE "delete"]
    /\ UNCHANGED <<table, objects, account, publication, removal>>

\* ... and delete, in a statement of its own, the rows of the kind there are now.
DeleteReplaced(u) ==
    LET gone == OfKind(up[u].kind)
    IN  /\ up[u].step = "delete"
        /\ rows' = rows \ gone
        /\ unsettled' = unsettled \cup gone
        /\ clean' = (clean /\ up[u].replaced = gone)
        /\ Goes(u, "insert")
        /\ UNCHANGED <<place, objects, used, publication, removal>>

\* The unique index on album, kind and position.
Clashes(u) ==
    \E p \in up[u].landed, q \in rows : place[p] = place[q]

\* An insert that charges for the new pages and forgets the replaced ones.
InsertChargingAll(u) ==
    /\ up[u].step = "insert"
    /\ ~Clashes(u)
    /\ rows' = rows \cup up[u].landed
    /\ RecordStorageDelta(Bytes[up[u].landed])
    /\ unsettled' = unsettled \ up[u].replaced
    /\ IF up[u].replaced = {} THEN Ends(u) ELSE Goes(u, "unlink")
    /\ UNCHANGED <<place, objects, clean, publication, removal>>

\* The transaction: all the rows, and the difference in bytes.  No second look
\* at the quota.
Insert(u) ==
    /\ up[u].step = "insert"
    /\ ~Clashes(u)
    /\ rows' = rows \cup up[u].landed
    /\ RecordStorageDelta(Bytes[up[u].landed] - Bytes[up[u].replaced])
    /\ unsettled' = unsettled \ up[u].replaced
    /\ IF up[u].replaced = {} THEN Ends(u) ELSE Goes(u, "unlink")
    /\ UNCHANGED <<place, objects, clean, publication, removal>>

\* A violated index rolls the transaction back and ends the request.
InsertFails(u) ==
    /\ up[u].step = "insert"
    /\ Clashes(u)
    /\ Ends(u)
    /\ UNCHANGED <<table, objects, account, publication, removal>>

\* Promise.allSettled: any of the deletions may fail.
Unlink(u) ==
    /\ up[u].step = "unlink"
    /\ \E gone \in SUBSET up[u].replaced : objects' = objects \ gone
    /\ Ends(u)
    /\ UNCHANGED <<table, account, publication, removal>>

UploadDies(u) ==
    /\ up[u].step # "idle"
    /\ Ends(u)
    /\ UNCHANGED <<table, objects, account, publication, removal>>

(***************************************************************************)
(* Removing a page, publishing, and the recount.                           *)
(***************************************************************************)
DeletePage(p) ==
    /\ p \in rows
    /\ rows' = rows \ {p}
    /\ refunding' = refunding \cup {p}
    /\ unsettled' = unsettled \cup {p}
    /\ UNCHANGED <<place, objects, used, clean, publication, up, unlinking>>

Refund(p) ==
    /\ p \in refunding
    /\ refunding' = refunding \ {p}
    /\ unlinking' = unlinking \cup {p}
    /\ RecordStorageDelta(-Bytes[{p}])
    /\ unsettled' = unsettled \ {p}
    /\ UNCHANGED <<table, objects, clean, publication, up>>

UnlinkPage(p) ==
    /\ p \in unlinking
    /\ unlinking' = unlinking \ {p}
    /\ objects' \in {objects \ {p}, objects}
    /\ UNCHANGED <<table, account, publication, up, refunding>>

DeleteDies(p) ==
    /\ p \in refunding
    /\ refunding' = refunding \ {p}
    /\ UNCHANGED <<table, objects, account, publication, up, unlinking>>

HasFront == OfKind("cover") \cup OfKind("spread") # {}

CheckPublish ==
    /\ ~publishing
    /\ HasFront
    /\ publishing' = TRUE
    /\ UNCHANGED <<table, objects, account, published, up, removal>>

Publish ==
    /\ publishing
    /\ publishing' = FALSE
    /\ published' = TRUE
    /\ UNCHANGED <<table, objects, account, up, removal>>

Unpublish ==
    /\ published
    /\ published' = FALSE
    /\ UNCHANGED <<table, objects, account, publishing, up, removal>>

\* The recount sums the event photos, and takes the rest for drift.
Recount ==
    /\ Recounting
    /\ used # EventBytes
    /\ used' = EventBytes
    /\ clean' = FALSE
    /\ UNCHANGED <<table, objects, unsettled, publication, up, removal>>

Next ==
    \/ \E u \in Uploads :
         \/ \E kind \in Kinds, batch \in Batches : Presign(u, kind, batch)
         \/ Put(u) \/ Select(u) \/ DeleteReplaced(u)
         \/ Insert(u) \/ InsertFails(u) \/ Unlink(u) \/ UploadDies(u)
    \/ \E p \in Pages : DeletePage(p) \/ Refund(p) \/ UnlinkPage(p) \/ DeleteDies(p)
    \/ CheckPublish \/ Publish \/ Unpublish
    \/ Recount

Spec == Init /\ [][Next]_vars

-----------------------------------------------------------------------------
(***************************************************************************)
(* What the album keeps.                                                   *)
(***************************************************************************)

\* No page of the book is a broken image: every row has its object, although
\* PUTs fail one by one and the objects of replaced and removed pages are
\* deleted beside running uploads.
PagesHaveObjects == rows \subseteq objects

\* For its event photos, the pages of the book, and the pages it removed and was
\* not refunded for.
Owed == EventBytes + Bytes[rows \cup unsettled]

\* The counter drifts only by pages whose removal did not come to its end,
\* whichever uploads clash, die or overlap: the workspace is never charged for
\* more than is owed.  Nor for less, with two exceptions that `clean' names: a
\* recount takes the album for drift; and a replacement refunds the covers it
\* read, while its DELETE takes those of the moment, so a cover that another
\* replacement, or a DELETE of that page, removed between the two statements is
\* refunded twice.
DriftIsExplained == used <= Owed /\ (clean => used = Owed)

(***************************************************************************)
(* What a comment says of it, and the code does not keep.                  *)
(***************************************************************************)

\* packages/db storage.ts:5-8: the recount "heals any drift between the
\* denormalized counter and reality".
RecountHeals == [][Recount => used' = EventBytes + Bytes[rows]]_vars
=============================================================================
