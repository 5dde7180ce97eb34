---------------------------- MODULE PhotoStorage ----------------------------
(***************************************************************************)
(* Event photos of one workspace: the bucket, the assets table and the     *)
(* byte counter, and the requests that change them.                        *)
(*                                                                         *)
(*   Presign        POST upload-url   reserve check, ids, presigned PUTs   *)
(*   Upload         the browser's PUT to the bucket                        *)
(*   Head, Commit,                                                         *)
(*   CleanUp        POST assets       sizes; the transaction; rejected     *)
(*   Delete, Unlink DELETE asset      the transaction; the object          *)
(*   Purge...       worker            purgeWorkspacePhotos                 *)
(*   Recount...     worker            recomputeAllWorkspaceUsage           *)
(*                                                                         *)
(* Requests of one owner run concurrently (tabs, a second device); a       *)
(* request may die between two awaits.  The counter is a row all of them   *)
(* lock, so each transaction is one step.  The workspace has no album:     *)
(* album pages are charged to the same counter, and the recount, which sums*)
(* event photos only, takes their bytes for drift.                         *)
(***************************************************************************)
EXTENDS Integers, FiniteSets

CONSTANTS
    Photos,         \* asset ids
    Bytes,          \* Bytes[S]: the real size of the photos in S together
    Quotas,         \* storage_quota_bytes the workspace may be given
    Requests,       \* finalize requests that may be in flight together
    Resubmits,      \* photos whose finalize may be sent again (a lost answer)
    Purging,        \* does the retention purge run on this workspace?
    Recounting      \* does the nightly recount run?

ASSUME SizesAssumption ==
    /\ IsFiniteSet(Photos)
    /\ Bytes \in [SUBSET Photos -> Nat]
    /\ Bytes[{}] = 0
    /\ \A S, T \in SUBSET Photos :
         S \cap T = {} => Bytes[S \cup T] = Bytes[S] + Bytes[T]
    /\ \A p \in Photos : Bytes[{p}] > 0

ASSUME StorageAssumption ==
    /\ Quotas \subseteq Nat /\ Quotas # {}
    /\ Resubmits \subseteq Photos
    /\ {Purging, Recounting} \subseteq BOOLEAN

VARIABLES
    stage,      \* how far the owner's browser got with each id
    objects,    \* keys present in the bucket
    assets,     \* ids with a row in the assets table
    used,       \* workspaces.storage_used_bytes
    quota,      \* workspaces.storage_quota_bytes
    ledger,     \* sum of storage_ledger.delta_bytes
    pc,         \* of each finalize request
    present,    \* its local list: the ids whose HEAD found an object
    unlinking,  \* DELETE requests with the row gone and the object to delete
    purge,      \* where purgeWorkspacePhotos is
    picked,     \* its local list of assets
    recount     \* the total a running recount is to write, NoCount when none is

web == <<stage, pc, present, unlinking>>
purger == <<purge, picked>>
vars == <<objects, assets, used, quota, ledger, web, purger, recount>>

NoCount == -1
Stages == {"new", "presigned", "uploaded", "submitted"}

TypeOK ==
    /\ stage \in [Photos -> Stages]
    /\ objects \subseteq Photos
    /\ assets \subseteq Photos
    /\ used \in Nat
    /\ quota \in Nat
    /\ ledger \in Int
    /\ pc \in [Requests -> {"idle", "commit", "cleanup"}]
    /\ present \in [Requests -> SUBSET Photos]
    /\ unlinking \subseteq Photos
    /\ purge \in {"idle", "objects", "rows"}
    /\ picked \subseteq Photos
    /\ recount \in Nat \cup {NoCount}

Init ==
    /\ stage = [p \in Photos |-> "new"]
    /\ objects = {} /\ assets = {}
    /\ used = 0 /\ ledger = 0
    /\ quota \in Quotas
    /\ pc = [r \in Requests |-> "idle"]
    /\ present = [r \in Requests |-> {}]
    /\ unlinking = {}
    /\ purge = "idle" /\ picked = {}
    /\ recount = NoCount

(***************************************************************************)
(* recordStorageDelta: the counter, clamped at zero, and the ledger row.   *)
(***************************************************************************)
\* The counter without GREATEST(0, ...).
Unclamped(n) == n

AtLeastZero(n) == IF n < 0 THEN 0 ELSE n

RecordStorageDelta(delta) ==
    /\ used' = AtLeastZero(used + delta)
    /\ ledger' = ledger + delta

(***************************************************************************)
(* Uploading.                                                              *)
(***************************************************************************)
\* checkQuota sees the sizes the browser declares, and they are not trusted:
\* the least it can declare is a byte a file.
Presign(batch) ==
    /\ batch # {}
    /\ \A p \in batch : stage[p] = "new"
    /\ used + Cardinality(batch) <= quota
    /\ stage' = [p \in Photos |-> IF p \in batch THEN "presigned" ELSE stage[p]]
    /\ UNCHANGED <<objects, assets, used, quota, ledger, pc, present, unlinking, purger, recount>>

Upload(p) ==
    /\ stage[p] = "presigned"
    /\ stage' = [stage EXCEPT ![p] = "uploaded"]
    /\ objects' = objects \cup {p}
    /\ UNCHANGED <<assets, used, quota, ledger, pc, present, unlinking, purger, recount>>

\* The browser submits what it uploaded; HEAD drops what is not there.
Head(r, batch) ==
    /\ pc[r] = "idle"
    /\ batch # {}
    /\ \A p \in batch : stage[p] = "uploaded" \/ (p \in Resubmits /\ stage[p] = "submitted")
    /\ stage' = [p \in Photos |-> IF p \in batch THEN "submitted" ELSE stage[p]]
    /\ present' = [present EXCEPT ![r] = batch \cap objects]
    /\ pc' = [pc EXCEPT ![r] = "commit"]
    /\ UNCHANGED <<objects, assets, used, quota, ledger, unlinking, purger, recount>>

\* A commit that trusts the reserve check of the presign.
CommitUnchecked(r) ==
    /\ pc[r] = "commit"
    /\ assets' = assets \cup present[r]
    /\ RecordStorageDelta(Bytes[present[r] \ assets])
    /\ pc' = [pc EXCEPT ![r] = "idle"]
    /\ present' = [present EXCEPT ![r] = {}]
    /\ UNCHANGED <<stage, objects, quota, unlinking, purger, recount>>

\* A commit that charges for rows the insert skipped as duplicates.
CommitChargingAll(r) ==
    /\ pc[r] = "commit"
    /\ used + Bytes[present[r]] <= quota
    /\ assets' = assets \cup present[r]
    /\ RecordStorageDelta(Bytes[present[r]])
    /\ pc' = [pc EXCEPT ![r] = "idle"]
    /\ present' = [present EXCEPT ![r] = {}]
    /\ UNCHANGED <<stage, objects, quota, unlinking, purger, recount>>

\* The transaction under the workspace lock: over the cap, nothing is inserted
\* and the objects are to go; else insert what is new and charge for that.
Commit(r) ==
    /\ pc[r] = "commit"
    /\ IF used + Bytes[present[r]] > quota
       THEN /\ pc' = [pc EXCEPT ![r] = "cleanup"]
            /\ UNCHANGED <<assets, used, ledger, present>>
       ELSE /\ assets' = assets \cup present[r]
            /\ RecordStorageDelta(Bytes[present[r] \ assets])
            /\ pc' = [pc EXCEPT ![r] = "idle"]
            /\ present' = [present EXCEPT ![r] = {}]
    /\ UNCHANGED <<stage, objects, quota, unlinking, purger, recount>>

\* Cleaning up more than the request's own objects.
CleanUpEverything(r) ==
    /\ pc[r] = "cleanup"
    /\ objects' = {}
    /\ pc' = [pc EXCEPT ![r] = "idle"]
    /\ present' = [present EXCEPT ![r] = {}]
    /\ UNCHANGED <<assets, used, quota, ledger, stage, unlinking, purger, recount>>

\* Promise.allSettled: any of the deletions may fail.
CleanUp(r) ==
    /\ pc[r] = "cleanup"
    /\ \E gone \in SUBSET present[r] : objects' = objects \ gone
    /\ pc' = [pc EXCEPT ![r] = "idle"]
    /\ present' = [present EXCEPT ![r] = {}]
    /\ UNCHANGED <<assets, used, quota, ledger, stage, unlinking, purger, recount>>

RequestDies(r) ==
    /\ pc[r] # "idle"
    /\ pc' = [pc EXCEPT ![r] = "idle"]
    /\ present' = [present EXCEPT ![r] = {}]
    /\ UNCHANGED <<objects, assets, used, quota, ledger, stage, unlinking, purger, recount>>

(***************************************************************************)
(* Deleting.                                                               *)
(***************************************************************************)
Delete(p) ==
    /\ p \in assets
    /\ assets' = assets \ {p}
    /\ RecordStorageDelta(-Bytes[{p}])
    /\ unlinking' = unlinking \cup {p}
    /\ UNCHANGED <<objects, quota, stage, pc, present, purger, recount>>

\* A failed deletion is logged; a request that died deletes nothing either.
Unlink(p) ==
    /\ p \in unlinking
    /\ unlinking' = unlinking \ {p}
    /\ objects' \in {objects \ {p}, objects}
    /\ UNCHANGED <<assets, used, quota, ledger, stage, pc, present, purger, recount>>

(***************************************************************************)
(* The retention purge of an overdue workspace, and the nightly recount.   *)
(***************************************************************************)
PurgeList ==
    /\ Purging /\ purge = "idle" /\ assets # {}
    /\ purge' = "objects" /\ picked' = assets
    /\ UNCHANGED <<objects, assets, used, quota, ledger, web, recount>>

PurgeObjects ==
    /\ purge = "objects"
    /\ \E gone \in SUBSET picked :
         /\ objects' = objects \ gone
         /\ IF gone = picked THEN purge' = "rows" /\ UNCHANGED picked
                             ELSE purge' = "idle" /\ picked' = {}
    /\ UNCHANGED <<assets, used, quota, ledger, web, recount>>

\* The rows still there go; the counter goes down by the bytes listed.
PurgeRows ==
    /\ purge = "rows"
    /\ assets' = assets \ picked
    /\ RecordStorageDelta(-Bytes[picked])
    /\ purge' = "idle" /\ picked' = {}
    /\ UNCHANGED <<objects, quota, web, recount>>

PurgeDies ==
    /\ purge # "idle"
    /\ purge' = "idle" /\ picked' = {}
    /\ UNCHANGED <<objects, assets, used, quota, ledger, web, recount>>

\* One UPDATE ... FROM statement: it picks the counters that are off in its
\* snapshot, and its totals are of that snapshot,
RecountRead ==
    /\ Recounting /\ recount = NoCount
    /\ used # Bytes[assets]
    /\ recount' = Bytes[assets]
    /\ UNCHANGED <<objects, assets, used, quota, ledger, web, purger>>

\* A recount that forgets to write.
RecountNoWrite ==
    /\ recount # NoCount
    /\ recount' = NoCount
    /\ UNCHANGED <<objects, assets, used, quota, ledger, web, purger>>

\* and its write finds the row as the transactions committed since left it.
RecountWrite ==
    /\ recount # NoCount
    /\ used' = recount
    /\ recount' = NoCount
    /\ UNCHANGED <<objects, assets, quota, ledger, web, purger>>

\* A plan bought, renewed or dropped.
ChangePlan ==
    /\ quota' \in Quotas \ {quota}
    /\ UNCHANGED <<objects, assets, used, ledger, web, purger, recount>>

Purge == PurgeList \/ PurgeObjects \/ PurgeRows \/ PurgeDies

Next ==
    \/ \E batch \in SUBSET Photos : Presign(batch)
    \/ \E p \in Photos : Upload(p) \/ Delete(p) \/ Unlink(p)
    \/ \E r \in Requests :
         \/ \E batch \in SUBSET Photos : Head(r, batch)
         \/ Commit(r) \/ CleanUp(r) \/ RequestDies(r)
    \/ Purge
    \/ RecountRead \/ RecountWrite
    \/ ChangePlan

Spec == Init /\ [][Next]_vars

\* The recount runs every day and is one statement; a purge that began goes on.
FairSpec == Spec /\ WF_vars(RecountRead) /\ WF_vars(RecountWrite)
                 /\ WF_vars(PurgeObjects \/ PurgeRows)

-----------------------------------------------------------------------------
(***************************************************************************)
(* What the accounting keeps.                                              *)
(***************************************************************************)
Account == INSTANCE StorageAccount WITH
    Items <- Photos, stored <- assets, charged <- used, allowance <- quota

\* Uploads, deletes, retries and crashes of the web application and a nightly
\* recount among them keep the account: rows and counter change together,
\* nothing is charged twice, and no commit goes above the plan of that moment,
\* although presigns overlap.  (The retention purge may decrement twice.)
ImplementsAccount == Account!Spec

\* The counter is the size of the rows and the ledger is the counter's history,
\* also when a finalize is submitted twice or dies; the recount finds nothing.
CounterIsExact == used = Bytes[assets] /\ ledger = used

\* A registered photo is in the bucket: clean-up and unlinking of one request
\* never take the object of a photo another request registered.  That holds of
\* the ids submitted once: when a finalize is sent twice and the second one is
\* over the cap, it cleans up the objects the first one registered.
RowsHaveObjects == assets \ Resubmits \subseteq objects

\* Whatever drift the purge's double decrement, or a recount of such a drift
\* racing a commit, leaves behind, the counter is right in the end, once the
\* owner pauses.
DriftIsHealed == <>[][FALSE]_<<assets, quota>> => <>[](used = Bytes[assets])
=============================================================================
