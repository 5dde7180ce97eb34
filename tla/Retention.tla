----------------------------- MODULE Retention -----------------------------
(***************************************************************************)
(* The retention sweep of the worker (apps/worker/src/retention.ts) and    *)
(* everyone who writes a workspace row while it runs: the owner uploading  *)
(* and deleting, the admin renewing and cancelling, the billing routes and *)
(* the billing sweep, and the embed worker storing the variants of a photo *)
(* (thumb and preview, taken together as one object and one row).          *)
(*                                                                         *)
(* The sweep reads its candidates once per phase and then works through    *)
(* the list, one e-mail or one purge after the other, with an await        *)
(* between each of its reads and writes.  Those awaits are the steps of    *)
(* this module; anything else may happen between two of them.              *)
(***************************************************************************)
EXTENDS Access, FiniteSets

CONSTANTS
    Workspaces,     \* workspace ids
    Photos,         \* asset ids (randomUUID: never drawn twice)
    NoRow,          \* "the sweep is handling no row"
    Billing,        \* are the Cashfree routes and the billing sweep live?
    Deriving,       \* do embed jobs run beside the sweep?
    Stalls,         \* may a sweep still be running when the day changes?
    MaxDay,         \* bound: the last day of a behaviour
    MaxCrashes      \* bound: how often the worker process may die

ASSUME RetentionAssumption ==
    /\ NoRow \notin Workspaces
    /\ Billing \in BOOLEAN
    /\ Deriving \in BOOLEAN
    /\ Stalls \in BOOLEAN
    /\ MaxDay \in Nat
    /\ MaxCrashes \in Nat

VARIABLES
    today,      \* the clock of the database and of both processes
    workspace,  \* the workspaces table: id -> row
    fresh,      \* asset ids not drawn yet
    granted,    \* ids presigned by upload-url and not yet registered
    assets,     \* the assets table: id -> ids of the live rows
    objects,    \* photos whose original is in the bucket
    variants,   \* the asset_variants table: photos with a variant row
    derived,    \* photos whose variant is in the bucket
    job,        \* where the embed job of each photo is
    phase,      \* where runRetentionSweepOnce is
    todo,       \* rows of the phase's query not handled yet
    row,        \* the row being handled, NoRow between two
    step,       \* which await of that row's handling comes next
    picked,     \* purgeWorkspacePhotos' local list of assets
    listed,     \* ... and of variants: the photos whose variant it lists
    dropping,   \* rows the billing sweep's query returned, not handled yet
    crashes,
    promised,   \* history: date named by the last warning of this lapse
    notified,   \* history: workspaces that ever received a warning
    backdated,  \* history: workspaces a snapshot gave a period already over
    late        \* history: photos whose variant was stored or recorded since
                \* the purge under way read the variants

worker == <<phase, todo, row, step, picked, listed>>
derivation == <<variants, derived, job, late>>
store == <<fresh, granted, assets, objects, derivation>>
history == <<promised, notified, backdated>>
vars == <<today, workspace, store, worker, dropping, crashes, history>>

Phases == {"idle", "first", "final", "purge"}
\* next: take a row; stamp: mailed, timestamp to write;
\* variants: assets listed, their variants to list; delete: both listed, objects
\* to delete; commit: objects gone, rows to delete
Steps == {"next", "stamp", "variants", "delete", "commit"}
\* derive: original downloaded; put: old rows dropped; record: variant stored
JobSteps == {"none", "derive", "put", "record"}
DueRow == [id : Workspaces, deleteOn : Stamp]

TypeOK ==
    /\ today \in Day
    /\ workspace \in [Workspaces -> Workspace]
    /\ fresh \subseteq Photos
    /\ granted \in [Workspaces -> SUBSET Photos]
    /\ assets \in [Workspaces -> SUBSET Photos]
    /\ objects \subseteq Photos
    /\ variants \subseteq Photos /\ derived \subseteq Photos
    /\ job \in [Photos -> JobSteps]
    /\ phase \in Phases
    /\ todo \subseteq DueRow
    /\ row \in Workspaces \cup {NoRow}
    /\ step \in Steps
    /\ picked \subseteq Photos /\ listed \subseteq Photos
    /\ dropping \subseteq Workspaces
    /\ crashes \in Nat
    /\ promised \in [Workspaces -> Stamp]
    /\ notified \subseteq Workspaces /\ backdated \subseteq Workspaces
    /\ late \subseteq Photos

Init ==
    /\ today = 0
    /\ workspace \in
         [Workspaces -> {NewTrialWorkspace(0), NewProvisionedWorkspace(Term, 0)}]
    /\ fresh = Photos
    /\ granted = [w \in Workspaces |-> {}]
    /\ assets = [w \in Workspaces |-> {}]
    /\ objects = {}
    /\ variants = {} /\ derived = {} /\ late = {}
    /\ job = [p \in Photos |-> "none"]
    /\ phase = "idle" /\ todo = {} /\ row = NoRow /\ step = "next"
    /\ picked = {} /\ listed = {}
    /\ dropping = {}
    /\ crashes = 0
    /\ promised = [w \in Workspaces |-> Null]
    /\ notified = {} /\ backdated = {}

(***************************************************************************)
(* The candidates of the three phases.                                     *)
(***************************************************************************)
HasPhotos(w) == assets[w] # {}
\* A mail that names a day later than the query purges on.
DueRowOfLater(w) == [id |-> w, deleteOn |-> PurgeDueAt(workspace[w], today) + 1]

DueRowOf(w) == [id |-> w, deleteOn |-> PurgeDueAt(workspace[w], today)]

\* Warning only on the day access ends: a missed day is never made up for.
FindNeedingFirstWarningThatDay ==
    {w \in Workspaces :
        /\ AccessEndedAt(workspace[w], today) = today
        /\ ~workspace[w].retentionWarned
        /\ ~workspace[w].photosPurged
        /\ HasPhotos(w)}

FindNeedingFirstWarning ==
    {w \in Workspaces :
        /\ AccessEnded(workspace[w], today)
        /\ ~workspace[w].retentionWarned
        /\ ~workspace[w].photosPurged
        /\ HasPhotos(w)}

\* due > now() AND due <= now() + the final-warning interval.
FindNeedingFinalWarning ==
    {w \in Workspaces :
        /\ PurgeDueAt(workspace[w], today) # Null
        /\ ~workspace[w].retentionFinalWarned
        /\ ~workspace[w].photosPurged
        /\ PurgeDueAt(workspace[w], today) > today
        /\ PurgeDueAt(workspace[w], today) <= today + FinalWindow
        /\ HasPhotos(w)}

\* A purge that trusts the final notice to have followed the first.
FindDueForPurgeUnwarned ==
    {w \in Workspaces : PurgeDue(workspace[w], today) /\ HasPhotos(w)}

\* A purge that never comes back for a workspace it purged before.
FindDueForPurgeOnce ==
    {w \in Workspaces : /\ PurgeDue(workspace[w], today)
                        /\ workspace[w].retentionWarned
                        /\ ~workspace[w].photosPurged
                        /\ HasPhotos(w)}

FindDueForPurge ==
    {w \in Workspaces :
        /\ PurgeDue(workspace[w], today)
        /\ workspace[w].retentionWarned
        /\ HasPhotos(w)}

(***************************************************************************)
(* The sweep.                                                              *)
(***************************************************************************)
\* Each phase's query either answers or throws; a throw skips the phase.
Begin(next, candidates) ==
    /\ phase' = next
    /\ todo' \in {{DueRowOf(w) : w \in candidates}, {}}
    /\ UNCHANGED <<today, workspace, store, row, step, picked, listed, dropping, crashes, history>>

\* At boot and once a day; a boot may come at any moment, so this may too.
StartSweep == phase = "idle" /\ Begin("first", FindNeedingFirstWarning)

StartFinalWarnings ==
    /\ phase = "first" /\ step = "next" /\ todo = {}
    /\ Begin("final", FindNeedingFinalWarning)

StartPurge ==
    /\ phase = "final" /\ step = "next" /\ todo = {}
    /\ Begin("purge", FindDueForPurge)

EndSweep ==
    /\ phase = "purge" /\ step = "next" /\ todo = {}
    /\ phase' = "idle"
    /\ UNCHANGED <<today, workspace, store, todo, row, step, picked, listed, dropping, crashes, history>>

\* sendEmail resolved: the owner has the mail, the row does not say so yet.
SendWarning ==
    /\ phase \in {"first", "final"} /\ step = "next"
    /\ \E due \in todo :
         /\ todo' = todo \ {due}
         /\ row' = due.id
         /\ promised' = [promised EXCEPT ![due.id] = due.deleteOn]
         /\ notified' = notified \cup {due.id}
    /\ step' = "stamp"
    /\ UNCHANGED <<today, workspace, store, phase, picked, listed, dropping, crashes, backdated>>

\* sendEmail threw: logged, the timestamp stays null, the next sweep retries.
SendFails ==
    /\ phase \in {"first", "final"} /\ step = "next"
    /\ \E due \in todo : todo' = todo \ {due}
    /\ UNCHANGED <<today, workspace, store, phase, row, step, picked, listed, dropping, crashes, history>>

Stamped(ws) ==
    IF phase = "first"
    THEN [ws EXCEPT !.retentionWarned = TRUE, !.updatedAt = today]
    ELSE [ws EXCEPT !.retentionFinalWarned = TRUE, !.updatedAt = today]

\* The update after the mail, by primary key alone.
StampWarning ==
    /\ step = "stamp"
    /\ workspace' = [workspace EXCEPT ![row] = Stamped(@)]
    /\ step' = "next" /\ row' = NoRow
    /\ UNCHANGED <<today, store, phase, todo, picked, listed, dropping, crashes, history>>

\* The update throws: the mail is out, the row still says it is not.
StampFails ==
    /\ step = "stamp"
    /\ step' = "next" /\ row' = NoRow
    /\ UNCHANGED <<today, workspace, store, phase, todo, picked, listed, dropping, crashes, history>>

\* purgeWorkspacePhotos lists the assets; an empty list is the end of it.
ListAssets ==
    /\ phase = "purge" /\ step = "next"
    /\ \E due \in todo :
         /\ todo' = todo \ {due}
         /\ picked' = assets[due.id]
         /\ IF assets[due.id] = {}
            THEN UNCHANGED <<row, step>>
            ELSE row' = due.id /\ step' = "variants"
    /\ UNCHANGED <<today, workspace, store, phase, listed, dropping, crashes, history>>

\* A purge that collects the originals only.
ListNoVariants ==
    /\ step = "variants"
    /\ listed' = {} /\ late' = {} /\ step' = "delete"
    /\ UNCHANGED <<today, workspace, fresh, granted, assets, objects,
                    variants, derived, job, phase, todo, row, picked, dropping, crashes, history>>

\* The second query: the variant rows of the assets listed, as they are now.
ListVariants ==
    /\ step = "variants"
    /\ listed' = picked \cap variants
    /\ late' = {}
    /\ step' = "delete"
    /\ UNCHANGED <<today, workspace, fresh, granted, assets, objects,
                    variants, derived, job, phase, todo, row, picked, dropping, crashes, history>>

AbandonWorkspace == step' = "next" /\ row' = NoRow /\ picked' = {} /\ listed' = {}

\* Promise.allSettled over deleteObject for every key of both lists; one
\* rejection abandons the workspace.
DeleteObjects ==
    /\ step = "delete"
    /\ \E originals \in SUBSET picked, copies \in SUBSET listed :
         /\ objects' = objects \ originals
         /\ derived' = derived \ copies
         /\ IF originals = picked /\ copies = listed
            THEN step' = "commit" /\ UNCHANGED <<row, picked, listed>>
            ELSE AbandonWorkspace
    /\ UNCHANGED <<today, workspace, fresh, granted, assets, variants, job, late,
                    phase, todo, dropping, crashes, history>>

\* The transaction: the listed rows and by cascade their variant rows, the
\* ledger, the counter and the mark.
DeleteRows ==
    /\ step = "commit"
    /\ assets' = [assets EXCEPT ![row] = @ \ picked]
    /\ variants' = variants \ picked
    /\ workspace' = [workspace EXCEPT ![row] = Purged(@, today)]
    /\ AbandonWorkspace
    /\ UNCHANGED <<today, fresh, granted, objects, derived, job, late,
                    phase, todo, dropping, crashes, history>>

\* The query for the variants or the transaction throws: nothing is written.
PurgeFails ==
    /\ step \in {"variants", "commit"}
    /\ AbandonWorkspace
    /\ UNCHANGED <<today, workspace, store, phase, todo, dropping, crashes, history>>

\* The worker dies and restarts; its locals are gone, the database is not.
Crash ==
    /\ crashes < MaxCrashes
    /\ phase # "idle" \/ dropping # {} \/ \E p \in Photos : job[p] # "none"
    /\ crashes' = crashes + 1
    /\ phase' = "idle" /\ todo' = {} /\ AbandonWorkspace
    /\ job' = [p \in Photos |-> "none"]
    /\ dropping' = {}
    /\ UNCHANGED <<today, workspace, fresh, granted, assets, objects,
                    variants, derived, late, history>>

(***************************************************************************)
(* The owner.                                                              *)
(***************************************************************************)
\* upload-url: the only place an upload is gated on the subscription.
GrantUpload(w, p) ==
    /\ SubscriptionBlock(workspace[w], today) = "none"
    /\ p \in fresh
    /\ fresh' = fresh \ {p}
    /\ granted' = [granted EXCEPT ![w] = @ \cup {p}]
    /\ UNCHANGED <<today, workspace, assets, objects, derivation, worker, dropping, crashes, history>>

\* The browser's PUT, then POST assets: the row, the counter and updated_at.
RegisterUpload(w, p) ==
    /\ p \in granted[w]
    /\ granted' = [granted EXCEPT ![w] = @ \ {p}]
    /\ objects' = objects \cup {p}
    /\ assets' = [assets EXCEPT ![w] = @ \cup {p}]
    /\ workspace' = [workspace EXCEPT ![w] = Touched(@, today)]
    /\ UNCHANGED <<today, fresh, derivation, worker, dropping, crashes, history>>

\* DELETE asset: the row, its variant rows by cascade, and the counter; then
\* the objects those rows named, each on a best effort.
DeleteAsset(w, p) ==
    /\ p \in assets[w]
    /\ assets' = [assets EXCEPT ![w] = @ \ {p}]
    /\ variants' = variants \ {p}
    /\ objects' \in {objects \ {p}, objects}
    /\ derived' \in {derived \ ({p} \cap variants), derived}
    /\ workspace' = [workspace EXCEPT ![w] = Touched(@, today)]
    /\ UNCHANGED <<today, fresh, granted, job, late, worker, dropping, crashes, history>>

\* updateWorkspace (settings): touches updated_at and nothing of the clocks.
UpdateWorkspace(w) ==
    /\ workspace[w].updatedAt # today
    /\ workspace' = [workspace EXCEPT ![w] = Touched(@, today)]
    /\ UNCHANGED <<today, store, worker, dropping, crashes, history>>

(***************************************************************************)
(* The embed job of a photo, from the download to the variant's row.  It   *)
(* reads nothing of the clock: an upload registered after access ended, a  *)
(* retry or a reprocessing puts one beside the purge.                      *)
(***************************************************************************)
StartJob(p) ==
    /\ Deriving
    /\ job[p] = "none" /\ p \in objects
    /\ job' = [job EXCEPT ![p] = "derive"]
    /\ UNCHANGED <<today, workspace, fresh, granted, assets, objects, variants, derived, late,
                    worker, dropping, crashes, history>>

\* deriveAndStoreVariants starts by dropping the rows of an earlier attempt.
DropVariants(p) ==
    /\ job[p] = "derive"
    /\ job' = [job EXCEPT ![p] = "put"]
    /\ variants' = variants \ {p}
    /\ UNCHANGED <<today, workspace, fresh, granted, assets, objects, derived, late,
                    worker, dropping, crashes, history>>

\* History: the variant changed after the purge under way read the variants.
Later(p) == late' = IF step \in {"delete", "commit"} THEN late \cup {p} ELSE late

PutVariant(p) ==
    /\ job[p] = "put"
    /\ job' = [job EXCEPT ![p] = "record"]
    /\ derived' = derived \cup {p}
    /\ Later(p)
    /\ UNCHANGED <<today, workspace, fresh, granted, assets, objects, variants,
                    worker, dropping, crashes, history>>

\* The insert; the foreign key refuses it once the photo's row is gone.
RecordVariant(p) ==
    /\ job[p] = "record"
    /\ job' = [job EXCEPT ![p] = "none"]
    /\ IF \E w \in Workspaces : p \in assets[w]
       THEN variants' = variants \cup {p} /\ Later(p)
       ELSE UNCHANGED <<variants, late>>
    /\ UNCHANGED <<today, workspace, fresh, granted, assets, objects, derived,
                    worker, dropping, crashes, history>>

\* A resize, a statement or the upload throws: the job goes on without it.
JobFails(p) ==
    /\ job[p] # "none"
    /\ job' = [job EXCEPT ![p] = "none"]
    /\ UNCHANGED <<today, workspace, fresh, granted, assets, objects, variants, derived, late,
                    worker, dropping, crashes, history>>

(***************************************************************************)
(* The admin and the billing routes.                                       *)
(***************************************************************************)
\* History: a lapse is over when the row says access has not ended; its
\* warnings were about that lapse and about no later one.
RowWritten(w, ws) ==
    /\ workspace' = [workspace EXCEPT ![w] = ws]
    /\ IF AccessEnded(ws, today)
       THEN UNCHANGED promised
       ELSE promised' = [promised EXCEPT ![w] = Null]
    /\ UNCHANGED <<today, store, worker, crashes, notified>>

ExtendAccount(w) ==
    /\ RowWritten(w, Renewed(workspace[w], today))
    /\ UNCHANGED <<dropping, backdated>>

CancelAccount(w) ==
    /\ workspace[w].subscriptionStatus # "canceled"     \* the button is hidden then
    /\ RowWritten(w, CanceledByAdmin(workspace[w], today))
    /\ UNCHANGED <<dropping, backdated>>

\* subscribe records the new subscription before checkout opens.
Subscribe(w) ==
    /\ Billing
    /\ RowWritten(w, [Touched(workspace[w], today) EXCEPT !.hasSubscription = TRUE])
    /\ UNCHANGED <<dropping, backdated>>

NextScheduleDates == {Null} \cup 0 .. today + Term

\* webhook, or confirm on the billing page: whatever the snapshot says, a late
\* one a schedule date that has passed since.
ApplySubscription(w) ==
    /\ Billing
    /\ workspace[w].hasSubscription
    /\ \E status \in CashfreeStatuses, next \in NextScheduleDates :
         /\ RowWritten(w, SubscriptionApplied(workspace[w], status, next, today))
         /\ backdated' = IF next # Null /\ next < today THEN backdated \cup {w} ELSE backdated
    /\ UNCHANGED dropping

\* cancel: the intent only.
ScheduleCancel(w) ==
    /\ Billing
    /\ workspace[w].hasSubscription
    /\ ~workspace[w].cancelAtPeriodEnd
    /\ RowWritten(w, [Touched(workspace[w], today) EXCEPT !.cancelAtPeriodEnd = TRUE])
    /\ UNCHANGED <<dropping, backdated>>

FindDueCancellations ==
    {w \in Workspaces : /\ workspace[w].cancelAtPeriodEnd
                        /\ workspace[w].currentPeriodEnd # Null
                        /\ workspace[w].currentPeriodEnd <= today}

StartBillingSweep ==
    /\ Billing
    /\ dropping = {}
    /\ FindDueCancellations # {}
    /\ dropping' = FindDueCancellations
    /\ UNCHANGED <<today, workspace, store, worker, crashes, history>>

\* CANCEL at the gateway answered: drop the workspace, by primary key alone.
DropToFree(w) ==
    /\ w \in dropping
    /\ dropping' = dropping \ {w}
    /\ RowWritten(w, DroppedToFree(workspace[w], today))
    /\ UNCHANGED backdated

\* CANCEL or the update failed: the flag stays set for the next sweep.
DropFails(w) ==
    /\ w \in dropping
    /\ dropping' = dropping \ {w}
    /\ UNCHANGED <<today, workspace, store, worker, crashes, history>>

Tick ==
    /\ today < MaxDay
    /\ Stalls \/ phase = "idle"
    /\ today' = today + 1
    /\ UNCHANGED <<workspace, store, worker, dropping, crashes, history>>

Sweep ==
    \/ StartSweep \/ StartFinalWarnings \/ StartPurge \/ EndSweep
    \/ SendWarning \/ SendFails \/ StampWarning \/ StampFails
    \/ ListAssets \/ ListVariants \/ DeleteObjects \/ DeleteRows \/ PurgeFails

Writers(w) ==
    \/ \E p \in Photos : GrantUpload(w, p) \/ RegisterUpload(w, p) \/ DeleteAsset(w, p)
    \/ UpdateWorkspace(w)
    \/ ExtendAccount(w) \/ CancelAccount(w)
    \/ Subscribe(w) \/ ApplySubscription(w) \/ ScheduleCancel(w)
    \/ DropToFree(w) \/ DropFails(w)

EmbedJob(p) ==
    StartJob(p) \/ DropVariants(p) \/ PutVariant(p) \/ RecordVariant(p) \/ JobFails(p)

Next ==
    \/ Sweep
    \/ \E w \in Workspaces : Writers(w)
    \/ \E p \in Photos : EmbedJob(p)
    \/ StartBillingSweep
    \/ Crash
    \/ Tick

Spec == Init /\ [][Next]_vars

\* The daily timer keeps firing and a sweep that started goes on; no mailer,
\* bucket or database refuses for ever.
Fairness ==
    /\ WF_vars(Tick)
    /\ WF_vars(Sweep)
    /\ SF_vars(StartSweep /\ todo' = {DueRowOf(w) : w \in FindNeedingFirstWarning})
    /\ SF_vars(StartPurge /\ todo' = {DueRowOf(w) : w \in FindDueForPurge})
    /\ SF_vars(SendWarning)
    /\ SF_vars(StampWarning)
    /\ SF_vars(ListVariants)
    /\ SF_vars(DeleteObjects /\ step' = "commit")
    /\ SF_vars(DeleteRows)

FairSpec == Spec /\ Fairness

-----------------------------------------------------------------------------
(***************************************************************************)
(* What the sweep keeps.                                                   *)
(***************************************************************************)

\* The write gate and the retention clock are written twice, in two packages
\* (subscriptionBlock in lib/storage.ts, accessEndedAtSql in packages/db).
\* Whatever sequence of writers produced the row: once the clock says access
\* has ended, the gate refuses new uploads, so nobody is let to upload photos
\* that are already counting down.
EndedIsBlocked ==
    \A w \in Workspaces :
        AccessEnded(workspace[w], today) => SubscriptionBlock(workspace[w], today) # "none"

\* "canceled is checked first" (packages/db retention.ts:10-14): a row that
\* names a paid period is not due before that period and the grace are over,
\* although a drop to `free' leaves it looking like a trial that ended long ago.
\* It speaks of the period the row names: a snapshot without a schedule date
\* erases the one that was there, and one with an earlier date replaces it.
PaidPeriodIsRespected ==
    \A w \in Workspaces :
        PurgeDue(workspace[w], today) /\ workspace[w].currentPeriodEnd # Null
            => workspace[w].currentPeriodEnd + Grace <= today

\* "Objects before rows" (retention.ts:140-147): when the purge is about to
\* delete rows, none of the assets has its original left, and no variant row
\* that goes with them by cascade still has its object - however uploads, user
\* deletions, embed jobs, crashes and failed deletions interleave with it -
\* except a variant stored or recorded after the purge read the variants.
PurgeOrphansNothing ==
    step = "commit" =>
        /\ picked \cap objects = {}
        /\ picked \cap variants \cap derived \subseteq late

\* The step in which the purge deletes rows of a workspace.
Purges(w) ==
    /\ step = "commit" /\ row = w
    /\ step' = "next" /\ assets'[w] # assets[w]

\* "If mail is broken, photos are not deleted" (retention.ts:31-33): no photo
\* is deleted by the sweep of an owner no warning mail was ever sent to,
\* across crashes, failed stamps and a renewal while the mail is under way.
\* Ever: a mail of an earlier lapse satisfies it, and its stamp may undo what a
\* renewal reset while the mail was under way.
NoSilentPurge == [][\A w \in Workspaces : Purges(w) => w \in notified]_vars

\* The mails name a date ("your photos are kept until ..."): in a lapse that
\* was announced, no photo is deleted before the date last announced, although
\* the clock is recomputed at the purge from columns others keep writing -
\* unless a snapshot of the gateway gave the row a period that was over.
KeptUntilPromised ==
    [][\A w \in Workspaces :
         Purges(w) /\ promised[w] # Null /\ w \notin backdated
             => today >= promised[w]]_vars

\* A workspace that stays lapsed past its grace, warned and holding photos is
\* emptied in the end, also when uploads were registered while the purge ran.
Overdue(w) == PurgeDue(workspace[w], today) /\ workspace[w].retentionWarned
OverdueIsEmptied ==
    \A w \in Workspaces : <>[]Overdue(w) => <>[](assets[w] = {})

\* A workspace that stays lapsed with photos, and was not purged before, is
\* warned in the end: a failed mail, a failed stamp or a crash is retried.
Unpurged(w) ==
    AccessEnded(workspace[w], today) /\ ~workspace[w].photosPurged /\ HasPhotos(w)
LapseIsAnnounced ==
    \A w \in Workspaces : <>[]Unpurged(w) => <>[](workspace[w].retentionWarned)

(***************************************************************************)
(* What a comment says of it, and the code does not keep.                  *)
(***************************************************************************)

\* admin/actions.ts:196-197 "the account is live again": a renewed account may
\* upload until its new period ends, whatever it was when it lapsed.
RenewedIsOpen ==
    \A w \in Workspaces :
        /\ workspace[w].subscriptionStatus = "active"
        /\ workspace[w].currentPeriodEnd > today
        => SubscriptionBlock(workspace[w], today) = "none"
=============================================================================
