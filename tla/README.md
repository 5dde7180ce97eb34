# PhotoDost in TLA+

PhotoDost is a gallery for event photographers: a studio uploads the photos of an
event, guests find themselves by a selfie. It is a TypeScript monorepo of a Next.js
application (`apps/web`), a background worker (`apps/worker`), a Python inference
service (`apps/ml`) and a schema package (`packages/db`) over one PostgreSQL
database, one S3-like bucket and one Redis queue. There are no unit tests. What can
go wrong is in the interleavings: the worker deletes photos for good while owners
upload, admins renew and gateways call back; an owner's tab and a guest's phone show
what the server had a moment ago.

This directory holds TLA+ models of that core, TLC configurations that check
them on small instances, and TLAPS proofs that hold for every instance. Paths below
are relative to `apps/`, unless they begin with `packages/`.

## Inventory

| component | its state | operations | what is hard | what makes it correct |
|---|---|---|---|---|
| access clocks, write gate (`packages/db/src/retention.ts`, `web/src/lib/storage.ts`) | `workspaces` row: plan, status, period end, trial end | `accessEndedAtSql`, `purgeDueAtSql`, `subscriptionBlock` | one rule written twice, in SQL and in TypeScript; clause order | the gate is shut once the clock says access ended; a paid period is respected |
| retention sweep (`worker/src/retention.ts`) | warning and purge stamps, assets, objects | warn, final warning, purge, daily and at boot | acts on lists queried before many awaits; mails and deletions fail; crashes | no silent purge, none before the date mailed, no orphaned keys; lapsed workspaces are warned and emptied in the end |
| billing routes and gateway (`web/src/lib/billing.ts`, `api/billing/*`) | subscription columns; the gateway's subscriptions | subscribe, confirm, webhook, cancel | late, lost, duplicate and reordered answers; several subscriptions of one workspace | only an authorised mandate opens an account |
| billing sweep (`worker/src/billing-sweep.ts`) | `cancel_at_period_end` | query, CANCEL, drop to free | unconditional write after an await | no live mandate costs an account its plan; a cancellation takes effect |
| admin actions (`web/src/app/admin/actions.ts`) | the same row, the user's provisioning record | create, extend, cancel, reset password | pages that are stale; a second statement that fails | a term sold is kept |
| admin accounts view (`web/src/lib/admin-data.ts`, `admin/accounts-table.tsx`) | none of its own | list, summarise, status pill | the state of an account computed a third time | the pill says what the gate does, where the gateway leaves it a chance |
| admin login (`web/src/lib/admin-auth.ts`) | attempts per address, in memory | login, lock-out, logout | window restart, redeploys | guesses stay few |
| onboarding, workspaces (`web/src/lib/workspaces.ts`, `onboarding/actions.ts`) | memberships, provisioning record | create a studio, rename it | double submission of the form | the plan sold is collected once |
| events, sharing (`web/src/lib/events.ts`, `api/events/[slug]`) | events, share token, threshold, cover | create, rotate, pause, set cover | check-then-act quota; a cover that no foreign key guards | quotas hold up to the requests that race |
| storage accounting (`web/src/lib/storage.ts`, `api/events/[slug]/upload-url`, `assets`) | `storage_used_bytes`, ledger, `assets`, bucket | presign, PUT, finalize, clean-up, delete | concurrent and repeated requests, requests that die, declared sizes | counter = rows = ledger, never over the plan at a commit, every row has its object |
| reconciliation (`worker/src/reconcile.ts`, `packages/db/src/storage.ts`) | the counter | one UPDATE a day | its totals are of a snapshot, and of event photos only | drift is healed |
| embed pipeline (`worker/src/processors`, `queues.ts`, `drain.ts`, `web/src/lib/queue.ts`) | `assets.status`, `face_embeddings`, `asset_variants`, jobs | enqueue, process, drain at boot | retries, stalled jobs, crashes, deletes and purges meanwhile | a ready photo is found once; only a purge leaves a row without its thumbnail; nothing is stuck |
| albums (`api/events/[slug]/album`, `web/src/lib/albums.ts`, `album-manager.tsx`) | album and its pages, the counter | upload, replace cover, delete, publish | non-atomic replacement, position races, no second quota check | every page has its object, drift has a known cause |
| flipbook (`web/src/components/flipbook.tsx`) | leaves turned | build faces, turn, choose a shape | halves of spreads that must meet at the spine | the book reads in order |
| event dashboard (`web/src/app/events/[slug]/event-dashboard.tsx`) | uploads, grid and cover in one tab | overlapping batches, delete, set cover | status written by status instead of by id; closures over an old render; lost answers | a file shown as uploaded is stored; what is stored is shown; nothing spins for ever |
| guest search (`api/g/[token]/match`, `g/[token]/guest-experience.tsx`, `album-invite.tsx`) | camera, stage, consent; `guest_searches` | photograph, confirm, search, retake | the camera's promises settle after their view left; the rate window is counted before it is written; the owner changes the event meanwhile | the camera is released, the screen holds together, the window is bounded, the ranking is fair |
| ML service, sign-in library, marketing pages | none of their own | | | not modelled |

How they interact: the row of a workspace is the hub. Owner requests, admin actions,
billing routes and both sweeps write it, mostly by primary key and without a lock;
only storage transactions lock it. The purge deletes photos and variants an embed job may be
storing. Event photos and album pages are charged to one
counter, which a recount overwrites. The retention purge and the DELETE handler both
delete assets and objects; the registration of photos feeds the queue; the pipeline's
faces are what a guest's search ranks. Two browsers hold copies of all this: the owner's
tab and the guest's phone.

## Modules

| module | what it models |
|---|---|
| `Access` | the two clocks, the gate and, for each writer of the row, the row it leaves. No variables: pure operators shared by the rest |
| `Retention` | the sweep, one step per await, beside every writer of the row and the embed jobs of its photos. `phase`, `todo`, `row`, `step`, `picked`, `listed` are the locals of `runRetentionSweepOnce` and `purgeWorkspacePhotos` |
| `Billing` | one workspace, its subscriptions at the gateway (`gateway`), and every answer about them on its way (`inflight`): the routes, the webhook and `billing-sweep.ts`, whose row is `sweep`, with the refusals it takes for a cancellation (`presumed`) |
| `StorageAccount` | the abstract account: store, remove, change of plan |
| `PhotoStorage` | the requests, the purge and the recount of one workspace; its web part implements `StorageAccount` |
| `EmbedPipeline` | from a registered photo to a searchable one: each `await` of `processEmbedAsset` and `deriveAndStoreVariants`, the queue, the drain, crashes, and the DELETE and the purge that take photos from under it |
| `Album` | one album: `up` holds the locals of each upload (`album-manager.tsx` and the POST of `album/pages`), `refunding` and `unlinking` the DELETE requests between their statements; the recount of the counter they share with event photos |
| `Flipbook` | the viewer as functions of an album: faces, leaves, turns, shape |
| `AlbumBook` | `Album` seen through `getPublishedAlbumByShareToken` and `Flipbook`: the book a guest reads in each state of the album |
| `EventDashboard` | one tab of the owner: `batches` are the runs of `handleFiles`, `deleting` and `clicks` the requests on their way, each with what its closure captured; the server's rows and cover; a second device |
| `FaceMatch` | the query of a search: the nearest face of each photo, a threshold, a limit |
| `GuestVisit` | a guest's page (`stage`, each mount of the camera in `views`, each search in `search`), the invite, the server's rate window, and the owner, purge and pipeline that change the event meanwhile; uses `FaceMatch` |
| `Accounts` | customers from the admin's form to their events: accounts, onboarding, renewals, event creation, the table the admin sees (`page`), the gateway and the billing sweep as writers of the studio's row (`Mirror`, `Drop`), the login; uses `Access` for rows and gate |
| `RetentionProofs` (with those of `Access`), `PhotoStorageProofs`, `EmbedPipelineProofs`, `BillingProofs`, `AlbumProofs` (with those of `AlbumBook` and `Flipbook`), `EventDashboardProofs`, `GuestVisitProofs` (with those of `FaceMatch`), `AccountsProofs` | theorems and proofs |
| `MC_Retention`, `MC_PhotoStorage`, `MC_Billing`, `MC_Album`, `MC_EventDashboard`, `MC_GuestVisit`, `MC_Accounts` | small instances, symmetries and bounds; `EmbedPipeline` needs none and is run directly |

Operators carry the names of the functions they translate (`FindDueForPurge`,
`SubscriptionBlock`, `RecordStorageDelta`); a name such as `ListNoVariants`
next to `ListVariants` is a plausible bug in that code, kept to show that the
property which guards against it does fail.

### What is abstracted

- Time is counted in days (`GuestVisit`: in ticks of the rate window; the admin login:
  in minutes); a clause `<= now()` becomes `<= today`. The durations are
  parameters. The three paid tiers differ in quota only and are one `"paid"` plan.
- In `Retention` a registered upload, a storage delta, a rename are what they do to
  the row: they move `updated_at`, on which a canceled workspace without a period end
  is anchored. Sizes are left to `PhotoStorage`. A snapshot of the gateway may carry any
  status there, and no schedule date or any from the first day to a term from today
  (`NextScheduleDates`), so also one that is long past; `Billing` gives the gateway a state.
  The two variants of a photo are one there, stored and recorded in two steps;
  `EmbedPipeline` has both, and every other step of a job.
- A sweep may start at any moment, because it runs at every boot. Two sweeps of
  one process overlap only when one lasts longer than a day; that is left out.
- A PUT takes place together with the registration in `Retention`, and is a step of
  its own in `PhotoStorage` and `Album`.
- Asset and page ids are random UUIDs, so no id is drawn twice. `Photos` and `Pages`
  bound how many a behaviour draws.
- The recount is one UPDATE statement under READ COMMITTED: in `PhotoStorage` it picks
  rows whose counter is off in its snapshot (`RecountRead`) and writes that snapshot's
  total to the row as it then is (`RecountWrite`). In `Album`, where the question is what
  the total leaves out, it is one step.
- In `EmbedPipeline` the queue is modelled from how the worker and the web
  application use it: a job id exists at most once, `add` of a known id is ignored,
  a job is tried `attempts` times, an active job of a dead worker is handed out again
  `MaxStalled` times and then fails, finished jobs expire, a locked job cannot be
  removed. A purge takes any set of photos at any moment: when a workspace is due
  is `Retention`'s. One worker process runs, with `Slots` executions at once. A live worker that
  loses its lock is left out. The variant keys a DELETE removes are those
  of the moment its row goes.
- The gateway in `Billing` is modelled from the statuses `mapSubscriptionStatus` knows:
  a subscription is created, authorised, charged, falters and ends, in checkout too. Whether
  it refuses a CANCEL in words that `billing-sweep.ts:53` takes for success is not known and
  both are tried; a snapshot is what
  it was when the webhook was sent or the handler fetched it. Signatures are valid or the
  snapshot is lost.
- In `Album` the presign gives positions; a unique index refuses a second page at one
  (`Clashes`). The publish request reads and writes in two steps.
- In `EventDashboard` a React state update is one step with the handler that made it, and
  a closure's stale value is kept where the code keeps it (`closed` of a deletion, `prev`
  of a cover click). Progress percentages, previews, the share card and the settings
  card are left out. A file's hash is sent or not, since the browser may lack Web Crypto.
- `GuestVisit` keeps of a selfie only which mount of the camera took it, of a search what
  it found and the sensitivity it was let in with; of a row of `guest_searches` when it was written. The rows of a search are
  given by their rank (`Matched`). Whether ML answers is nondeterministic. The sheet of the invite makes what
  is under it unreachable (`Uncovered`).
- In `Accounts` slugs are left out: a taken one is a commit that fails, like any other
  error. A failed login is kept as its age, oldest first, as long as it can matter.
  Passwords, session signing and prices are left out. Trial events are counted
  per studio; paid plans have no event limit. The gateway writes any status and any date of
  `Mirror`'s range there, and the sweep drops any studio with a subscription.

## What the runs check

| run | bounds | shows |
|---|---|---|
| `Retention_safety` | 1 workspace, 1 photo, grace 2 days, term 1, 4 days; all gateway answers in any order, or embed jobs and 1 crash | a purge comes after a warning mail (`NoSilentPurge`) and not before the date mailed (`KeptUntilPromised`); it forgets no key but of a variant stored since it looked (`PurgeOrphansNothing`); the gate covers the clock (`EndedIsBlocked`); the paid period a row names is respected (`PaidPeriodIsRespected`) |
| `Retention_liveness` | 2 photos, 3 days, 1 crash | `OverdueIsEmptied`, `LapseIsAnnounced` |
| `PhotoStorage_account` | 3 photos of 1, 2, 3 bytes, plans of 2 and 4, two finalize requests, one photo resubmitted, recount on | `CounterIsExact`, `RowsHaveObjects`, and the refinement `ImplementsAccount` |
| `PhotoStorage_healing` | the same photos, one request, purge and recount on | no counter below zero (`TypeOK`) and `DriftIsHealed` |
| `EmbedPipeline_safety` | 1 photo with or without a face, 2 slots, 2 attempts, 1 stall, 1 crash, 1 failing statement, 1 purge | `ReadyIsSearchable`, `VariantsAreStored`, `NeverStuckProcessing` |
| `Billing_safety` | 2 subscriptions, 2 snapshots on their way (1 while the sweep, a subscribe or a checkout is open), 2 days | `ActiveWasAuthorised`, `OnlyAnEndedMandateFrees`, and under fairness `CancellationTakesEffect` |
| `Album_safety` | 3 pages of 2 sizes and shapes, selections of one and two, 2 uploads, quota 5, recount on | `PagesHaveObjects`, `DriftIsExplained`, and of the book in every state `BookReadsInOrder`: every spread once and by position, each facing its other half, in the most common shape |
| `EventDashboard_tab` | 3 files (one of a wrong type, two with twins in the event), 2 batches, 2 cover clicks, 2 events | `UploadedMeansStored`, `StoredIsShown`, `ShownCoverIsStored`, `NothingSpinsForever` |
| `GuestVisit_gallery` | 2 photos with 3 faces, 2 thresholds, at most 2 results, 2 mounts of the camera, one other guest of the address, limit 2 a window of 2 ticks, 1 change by the owner | `CameraIsReleased`, `ScreenHoldsTogether`, `RateIsBounded`, and of every search from its query to the screen `AnswersAreFair` |
| `Accounts_safety` | one customer the admin sells to and one who signs up alone, 2 days, and one of: 2 submissions and 2 studios, the gateway and the billing sweep, 2 event creations for a quota of 2, lock-out after 3 guesses for 2 minutes | `SoldTermIsKept`, `PillTellsTheGate`, `CapsHold` |

Why the bounds are enough: one workspace suffices for the sweep, since its queries and
writes are per workspace and the list it works through only delays it, which `Tick`
between any two of its steps (`Stalls`) does too. Four days hold a
lapse, its grace and its purge, with a renewal or a snapshot before, between and after. For
the dates one photo is enough; with its variant it has two objects, which tell a partial deletion
from a complete one, and the liveness run has two photos. Three runs have a `CONSTRAINT`
(`OneAtATime` in their MC module), because independent causes multiply the states: in
`Retention` the gateway writes the row of a behaviour, or embed jobs and a crash disturb
its objects; in `Accounts` no property relates failed sign-ins, events, the gateway and a
second studio; in `Billing` two snapshots, which are what reorders, wait together while
nothing else is under way. The proofs have none of these bounds. Sizes 1, 2, 3 with a plan of 4 make two batches fit alone and not
together, and a plan of 2 makes a change of plan leave an account over its limit.
One photo in the pipeline meets all its races (two slots, a drain, a delete, a purge, a
retry), because nothing of one photo's job reads another photo; the proofs cover
any number. The code tries a job three times; two are the least with a retry, and the proofs
cover any number, of purges too. Two subscriptions are the least with which
an answer can be about the wrong one. Three pages give an album with a cover and a
back, one with two spreads, and a replaced cover. Two batches, two clicks and one
other device are the least that overlap; a deletion, a cover click or a lost answer
counts as an event, and two of them give every pair. Two mounts of the camera let a
promise of the first settle over the second; a photo with two faces and a limit of two
make a photo come up twice or push another out, if the ranking were wrong.

`CHECK_DEADLOCK FALSE` is set because each model ends at its bounds: the last day, the
last photo deleted, the tab with nothing left to select.

Several properties hold only outside a named exception, which a history variable marks:
`muddled` (two selections at once, or a HEAD that failed), `doubt` (overlapping or lost
changes of a cover), `ambushed` (a camera failing after its view left), `raced`
(overlapping onboarding, a renewal from a stale page, a studio the gateway wrote), `clean` (a
cover that someone else removed between the two statements of its replacement, by another
replacement or by a DELETE of the page, and a recount), `late` (a variant stored or recorded
since the purge read the variants), `backdated` (a snapshot with a date that was past), `taken`
(a variant whose object the purge deleted), `presumed` (a refusal of CANCEL taken for success). Each exception is a behaviour of the code listed below, and outside
of it the property is checked in full.

Runs that are expected to fail each show that the code departs from what a
comment in it says:

| run | property | what happens |
|---|---|---|
| `Retention_renewed_trial` | `RenewedIsOpen` | a renewed self-serve trial stays blocked: plan and trial end are not touched |
| `Album_recount` | `RecountHeals` | the recount sums event photos only and takes album bytes off an exact counter |

Seen while modelling and not given a run:

- Retention: a renewal after the purge's query does not stop the deletion
  (`worker/src/retention.ts:286`, against `:29`); the stamp after the mail sets the mark that a
  renewal has just cleared (`:242`, against `admin/actions.ts:196-197`); a variant that an embed
  job stores after the purge's query for variants loses its row by cascade and keeps its
  object (`:169`, against `:142-144`); a late snapshot brings an earlier period end, and a purge
  before the date mailed (`billing.ts:317`, against `email.ts:72`); a first warning can name a date
  already past (`:58`, against `email.ts:58-61`); `photos_purged_at` is never cleared, so
  a second lapse is neither announced nor purged; a mail is sent twice when the worker
  dies before its stamp, where the schema says exactly once.
- Pipeline: a purge that stops half way leaves rows that name thumbnails it deleted, until
  a job or the next sweep comes; a photo whose job was given up in `processing` is listed by no boot
  (`drain.ts:26`, against `index.ts:33-34`).
- Storage: a finalize that is resubmitted while the account is over its cap deletes the
  objects the first one registered.
- Billing: a refused CANCEL whose text matches drops an account whose mandate is active
  (`billing-sweep.ts:53`, against `:120-122`), and one that subscribed again after the sweep listed
  it is dropped with its new mandate (`:103`); any ACTIVE snapshot clears a scheduled cancellation; a second subscribe
  overwrites the id and orphans a live mandate; the late end of an old mandate frees an
  account that has a live one; an abandoned checkout has the paid plan
  with status `incomplete`, and so never lapses; a second confirm is not the no-op
  `confirm/route.ts:19` calls it, when the gateway moved in between.
- Album: two replacements of a cover at once, or one beside a DELETE of that cover, refund
  it twice and charge too little; finalize does not check the
  quota again; leaked objects of replaced pages are reconciled by nothing, although
  `pages/route.ts:122-123` says so; a book without a cover puts halves of two spreads on
  one opening, against `flipbook.tsx:60-61`; an album with a back cover only can be
  announced to a guest and then not be found.
- Dashboard: one batch marks the entries of another, and a file whose HEAD failed is still
  shown as uploaded; two twins in one selection are both stored; a duplicate deleted
  meanwhile comes back as a tile without a photo; a deletion's callback compares with the
  cover of an old render and clears a newer one.
- Guest: the camera's catch has no check that its view is still there, so a late failure
  throws the guest back to the intro from wherever they are; "X of Y" can have X > Y when
  photos are deleted during a search; concurrent searches exceed the limit by their number.
- Accounts: two submissions of the onboarding form both collect the plan
  (against `workspaces.ts:166-167`); a renewal from a page loaded before onboarding extends
  the record nobody reads any more; an account whose second statement failed exists with the
  password the admin typed, and may onboard onto the free trial, although the form said that it
  was not created; the pill and the summary (`accounts-table.tsx:55-73`, `admin-data.ts:155`)
  call active an account whose charge failed, which the gate refuses (`storage.ts:248`); a paid
  plan without a period end shows the date parked on its user.

### Fairness

`Retention!Fairness`: the clock goes on, a sweep that started goes on, and sweeps
start again (the daily timer, `startRetentionSweep`). Strong fairness is asked of what
is retried every day: a query that answers, a mail that is accepted, a stamp that is
written, a query for variants that answers, a deletion in which every object goes. That says no dependency refuses for
ever; nothing is assumed of any single attempt, and nothing of owners or admins.
`PhotoStorage!FairSpec`: the daily recount runs and writes, a purge that began
goes on. `DriftIsHealed` is about an owner who pauses. `EmbedPipeline!Fairness`: a
running worker goes on, the queue hands out a waiting job in turn and checks for
stalled ones. The bucket and the ML service may refuse every time.
`Billing!Fairness`: the sweep lists what is due again and again (at boot and daily,
`startBillingSweep`), a snapshot does not stay on its way for ever, and a CANCEL and the
update after it succeed some day if they are tried for ever. `EventDashboard!FairSpec`:
a browser settles each request it sent, with an answer or an error, and runs its timers.

## What is proved

All theorems hold for every value of the constants that the modules' assumptions
allow: any number of workspaces, photos, slots, requests, subscriptions, pages, files,
views and customers, any durations with the final notice inside the grace, any sizes and
quotas. What is assumed of a constant is what the code gives: sizes enter through
`Bytes`, additive over disjoint sets; faces are finitely many rows with ids of their own; the
free events, the guesses before a lock-out and its length are positive.

Every safety invariant and action property that a passing run checks is a theorem below.
The invariant it needs is proved with one step per action of the model.

- `RetentionProofs`: `PastDueIsNeverDue` and `EndedImpliesBlocked` on every row, by cases
  of the clock; `TypeCorrect`; `GateCoversClock` from both; `PeriodRespected`.
  `ObjectsBeforeRows` and `NeverSilent` need `SweepInv`, which
  says of the sweep's locals what the properties leave open: at "commit" every
  listed original is gone and a registered photo is never fresh or granted, so no upload
  can bring one back (`OriginalsGone`); of the variants, from the query for them on, each that
  has row and object is listed or was stored or recorded since (`VariantsAccounted`); a row with a first-warning stamp, or one being
  stamped, belongs to a workspace that was mailed. `PromiseKept` needs `PromiseInv`: the
  date a mail named, or is about to name, is never later than any column the clock may
  come to be read from, plus the grace, nor than today plus the grace (`Outlasts`). That
  all of them are bounded, and not just the one in force, is what makes it inductive:
  a writer that changes plan or status moves the clock to another column, or to today. The rows the
  purge has listed were due when listed (`MayPurge`), so their promise was over by then. A
  snapshot may name any date, so a workspace that got one already past is excepted
  (`backdated`), and one that names today or a later day is covered by `Outlasts` as it is.
- `PhotoStorageProofs`: `StorageTypeCorrect`; with `~Purging`, `CounterExact` and
  the refinement `AccountImplemented` from `AccountInv` (counter, ledger and rows agree,
  and the recount never finds anything to write), `RegisteredIsStored` from `OwnerInv`
  (of the ids submitted once, those in flight, registered and being deleted are
  disjoint, and two requests never hold the same one). The hypothesis is needed: the
  purge subtracts a total read before its awaits and counts a delete in between twice.
- `EmbedPipelineProofs`: `PipelineTypeCorrect`, `SearchableOnce`, `VariantsStored`.
  `QueueInv` says that a photo is worked on in one slot at most and that its job is then
  active; hence what a step found of its photo (`StepFact`) still holds at
  the next one, although drains, deletes and stalled-job checks come between.
  `StoredInv` adds that objects are only unlinked of photos whose row is gone, and that a job
  between a variant's PUT and its row has it in the bucket, or the purge took it.
- `BillingProofs`: `BillingTypeCorrect`, `OnlyAuthorisedActivates`, `OnlyEndedFrees`.
  `BillingInv` says of every snapshot on its way that what it reports has happened
  (`SnapshotsHappened`): it may be old, it is never ahead of the mandate. Hence an ACTIVE
  one is of a mandate that was authorised, whichever answer overtook it, and a CANCELED
  one of a mandate that ended. The sweep's unconditional UPDATE comes after a CANCEL that
  went through or a refusal it took for one (`SweptHasEnded`), and a scheduled cancellation
  names a subscription.
- `AlbumProofs`: `PagesStored` from `PageInv` (ids in uploads, in rows and being unlinked
  are disjoint, and an upload inserts only what it has PUT); `DriftExplained` from
  `DriftInv`, the accounting with what each upload and each refund under way still owes
  (`OwedOnce`: no two of them owe for one page). `BookStaysInOrder` goes
  from the requests to the opened book: `BookInv` keeps positions of spreads apart and
  covers at zero, although two presigns may hand out one position; lemmas about
  the operators follow, for any number of pages: a rank by position lists every spread once
  (`SpreadsAreInOrder`), leaf k shows the halves of spread k (`FacesOfTheBook`), no shape
  has more votes than the one chosen (`MajorityWins`).
- `EventDashboardProofs`: `DashboardTypeCorrect`; `StoredStaysShown` from `StoreInv` (an
  id is drawn once, and what is gone stays gone, so a late answer names no other
  photo); `UploadedStaysStored` from `PanelInv` (while nothing is muddled one batch runs, and
  what it registers it has PUT); `StarIsWhereTheCoverIs` from `StarInv`, which compares
  star and cover at rest (`BetweenClicks`) and during a click that runs alone
  (`AloneClick`).
- `GuestVisitProofs`: `MatchedIsFair`, for every finite set of faces, threshold and
  limit: ranks are one to one onto an interval, so the list holds no photo twice, leaves
  out none that is owed and goes from near to far. `AnswersStayFair` carries that from the query
  through every later step of a search: deleting a photo that was found, or one that was
  not, embedding one, or moving the sensitivity leaves what was found a fair answer to the
  faces that were there throughout. `CameraOnlyInView` from `CameraInv` (at most one view is mounted, only at
  the camera stage, and none that left keeps a stream); `ScreenStaysTogether` from `ScreenInv`;
  `RateStaysBounded` from `RateInv`: the rows of a window and the requests that have
  counted but not written exceed the limit by no more than those that overlapped.
- `AccountsProofs`: `CapsHoldAlways` from `MissInv` (the failures within a lock-out's length are
  those of the window being counted and some of the one before, all older than its first) and `QuotaInv` (events and requests past the check
  exceed the quota by the racing ones only); `PillAgreesWithGate`, by cases of the
  row each writer leaves, the gateway and the sweep among them, between the TypeScript readings
  of it; `SoldTermStays`
  from `SoldInv`, which follows the term sold from the account's record through onboarding
  to the studio's row. `AccountsTypeCorrect` carries with it who owns which row.

Only model-checked: the liveness properties `OverdueIsEmptied`, `LapseIsAnnounced`,
`DriftIsHealed`, `NeverStuckProcessing`, `CancellationTakesEffect` and
`NothingSpinsForever`, because temporal proofs under fairness and `ENABLED` are out
of the prover's reach. `CounterIsExact`, `RowsHaveObjects` and the refinement are proved
for `~Purging`, which is how `PhotoStorage_account` checks them.

## Plan

Written: 1 `Access`, 2 `Retention`, 3 `StorageAccount` and `PhotoStorage`, 4
`EmbedPipeline`; 5 `Billing`; 6 `Album` with `AlbumBook` and `Flipbook`; 7
`EventDashboard`; 8 `GuestVisit` with `FaceMatch`, and `Accounts`; 9 the proofs of all
of them. Next, in this order:

10. Compositions: the purge of `Retention` with the requests of `PhotoStorage`; an abstract
    retention promise (announced, kept, emptied) that `Retention` implements.
11. The share and settings cards of the dashboard: busy flags, the last threshold saved.

### Not modelled

The sign-in library and its configuration; `resetPasswordAction`, which changes a hash no
model reads; the inference of the ML service, whose answers are nondeterministic; the share
and settings cards, whose writes are `OwnerChangesLink` and `OwnerSetsThreshold`; slugs and
names; mail texts; marketing pages, layout and design system. None of these has state
that the other components read, beyond what the models take from them.

## Running

`tlc -config Retention_safety.cfg MC_Retention`, and likewise for the others: the name
before the underscore is that of the module; `EmbedPipeline_safety` is run on
`EmbedPipeline` itself.
`tlapm RetentionProofs.tla` checks the proofs of a module. Each run ends within four
minutes on two cores, each proof module within two.
