--------------------------- MODULE EmbedPipeline ---------------------------
(***************************************************************************)
(* From a registered photo to a searchable one.                            *)
(*                                                                         *)
(*   Register, Enqueue...   POST assets: the row, then the job             *)
(*   DeleteAsset, Unlink    DELETE asset: the row, then the objects        *)
(*   Take ... Complete      the worker's embed-asset processor, one step   *)
(*                          per await of processEmbedAsset                 *)
(*   Drain...               drainPendingAssets, once per boot              *)
(*   Purge...               the retention sweep: objects, then rows        *)
(*   RecoverStalled, ...    BullMQ: jobs are kept in Redis by id, retried  *)
(*                          when they throw, handed out again when their   *)
(*                          worker died                                    *)
(*                                                                         *)
(* What guests can find is told by the rows of face_embeddings; `faces'    *)
(* counts how often the faces of a photo are in there.                     *)
(***************************************************************************)
EXTENDS Integers, FiniteSets

CONSTANTS
    Photos,         \* asset ids
    Slots,          \* executions a worker runs at once (concurrency)
    NoPhoto,        \* a slot without a job
    Attempts,       \* `attempts' of the job
    MaxStalled,     \* BullMQ's maxStalledCount
    MaxCrashes,     \* bound: how often the worker process may die
    MaxFaults,      \* bound: how often a statement of the processor may fail
    MaxPurges       \* bound: how often the retention sweep takes photos up

ASSUME PipelineAssumption ==
    /\ NoPhoto \notin Photos
    /\ Attempts \in Nat \ {0}
    /\ {MaxStalled, MaxCrashes, MaxFaults, MaxPurges} \subseteq Nat

VARIABLES
    status,     \* assets.status; "new": not registered, "gone": deleted
    faces,      \* how many copies of a photo's faces face_embeddings holds
    variants,   \* rows of asset_variants
    files,      \* objects in the bucket
    unlinking,  \* objects a DELETE request has still to delete
    enqueueing, \* photos a POST request has still to enqueue
    job,        \* the queue: job embed-<id>
    exec,       \* what each slot of the running worker does
    booting,    \* did the worker start and not drain yet?
    drain,      \* where drainPendingAssets is
    listed,     \* its local list of pending photos
    left,       \* those of the list its current loop has to visit
    purge,      \* where purgeWorkspacePhotos is
    purging,    \* its local list of photos
    condemned,  \* its local list of keys
    taken,      \* history: objects the purge deleted, not stored again since
    faceless,   \* the photos without a face on them: never changes
    crashes, faults, purges

web == <<unlinking, enqueueing>>
drainer == <<booting, drain, listed, left>>
purger == <<purge, purging, condemned, taken, purges>>
bounds == <<faceless, crashes, faults>>
table == <<status, faces, variants>>
vars == <<table, files, web, job, exec, drainer, purger, bounds>>

Variants == {"thumb", "preview"}
Kinds == Variants \cup {"original"}
Statuses == {"new", "uploaded", "processing", "ready", "failed", "gone"}
JobStates == {"none", "wait", "active", "completed", "failed"}
Steps == {"mark", "download", "embed", "clear", "insert", "unrow",
          "putThumb", "rowThumb", "putPreview", "rowPreview",
          "finish", "complete", "giveUp", "throw"}

NoJob == [state |-> "none", failures |-> 0, stalled |-> 0]
Free == [photo |-> NoPhoto, step |-> "mark"]

TypeOK ==
    /\ status \in [Photos -> Statuses]
    /\ faces \in [Photos -> Nat]
    /\ variants \subseteq Photos \X Variants
    /\ files \subseteq Photos \X Kinds
    /\ unlinking \subseteq Photos \X Kinds
    /\ enqueueing \subseteq Photos
    /\ job \in [Photos -> [state : JobStates, failures : 0..Attempts, stalled : 0..MaxStalled]]
    /\ exec \in [Slots -> [photo : Photos \cup {NoPhoto}, step : Steps]]
    /\ booting \in BOOLEAN
    /\ drain \in {"idle", "remove", "add"}
    /\ listed \subseteq Photos
    /\ left \subseteq listed
    /\ purge \in {"idle", "variants", "delete", "commit"}
    /\ purging \subseteq Photos
    /\ condemned \subseteq Photos \X Kinds
    /\ taken \subseteq Photos \X Kinds
    /\ faceless \subseteq Photos
    /\ crashes \in Nat
    /\ faults \in Nat
    /\ purges \in Nat

Init ==
    /\ status = [p \in Photos |-> "new"]
    /\ faces = [p \in Photos |-> 0]
    /\ variants = {} /\ files = {}
    /\ unlinking = {} /\ enqueueing = {}
    /\ job = [p \in Photos |-> NoJob]
    /\ exec = [e \in Slots |-> Free]
    /\ booting = TRUE
    /\ drain = "idle" /\ listed = {} /\ left = {}
    /\ purge = "idle" /\ purging = {} /\ condemned = {} /\ taken = {}
    /\ faceless \in SUBSET Photos
    /\ crashes = 0 /\ faults = 0 /\ purges = 0

HasRow(p) == status[p] \notin {"new", "gone"}

\* UPDATE assets ... WHERE id = p: no row, no effect.
SetStatus(p, s) == status' = IF HasRow(p) THEN [status EXCEPT ![p] = s] ELSE status

\* add() with a job id that exists is ignored.
AddJob(p) ==
    job' = IF job[p].state = "none" THEN [job EXCEPT ![p] = [NoJob EXCEPT !.state = "wait"]]
           ELSE job

(***************************************************************************)
(* The web application.                                                    *)
(***************************************************************************)
Register(p) ==
    /\ status[p] = "new"
    /\ status' = [status EXCEPT ![p] = "uploaded"]
    /\ files' = files \cup {<<p, "original">>}
    /\ enqueueing' = enqueueing \cup {p}
    /\ UNCHANGED <<faces, variants, unlinking, job, exec, drainer, purger, bounds>>

Enqueue(p) ==
    /\ p \in enqueueing
    /\ enqueueing' = enqueueing \ {p}
    /\ AddJob(p)
    /\ UNCHANGED <<table, files, unlinking, exec, drainer, purger, bounds>>

\* Promise.allSettled: Redis is down, or the request died before it came here.
EnqueueFails(p) ==
    /\ p \in enqueueing
    /\ enqueueing' = enqueueing \ {p}
    /\ UNCHANGED <<table, files, unlinking, job, exec, drainer, purger, bounds>>

\* The row; embeddings and variant rows go by ON DELETE CASCADE.  The keys to
\* delete are those of the variant rows at that moment.
DeleteAsset(p) ==
    /\ HasRow(p)
    /\ status' = [status EXCEPT ![p] = "gone"]
    /\ faces' = [faces EXCEPT ![p] = 0]
    /\ variants' = {v \in variants : v[1] # p}
    /\ unlinking' = unlinking \cup {<<p, "original">>} \cup {v \in variants : v[1] = p}
    /\ UNCHANGED <<files, enqueueing, job, exec, drainer, purger, bounds>>

\* Best effort: a failed deletion is logged.
Unlink(f) ==
    /\ f \in unlinking
    /\ unlinking' = unlinking \ {f}
    /\ files' \in {files \ {f}, files}
    /\ UNCHANGED <<table, enqueueing, job, exec, drainer, purger, bounds>>

(***************************************************************************)
(* processEmbedAsset, in slot e.                                           *)
(***************************************************************************)
At(e, step) == exec[e].photo # NoPhoto /\ exec[e].step = step
GoTo(e, step) == exec' = [exec EXCEPT ![e].step = step]

Take(e, p) ==
    /\ exec[e] = Free
    /\ job[p].state = "wait"
    /\ job' = [job EXCEPT ![p].state = "active"]
    /\ exec' = [exec EXCEPT ![e].photo = p]
    /\ UNCHANGED <<table, files, web, drainer, purger, bounds>>

Mark(e) ==
    /\ At(e, "mark")
    /\ SetStatus(exec[e].photo, "processing")
    /\ GoTo(e, "download")
    /\ UNCHANGED <<faces, variants, files, web, job, drainer, purger, bounds>>

\* The object may be gone, and the bucket may refuse.
Download(e) ==
    /\ At(e, "download")
    /\ \/ <<exec[e].photo, "original">> \in files /\ GoTo(e, "embed")
       \/ GoTo(e, "giveUp")
    /\ UNCHANGED <<table, files, web, job, drainer, purger, bounds>>

\* The ML service answers, or not.
Embed(e) ==
    /\ At(e, "embed")
    /\ GoTo(e, "clear") \/ GoTo(e, "giveUp")
    /\ UNCHANGED <<table, files, web, job, drainer, purger, bounds>>

\* A retry that does not delete what an earlier attempt inserted.
ClearNothing(e) ==
    /\ At(e, "clear")
    /\ GoTo(e, "insert")
    /\ UNCHANGED <<table, files, web, job, drainer, purger, bounds>>

Clear(e) ==
    /\ At(e, "clear")
    /\ faces' = [faces EXCEPT ![exec[e].photo] = 0]
    /\ GoTo(e, "insert")
    /\ UNCHANGED <<status, variants, files, web, job, drainer, purger, bounds>>

\* Nothing to insert, or the faces - which the foreign key refuses when the
\* photo was deleted meanwhile, and the job throws.
Insert(e) ==
    LET p == exec[e].photo
    IN  /\ At(e, "insert")
        /\ IF p \in faceless THEN GoTo(e, "unrow") /\ UNCHANGED faces
           ELSE IF HasRow(p)
                THEN GoTo(e, "unrow") /\ faces' = [faces EXCEPT ![p] = @ + 1]
                ELSE GoTo(e, "throw") /\ UNCHANGED faces
        /\ UNCHANGED <<status, variants, files, web, job, drainer, purger, bounds>>

\* deriveAndStoreVariants: drop the rows; then put and row for each variant.
Unrow(e) ==
    /\ At(e, "unrow")
    /\ variants' = {v \in variants : v[1] # exec[e].photo}
    /\ GoTo(e, "putThumb")
    /\ UNCHANGED <<status, faces, files, web, job, drainer, purger, bounds>>

VariantOf(step) == IF step \in {"putThumb", "rowThumb"} THEN "thumb" ELSE "preview"
After == [putThumb |-> "rowThumb", rowThumb |-> "putPreview",
          putPreview |-> "rowPreview", rowPreview |-> "finish"]

\* The row written although the object is not there.
PutVariantNever(e) ==
    /\ exec[e].photo # NoPhoto /\ exec[e].step \in {"putThumb", "putPreview"}
    /\ GoTo(e, After[exec[e].step])
    /\ UNCHANGED <<table, files, web, job, drainer, purger, bounds>>

PutVariant(e) ==
    /\ exec[e].photo # NoPhoto /\ exec[e].step \in {"putThumb", "putPreview"}
    /\ files' = files \cup {<<exec[e].photo, VariantOf(exec[e].step)>>}
    /\ taken' = taken \ {<<exec[e].photo, VariantOf(exec[e].step)>>}
    /\ GoTo(e, After[exec[e].step])
    /\ UNCHANGED <<table, web, job, drainer, purge, purging, condemned, purges, bounds>>

\* The insert fails when the photo was deleted, and that is no failure.
RowVariant(e) ==
    LET p == exec[e].photo
    IN  /\ p # NoPhoto /\ exec[e].step \in {"rowThumb", "rowPreview"}
        /\ IF HasRow(p)
           THEN /\ variants' = variants \cup {<<p, VariantOf(exec[e].step)>>}
                /\ GoTo(e, After[exec[e].step])
           ELSE GoTo(e, "finish") /\ UNCHANGED variants
        /\ UNCHANGED <<status, faces, files, web, job, drainer, purger, bounds>>

\* Any error while resizing, storing or recording is logged and passed over.
VariantsFail(e) ==
    /\ exec[e].photo # NoPhoto
    /\ exec[e].step \in {"unrow", "putThumb", "rowThumb", "putPreview", "rowPreview"}
    /\ GoTo(e, "finish")
    /\ UNCHANGED <<table, files, web, job, drainer, purger, bounds>>

Finish(e) ==
    /\ At(e, "finish")
    /\ SetStatus(exec[e].photo, "ready")
    /\ GoTo(e, "complete")
    /\ UNCHANGED <<faces, variants, files, web, job, drainer, purger, bounds>>

Complete(e) ==
    /\ At(e, "complete")
    /\ job' = [job EXCEPT ![exec[e].photo].state = "completed"]
    /\ exec' = [exec EXCEPT ![e] = Free]
    /\ UNCHANGED <<table, files, web, drainer, purger, bounds>>

\* A handler that rethrows and records nothing.
GiveUpSilently(e) ==
    /\ At(e, "giveUp")
    /\ GoTo(e, "throw")
    /\ UNCHANGED <<table, files, web, job, drainer, purger, bounds>>

\* The handler of a failed download or embed: it records, then rethrows.
GiveUp(e) ==
    /\ At(e, "giveUp")
    /\ SetStatus(exec[e].photo, "failed")
    /\ GoTo(e, "throw")
    /\ UNCHANGED <<faces, variants, files, web, job, drainer, purger, bounds>>

\* A statement outside those two handlers fails: nothing records it.
StatementFails(e) ==
    /\ faults < MaxFaults
    /\ exec[e].photo # NoPhoto
    /\ exec[e].step \in {"mark", "clear", "insert", "finish", "giveUp"}
    /\ faults' = faults + 1
    /\ GoTo(e, "throw")
    /\ UNCHANGED <<table, files, web, job, drainer, purger, faceless, crashes>>

\* A queue that counts the retries and not the attempts.
ThrowOnceMore(e) ==
    LET p == exec[e].photo
    IN  /\ At(e, "throw")
        /\ job' = [job EXCEPT ![p].failures = @ + 1,
                              ![p].state = IF job[p].failures < Attempts THEN "wait" ELSE "failed"]
        /\ exec' = [exec EXCEPT ![e] = Free]
        /\ UNCHANGED <<table, files, web, drainer, purger, bounds>>

\* The queue retries a job that threw, `attempts' times in all.
Throw(e) ==
    LET p == exec[e].photo
        failures == job[p].failures + 1
    IN  /\ At(e, "throw")
        /\ job' = [job EXCEPT ![p].failures = failures,
                              ![p].state = IF failures < Attempts THEN "wait" ELSE "failed"]
        /\ exec' = [exec EXCEPT ![e] = Free]
        /\ UNCHANGED <<table, files, web, drainer, purger, bounds>>

Step(e) ==
    \/ Mark(e) \/ Download(e) \/ Embed(e) \/ Clear(e) \/ Insert(e)
    \/ Unrow(e) \/ PutVariant(e) \/ RowVariant(e) \/ VariantsFail(e)
    \/ Finish(e) \/ Complete(e) \/ GiveUp(e) \/ Throw(e)

(***************************************************************************)
(* The queue's housekeeping and the worker's life.                         *)
(***************************************************************************)
Running(p) == \E e \in Slots : exec[e].photo = p

\* An active job nobody renews the lock of: back to the queue, but not for ever.
RecoverStalled(p) ==
    /\ job[p].state = "active" /\ ~Running(p)
    /\ job' = IF job[p].stalled < MaxStalled
              THEN [job EXCEPT ![p].state = "wait", ![p].stalled = @ + 1]
              ELSE [job EXCEPT ![p].state = "failed"]
    /\ UNCHANGED <<table, files, web, exec, drainer, purger, bounds>>

\* removeOnComplete, removeOnFail.
JobExpires(p) ==
    /\ job[p].state \in {"completed", "failed"}
    /\ job' = [job EXCEPT ![p] = NoJob]
    /\ UNCHANGED <<table, files, web, exec, drainer, purger, bounds>>

AbandonPurge == purge' = "idle" /\ purging' = {} /\ condemned' = {}

\* The worker dies, and the sweeps of its process with it.
Crash ==
    /\ crashes < MaxCrashes
    /\ crashes' = crashes + 1
    /\ exec' = [e \in Slots |-> Free]
    /\ booting' = TRUE
    /\ drain' = "idle" /\ listed' = {} /\ left' = {}
    /\ AbandonPurge
    /\ UNCHANGED <<table, files, web, job, taken, purges, faceless, faults>>

(***************************************************************************)
(* drainPendingAssets: list, remove the old jobs, add new ones.            *)
(***************************************************************************)
Pending == {p \in Photos : status[p] \in {"uploaded", "failed"}}

DrainList ==
    /\ booting
    /\ booting' = FALSE
    /\ listed' = Pending /\ left' = Pending
    /\ drain' = IF Pending = {} THEN "idle" ELSE "remove"
    /\ UNCHANGED <<table, files, web, job, exec, purger, bounds>>

\* The loop visits the list once for each of its two purposes.
Visited(p, next) ==
    IF left = {p} THEN drain' = next /\ left' = (IF next = "add" THEN listed ELSE {})
    ELSE left' = left \ {p} /\ UNCHANGED drain

\* remove() refuses a job that is locked: one that runs, or whose dead worker's
\* lock has not expired yet.
DrainRemove(p) ==
    /\ drain = "remove" /\ p \in left
    /\ \/ job[p].state # "active" /\ job' = [job EXCEPT ![p] = NoJob]
       \/ job[p].state = "active" /\ ~Running(p) /\ job' = [job EXCEPT ![p] = NoJob]
       \/ job[p].state = "active" /\ UNCHANGED job
    /\ Visited(p, "add")
    /\ UNCHANGED <<table, files, web, exec, booting, listed, purger, bounds>>

DrainAdd(p) ==
    /\ drain = "add" /\ p \in left
    /\ AddJob(p)
    /\ Visited(p, "idle")
    /\ UNCHANGED <<table, files, web, exec, booting, listed, purger, bounds>>

\* Redis refuses: caught in main, the backlog waits for the next boot.
DrainFails ==
    /\ drain # "idle"
    /\ drain' = "idle" /\ listed' = {} /\ left' = {}
    /\ UNCHANGED <<table, files, web, job, exec, booting, purger, bounds>>

Drain == DrainList \/ DrainFails \/ \E p \in Photos : DrainRemove(p) \/ DrainAdd(p)

(***************************************************************************)
(* The retention sweep's purge (worker retention.ts).  When a workspace is *)
(* due is Retention's; here it may be any day.  It asks for no status, so  *)
(* it meets jobs at whatever step they are.                                *)
(***************************************************************************)
\* The assets of one workspace.
PurgeList ==
    /\ purge = "idle" /\ purges < MaxPurges
    /\ \E photos \in SUBSET {p \in Photos : HasRow(p)} :
         photos # {} /\ purging' = photos
    /\ purge' = "variants"
    /\ purges' = purges + 1
    /\ UNCHANGED <<table, files, web, job, exec, drainer, condemned, taken, bounds>>

\* The keys: every original, and the variants that have a row by then.
PurgeKeys ==
    /\ purge = "variants"
    /\ condemned' = (purging \X {"original"}) \cup {v \in variants : v[1] \in purging}
    /\ purge' = "delete"
    /\ UNCHANGED <<table, files, web, job, exec, drainer, purging, taken, purges, bounds>>

\* Promise.allSettled: one refusal leaves the rows, whatever else has gone.
PurgeObjects ==
    /\ purge = "delete"
    /\ \E gone \in SUBSET condemned :
         /\ files' = files \ gone
         /\ taken' = taken \cup gone
         /\ IF gone = condemned
            THEN purge' = "commit" /\ UNCHANGED <<purging, condemned>>
            ELSE AbandonPurge
    /\ UNCHANGED <<table, web, job, exec, drainer, purges, bounds>>

\* The rows, with embeddings and variant rows by ON DELETE CASCADE.
PurgeRows ==
    /\ purge = "commit"
    /\ status' = [p \in Photos |-> IF p \in purging /\ HasRow(p) THEN "gone" ELSE status[p]]
    /\ faces' = [p \in Photos |-> IF p \in purging THEN 0 ELSE faces[p]]
    /\ variants' = {v \in variants : v[1] \notin purging}
    /\ AbandonPurge
    /\ UNCHANGED <<files, web, job, exec, drainer, taken, purges, bounds>>

\* A statement throws: rows whose objects are gone wait for another sweep.
PurgeFails ==
    /\ purge \in {"variants", "commit"}
    /\ AbandonPurge
    /\ UNCHANGED <<table, files, web, job, exec, drainer, taken, purges, bounds>>

Purge == PurgeList \/ PurgeKeys \/ PurgeObjects \/ PurgeRows \/ PurgeFails

Next ==
    \/ \E p \in Photos :
         \/ Register(p) \/ Enqueue(p) \/ EnqueueFails(p) \/ DeleteAsset(p)
         \/ RecoverStalled(p) \/ JobExpires(p)
         \/ \E e \in Slots : Take(e, p)
    \/ \E f \in Photos \X Kinds : Unlink(f)
    \/ \E e \in Slots : Step(e) \/ StatementFails(e)
    \/ Drain
    \/ Purge
    \/ Crash

Spec == Init /\ [][Next]_vars

\* A running worker goes on, the queue hands out every waiting job in turn and
\* looks for stalled ones.  Nothing makes the bucket or the ML service answer.
Fairness ==
    /\ \A e \in Slots : WF_vars(Step(e))
    /\ \A p \in Photos : SF_vars(\E e \in Slots : Take(e, p)) /\ WF_vars(RecoverStalled(p))

FairSpec == Spec /\ Fairness

-----------------------------------------------------------------------------
(***************************************************************************)
(* What the pipeline keeps.                                                *)
(***************************************************************************)

\* A photo shown as ready is found by a selfie search, and once: its faces are
\* in the table exactly one time, whatever attempts failed half way, crashed,
\* were retried by the queue or added again by a drain before ("retries are
\* idempotent", embed-asset.ts:20-22 and :52).
ReadyIsSearchable ==
    \A p \in Photos : status[p] = "ready" => faces[p] = (IF p \in faceless THEN 0 ELSE 1)

\* Only the purge makes a gallery link a thumbnail that is not there: a variant
\* row appears after its object, a DELETE takes it before its object, and a row
\* without one is a row whose object the purge deleted and no job stored since -
\* for the moment until its transaction or, when an object refuses or the worker
\* dies, for good: "the rows still point at what's left" (retention.ts:184-185).
VariantsAreStored == variants \ files \subseteq taken

\* No photo spins for ever: while no statement fails, and the worker dies no
\* more often than the queue forgives, at whatever step, none stays in
\* `processing' for good, although the drain skips that status.  (A photo
\* whose job was given up in that status is lost: index.ts:33-34 promises that
\* a boot catches up on photos that "failed mid-flight", and none lists it.)
NeverStuckProcessing ==
    [](crashes <= MaxStalled /\ faults = 0)
        => \A p \in Photos : []<>(status[p] # "processing")
=============================================================================
