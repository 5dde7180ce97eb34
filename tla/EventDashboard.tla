--------------------------- MODULE EventDashboard ---------------------------
(***************************************************************************)
(* One tab of an event's page: the upload panel, the grid of photos and    *)
(* the cover, beside the rows they stand for.                              *)
(*                                                                         *)
(*   Select ... Clear        handleFiles, one run per selection of files   *)
(*   ClickDelete ...         PhotoTile.handleDelete and onDeleted          *)
(*   ClickCover ...          handleSetCover: optimistic, reverted on error *)
(*   Elsewhere ...           another tab or device of the owner, a purge   *)
(*                                                                         *)
(* Every handler is an async function: between its awaits the others run,  *)
(* and what it closed over at the click may be old when it resumes.  The   *)
(* panel's list is shared: a selection that ends writes the entries of all *)
(* of them.  An answer may be lost after the server did the work.          *)
(***************************************************************************)
EXTENDS Integers, FiniteSets

CONSTANTS
    Files,          \* files the owner selects, each once; also the ids of
                    \* the photos they become
    Unsupported,    \* the files that are neither JPG nor PNG
    Elders,         \* photos that other devices upload
    Content,        \* Content[p]: the hash of the bytes of a file or photo
    Shown,          \* the elders that are there when the page is rendered
    Batches,        \* runs of handleFiles
    Clicks,         \* cover changes that may be on their way together
    NoPhoto,
    MaxEvents       \* bound: clicks on a star or a bin, answers lost, and
                    \* changes made elsewhere, all together

Photos == Files \cup Elders

ASSUME DashboardAssumption ==
    /\ Unsupported \subseteq Files /\ Shown \subseteq Elders
    /\ Files \cap Elders = {} /\ NoPhoto \notin Photos
    /\ IsFiniteSet(Photos)
    /\ MaxEvents \in Nat

VARIABLES
    rows,       \* assets of the event
    cover,      \* events.cover_asset_id, which no foreign key guards
    grid,       \* the tab's assets
    uploads,    \* the tab's uploads: the status of the entry of each file
    shownCover, \* the tab's coverAssetId
    batches,    \* each run of handleFiles, with its locals
    deleting,   \* DELETE requests: the photo, the cover its handler closed over
    clicks,     \* PATCH requests for the cover
    happened,   \* counted against MaxEvents
    born,       \* history: photos that ever had a row
    unheard,    \* history: photos the tab cannot know of
    muddled,    \* history: two selections ran together, or a HEAD failed
    doubt       \* history: cover and shownCover may differ

server == <<rows, born, cover>>
panel == <<uploads, batches, muddled>>
tiles == <<grid, deleting>>
star == <<shownCover, clicks, doubt>>
vars == <<server, panel, tiles, star, happened, unheard>>

Spinning == {"uploading", "registering"}
NoBatch == [step |-> "new", sent |-> {}, waiting |-> {}, dups |-> {}, completed |-> {}]
NoClick == [step |-> "none", want |-> NoPhoto, prev |-> NoPhoto, alone |-> FALSE]

TypeOK ==
    /\ rows \subseteq born
    /\ cover \in Photos \cup {NoPhoto} /\ shownCover \in Photos \cup {NoPhoto}
    /\ grid \subseteq Photos
    /\ uploads \in [Files -> Spinning \cup {"absent", "done", "error"}]
    /\ batches \in [Batches -> [step : {"new", "presign", "put", "register", "refused",
                                        "registered", "tidy", "over"},
                                sent : SUBSET (Files \ Unsupported),
                                waiting : SUBSET Files,
                                dups : SUBSET Photos,
                                completed : SUBSET Files]]
    /\ \A b \in Batches : batches[b].waiting \cup batches[b].completed \subseteq batches[b].sent
    /\ deleting \in SUBSET [photo : Photos, closed : Photos \cup {NoPhoto},
                            step : {"sent", "gone", "refused"}, alone : BOOLEAN]
    /\ clicks \in [Clicks -> [step : {"none", "sent", "found", "written", "refused"},
                              want : Photos \cup {NoPhoto}, prev : Photos \cup {NoPhoto},
                              alone : BOOLEAN]]
    /\ happened \in 0..MaxEvents
    /\ born \subseteq Photos /\ unheard \subseteq Photos
    /\ muddled \in BOOLEAN /\ doubt \in BOOLEAN

Init ==
    /\ rows = Shown
    /\ cover = NoPhoto /\ shownCover = NoPhoto
    /\ grid = Shown
    /\ uploads = [f \in Files |-> "absent"]
    /\ batches = [b \in Batches |-> NoBatch]
    /\ deleting = {}
    /\ clicks = [c \in Clicks |-> NoClick]
    /\ happened = 0
    /\ born = Shown /\ unheard = {} /\ muddled = FALSE /\ doubt = FALSE

\* Batches and clicks are taken in an order of their own: which one it is that
\* serves the next selection or the next click makes no difference.
Unused(b) == batches[b].step = "new" /\ b = CHOOSE k \in Batches : batches[k].step = "new"
Idle(c) == clicks[c].step = "none" /\ c = CHOOSE k \in Clicks : clicks[k].step = "none"

Happens == happened < MaxEvents /\ happened' = happened + 1

(***************************************************************************)
(* The panel.                                                              *)
(***************************************************************************)
Mark(fs, status) == [f \in Files |-> IF f \in fs THEN status ELSE uploads[f]]
Listed(statuses) == {f \in Files : uploads[f] \in statuses}
Running == {b \in Batches : batches[b].step \notin {"new", "tidy", "over"}}
Step(b, step) == batches' = [batches EXCEPT ![b].step = step]
Ends(b) == batches' = [batches EXCEPT ![b] = [NoBatch EXCEPT !.step = "over", !.sent = batches[b].sent]]

\* A catch that only minds the files still on their way up.
CatchUploading(b) ==
    /\ uploads' = Mark(Listed({"uploading"}), "error")
    /\ Ends(b)

\* The catch of handleFiles: every entry that still spins failed, whoever's it is.
Catch(b) ==
    /\ uploads' = Mark(Listed(Spinning), "error")
    /\ Ends(b)

\* addAssets that gives up as soon as one of the photos is there already.
AddAssetsIfAllNew(incoming) ==
    grid' = IF incoming \cap grid # {} THEN grid ELSE grid \cup incoming

\* addAssets adds what the grid does not have yet (the order is left out).
AddAssets(incoming) == grid' = grid \cup incoming

\* A handler without the check of the type.
AcceptAny(fs) == fs

Accept(fs) == fs \ Unsupported

Select(b, fs) ==
    LET accepted == Accept(fs)
    IN  /\ Unused(b)
        /\ \A f \in fs : uploads[f] = "absent" /\ \A c \in Batches : f \notin batches[c].sent
        /\ uploads' = [f \in Files |-> IF f \in accepted THEN "uploading"
                                       ELSE IF f \in fs THEN "error" ELSE uploads[f]]
        /\ batches' = [batches EXCEPT ![b] =
             [NoBatch EXCEPT !.step = IF accepted = {} THEN "over" ELSE "presign",
                             !.sent = accepted]]
        /\ muddled' = (muddled \/ (accepted # {} /\ Running # {}))
        /\ UNCHANGED <<server, tiles, star, happened, unheard>>

\* POST upload-url: refused, or the answer does not come.
PresignFails(b) ==
    /\ batches[b].step = "presign"
    /\ Catch(b)
    /\ UNCHANGED <<server, tiles, star, happened, unheard, muddled>>

\* The server names, for each file whose hash it was given and knows, a photo
\* with the same content; without Web Crypto a file has no hash.
Presigned(b) ==
    /\ batches[b].step = "presign"
    /\ \E hashed \in SUBSET batches[b].sent :
       \E twin \in [hashed -> rows \cup {NoPhoto}] :
         /\ \A f \in hashed :
              IF twin[f] = NoPhoto THEN \A p \in rows : Content[p] # Content[f]
              ELSE Content[twin[f]] = Content[f]
         /\ LET dup == {f \in hashed : twin[f] # NoPhoto}
            IN  /\ uploads' = Mark(dup, "done")
                /\ batches' = [batches EXCEPT ![b].step = "put",
                                              ![b].waiting = batches[b].sent \ dup,
                                              ![b].dups = {twin[f] : f \in dup}]
    /\ UNCHANGED <<server, tiles, star, happened, unheard, muddled>>

PutOk(b, f) ==
    /\ batches[b].step = "put" /\ f \in batches[b].waiting
    /\ uploads' = Mark({f}, "registering")
    /\ batches' = [batches EXCEPT ![b].waiting = @ \ {f}, ![b].completed = @ \cup {f}]
    /\ UNCHANGED <<server, tiles, star, happened, unheard, muddled>>

PutFails(b, f) ==
    /\ batches[b].step = "put" /\ f \in batches[b].waiting
    /\ uploads' = Mark({f}, "error")
    /\ batches' = [batches EXCEPT ![b].waiting = @ \ {f}]
    /\ UNCHANGED <<server, tiles, star, happened, unheard, muddled>>

\* All settled: the duplicates enter the grid only now.
PutsSettled(b) ==
    /\ batches[b].step = "put" /\ batches[b].waiting = {}
    /\ AddAssets(batches[b].dups)
    /\ unheard' = unheard \ batches[b].dups
    /\ Step(b, IF batches[b].completed = {} THEN "tidy" ELSE "register")
    /\ UNCHANGED <<server, uploads, deleting, star, happened, muddled>>

\* POST assets inserts the objects whose HEAD answers.
Register(b) ==
    /\ batches[b].step = "register"
    /\ \E there \in SUBSET batches[b].completed :
         /\ rows' = rows \cup there
         /\ born' = born \cup there
         /\ unheard' = unheard \cup there
         /\ muddled' = (muddled \/ there # batches[b].completed)
         /\ batches' = [batches EXCEPT ![b].step = "registered", ![b].dups = there]
    /\ UNCHANGED <<cover, uploads, tiles, star, happened>>

RegisterRefused(b) ==
    /\ batches[b].step = "register"
    /\ Step(b, "refused")
    /\ UNCHANGED <<server, uploads, muddled, tiles, star, happened, unheard>>

\* Every entry that is registering is done, whatever the answer lists.
Registered(b) ==
    /\ batches[b].step = "registered"
    /\ AddAssets(batches[b].dups)
    /\ unheard' = unheard \ batches[b].dups
    /\ uploads' = Mark(Listed({"registering"}), "done")
    /\ Step(b, "tidy")
    /\ UNCHANGED <<server, deleting, star, happened, muddled>>

\* A handler that does not look at registerRes.ok.
RegisterFailsUnseen(b) ==
    /\ batches[b].step = "refused"
    /\ uploads' = Mark(Listed({"registering"}), "done")
    /\ Step(b, "tidy")
    /\ UNCHANGED <<server, tiles, star, happened, unheard, muddled>>

RegisterFails(b) ==
    /\ batches[b].step = "refused"
    /\ Catch(b)
    /\ UNCHANGED <<server, tiles, star, happened, unheard, muddled>>

RegisterLost(b) ==
    /\ batches[b].step = "registered"
    /\ Happens
    /\ Catch(b)
    /\ UNCHANGED <<server, tiles, star, unheard, muddled>>

\* The timer: "done" entries leave the list, whoever's they are.
Tidy(b) ==
    /\ batches[b].step = "tidy"
    /\ uploads' = Mark(Listed({"done"}), "absent")
    /\ Ends(b)
    /\ UNCHANGED <<server, tiles, star, happened, unheard, muddled>>

(***************************************************************************)
(* Deleting a photo.                                                       *)
(***************************************************************************)
ClicksUnderWay == {c \in Clicks : clicks[c].step # "none"}
NotAlone(f) == [c \in Clicks |-> [f[c] EXCEPT !.alone = FALSE]]

ClickDelete(p) ==
    /\ p \in grid
    /\ \A d \in deleting : d.photo # p
    /\ deleting' = deleting \cup {[photo |-> p, closed |-> shownCover, step |-> "sent",
                                   alone |-> ClicksUnderWay = {}]}
    /\ clicks' = NotAlone(clicks)
    /\ Happens
    /\ UNCHANGED <<server, panel, grid, shownCover, doubt, unheard>>

Move(d, step) == deleting' = (deleting \ {d}) \cup {[d EXCEPT !.step = step]}

DeleteRow(d) ==
    /\ d.step = "sent" /\ d.photo \in rows
    /\ rows' = rows \ {d.photo}
    /\ Move(d, "gone")
    /\ UNCHANGED <<born, cover, panel, grid, star, happened, unheard>>

\* A 404 for a photo that is gone, or any other error.
DeleteRefused(d) ==
    /\ d.step = "sent"
    /\ Move(d, "refused")
    /\ UNCHANGED <<server, panel, grid, star, happened, unheard>>

\* onDeleted compares with the cover of the render it was created in.
Deleted(d) ==
    /\ d.step = "gone"
    /\ grid' = grid \ {d.photo}
    /\ shownCover' = IF d.photo = d.closed THEN NoPhoto ELSE shownCover
    /\ doubt' = (doubt \/ ~d.alone)
    /\ deleting' = deleting \ {d}
    /\ UNCHANGED <<server, panel, clicks, happened, unheard>>

DeleteFails(d) ==
    /\ d.step = "refused"
    /\ deleting' = deleting \ {d}
    /\ UNCHANGED <<server, panel, grid, star, happened, unheard>>

DeleteLost(d) ==
    /\ d.step = "gone"
    /\ Happens
    /\ deleting' = deleting \ {d}
    /\ doubt' = (doubt \/ ~d.alone \/ d.photo \in {cover, shownCover})
    /\ UNCHANGED <<server, panel, grid, shownCover, clicks, unheard>>

(***************************************************************************)
(* The cover.                                                              *)
(***************************************************************************)
ClickCover(c, p) ==
    /\ Idle(c)
    /\ p \in grid
    /\ LET want == IF p = shownCover THEN NoPhoto ELSE p
       IN  /\ shownCover' = want
           /\ clicks' = [NotAlone(clicks) EXCEPT ![c] =
                [step |-> "sent", want |-> want, prev |-> shownCover,
                 alone |-> ClicksUnderWay = {} /\ deleting = {}]]
    /\ deleting' = {[d EXCEPT !.alone = FALSE] : d \in deleting}
    /\ Happens
    /\ UNCHANGED <<server, panel, grid, doubt, unheard>>

\* PATCH events/[slug]: the photo must be one of the event ...
CoverFound(c) ==
    /\ clicks[c].step = "sent"
    /\ clicks[c].want \in rows \cup {NoPhoto}
    /\ clicks' = [clicks EXCEPT ![c].step = "found"]
    /\ UNCHANGED <<server, panel, tiles, shownCover, doubt, happened, unheard>>

CoverRefused(c) ==
    /\ clicks[c].step = "sent"
    /\ clicks' = [clicks EXCEPT ![c].step = "refused"]
    /\ UNCHANGED <<server, panel, tiles, shownCover, doubt, happened, unheard>>

\* ... when it looks; the update is a statement of its own.
CoverWritten(c) ==
    /\ clicks[c].step = "found"
    /\ cover' = clicks[c].want
    /\ clicks' = [clicks EXCEPT ![c].step = "written"]
    /\ UNCHANGED <<rows, born, panel, tiles, shownCover, doubt, happened, unheard>>

CoverAnswered(c) ==
    /\ clicks[c].step = "written"
    /\ clicks' = [clicks EXCEPT ![c] = NoClick]
    /\ doubt' = ~clicks[c].alone
    /\ UNCHANGED <<server, panel, tiles, shownCover, happened, unheard>>

\* An error that leaves the optimistic value standing.
CoverFailsKept(c) ==
    /\ clicks[c].step = "refused"
    /\ clicks' = [clicks EXCEPT ![c] = NoClick]
    /\ doubt' = (doubt \/ ~clicks[c].alone)
    /\ UNCHANGED <<server, panel, tiles, shownCover, happened, unheard>>

CoverFails(c) ==
    /\ clicks[c].step = "refused"
    /\ shownCover' = clicks[c].prev
    /\ clicks' = [clicks EXCEPT ![c] = NoClick]
    /\ doubt' = (doubt \/ ~clicks[c].alone)
    /\ UNCHANGED <<server, panel, tiles, happened, unheard>>

CoverLost(c) ==
    /\ clicks[c].step = "written"
    /\ Happens
    /\ shownCover' = clicks[c].prev
    /\ clicks' = [clicks EXCEPT ![c] = NoClick]
    /\ doubt' = TRUE
    /\ UNCHANGED <<server, panel, tiles, unheard>>

(***************************************************************************)
(* Elsewhere: another tab, another device, the retention purge.            *)
(***************************************************************************)
UploadedElsewhere(p) ==
    /\ p \in Elders \ born
    /\ Happens
    /\ rows' = rows \cup {p} /\ born' = born \cup {p}
    /\ unheard' = unheard \cup {p}
    /\ UNCHANGED <<cover, panel, tiles, star>>

DeletedElsewhere(p) ==
    /\ p \in rows
    /\ Happens
    /\ rows' = rows \ {p}
    /\ clicks' = NotAlone(clicks)
    /\ doubt' = (doubt \/ p \in {cover, shownCover})
    /\ UNCHANGED <<born, cover, panel, tiles, shownCover, unheard>>

CoveredElsewhere(p) ==
    /\ p \in rows \cup {NoPhoto}
    /\ Happens
    /\ cover' = p
    /\ clicks' = NotAlone(clicks)
    /\ doubt' = TRUE
    /\ UNCHANGED <<rows, born, panel, tiles, shownCover, unheard>>

Handle(b) ==
    \/ PresignFails(b) \/ Presigned(b)
    \/ \E f \in Files : PutOk(b, f) \/ PutFails(b, f)
    \/ PutsSettled(b)
    \/ Register(b) \/ RegisterRefused(b)
    \/ Registered(b) \/ RegisterFails(b) \/ RegisterLost(b)
    \/ Tidy(b)

Next ==
    \/ \E b \in Batches : Handle(b) \/ \E fs \in SUBSET Files \ {{}} : Select(b, fs)
    \/ \E p \in Photos : ClickDelete(p) \/ UploadedElsewhere(p) \/ DeletedElsewhere(p)
    \/ \E d \in deleting : \/ DeleteRow(d) \/ DeleteRefused(d)
                           \/ Deleted(d) \/ DeleteFails(d) \/ DeleteLost(d)
    \/ \E c \in Clicks : \/ \E p \in Photos : ClickCover(c, p)
                         \/ CoverFound(c) \/ CoverRefused(c) \/ CoverWritten(c)
                         \/ CoverAnswered(c) \/ CoverFails(c) \/ CoverLost(c)
    \/ \E p \in Photos \cup {NoPhoto} : CoveredElsewhere(p)

Spec == Init /\ [][Next]_vars

\* A browser settles every request it sent, and runs the timer, while the tab is open.
FairSpec == Spec /\ \A b \in Batches : WF_vars(Handle(b))

-----------------------------------------------------------------------------
(***************************************************************************)
(* What the owner may believe of the tab.                                  *)
(***************************************************************************)

\* A file the panel calls "Uploaded" has its content in the event, or had it
\* before a deletion - as long as selections run one at a time and no HEAD
\* fails (a handler marks the entries of the others, and those the answer
\* leaves out: event-dashboard.tsx:298-300).
UploadedMeansStored ==
    ~muddled =>
        \A f \in Listed({"done"}) : \E p \in born : Content[p] = Content[f]

\* No photo hides: what the tab registered or was told of, and is still there,
\* has a tile - however selections, duplicates and deletions overlap.
StoredIsShown == rows \ unheard \subseteq grid

\* The star is where the event's cover is once everything is answered, unless
\* changes overlapped or an answer was lost since the last one that ran alone:
\* also after a refusal, and after the cover itself was deleted, which leaves
\* its id in the row.
ShownCoverIsStored ==
    ClicksUnderWay = {} /\ deleting = {} /\ ~doubt =>
        (IF shownCover \in grid THEN shownCover ELSE NoPhoto)
          = (IF cover \in rows THEN cover ELSE NoPhoto)

\* No entry spins for ever, whichever selection settles it.
NothingSpinsForever ==
    \A f \in Files : (uploads[f] \in Spinning) ~> (uploads[f] \notin Spinning)
=============================================================================
