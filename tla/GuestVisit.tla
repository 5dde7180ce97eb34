----------------------------- MODULE GuestVisit -----------------------------
(***************************************************************************)
(* A guest at the gallery behind an event's link.                          *)
(*                                                                         *)
(*   Enter            g/[token]/page.tsx: closed, purged, or the gallery   *)
(*   Start ... Retake guest-experience.tsx: intro, camera, review, search  *)
(*   Camera*          CameraView's effect: the promises of getUserMedia    *)
(*                    and play() settle when they like, also after the     *)
(*                    view was left                                        *)
(*   Invite*          album-invite.tsx: a sheet that opens after a while   *)
(*   Admit ... Log    POST match: link, consent, rate limit, ML, query     *)
(*   Owner*           what the owner does to the event meanwhile           *)
(*                                                                         *)
(* Other guests search from behind the same address, as at a venue; the    *)
(* rate limit counts them together.                                        *)
(***************************************************************************)
EXTENDS FaceMatch

CONSTANTS
    Photos,         \* the photos of the event
    Faces,          \* their faces, as FaceMatch has them
    Thresholds,     \* match sensitivities the owner may set
    Others,         \* other guests behind the same address
    MaxResults,     \* MAX_RESULTS
    MaxViews,       \* bound: mounts of the camera view
    RateMax,        \* RATE_MAX
    Window,         \* RATE_WINDOW_MS, in ticks
    MaxClock,       \* bound: ticks
    MaxOwner        \* bound: changes by the owner

ASSUME GuestAssumption ==
    /\ IsFiniteSet(Photos) /\ IsFiniteSet(Others)
    /\ Faces \subseteq [id : Nat, asset : Photos, distance : Nat] /\ IsFiniteSet(Faces)
    /\ \A f, g \in Faces : f.id = g.id => f = g
    /\ Thresholds \subseteq Nat /\ Thresholds # {}
    /\ {RateMax, Window, MaxResults} \subseteq Nat \ {0}
    /\ {MaxViews, MaxClock, MaxOwner} \subseteq Nat

Views == 1..MaxViews

VARIABLES
    link,       \* the guest's token: "open", "paused" or "rotated" away
    photos,     \* assets of the event
    embedded,   \* assets whose faces are in face_embeddings
    purgedAt,   \* workspaces.photos_purged_at IS NOT NULL
    threshold,  \* events.match_threshold
    clock,
    log,        \* guest_searches of this address: when each row was written
    others,     \* is a search of each other guest admitted and not yet logged?
    owner,      \* counted against MaxOwner
    stage,      \* the page the guest sees
    error,      \* is an error to be shown?
    consent,
    selfie,     \* the view the selfie was taken in, 0 if there is none
    views,      \* each mount of CameraView
    search,     \* the searches on their way, with what the server found
    shown,      \* the answered search whose results the guest has
    invite,     \* "waiting", "open" or "closed"
    remembered, \* the session's note that the invite was had
    storage,    \* does sessionStorage work?
    ambushed    \* history: a view that was left ended what came after it

event == <<link, photos, embedded, purgedAt, threshold, owner>>
limit == <<clock, log, others>>
camera == <<views, ambushed>>
sheet == <<invite, remembered, storage>>
screen == <<stage, error>>
vars == <<event, limit, screen, consent, selfie, camera, search, shown, sheet>>

Gallery == {"intro", "camera", "captured", "searching", "results"}

\* A search: the selfie and the consent sent with it; the threshold read when
\* it was let in; the photos it found, nearest first, or all of them if there
\* was nothing to match by.  What was stored and searchable when it was let in
\* is history.
SearchOf(selfies) ==
    [selfie : selfies, consent : BOOLEAN, at : Nat, found : Seq(Photos), matching : BOOLEAN,
     stored : SUBSET Photos, searchable : SUBSET Photos,
     step : {"sent", "embedding", "matched", "logged", "refused"}]

NewSearch(v, c) ==
    [selfie |-> v, consent |-> c, at |-> 0, found |-> <<>>, matching |-> FALSE,
     stored |-> {}, searchable |-> {}, step |-> "sent"]

Nothing == NewSearch(0, FALSE)

TypeOK ==
    /\ link \in {"open", "paused", "rotated"}
    /\ embedded \subseteq photos /\ photos \subseteq Photos
    /\ purgedAt \in BOOLEAN /\ threshold \in Thresholds
    /\ clock \in 0..MaxClock /\ log \in Seq(0..MaxClock)
    /\ others \in [Others -> BOOLEAN]
    /\ owner \in 0..MaxOwner
    /\ stage \in Gallery \cup {"away", "closed", "purged"}
    /\ {error, consent, storage, remembered, ambushed} \subseteq BOOLEAN
    /\ selfie \in Views \cup {0}
    /\ views \in [Views -> {"new", "asking", "starting", "ready",
                            "left asking", "left starting", "over", "leaked"}]
    /\ search \subseteq SearchOf(Views) /\ shown \in SearchOf(Views \cup {0})
    /\ invite \in {"waiting", "open", "closed"}

Init ==
    /\ link = "open" /\ photos = Photos /\ embedded = {} /\ purgedAt = FALSE
    /\ threshold \in Thresholds /\ owner = 0
    /\ clock = 0 /\ log = <<>> /\ others = [o \in Others |-> FALSE]
    /\ stage = "away" /\ error = FALSE /\ consent = FALSE /\ selfie = 0
    /\ views = [v \in Views |-> "new"] /\ ambushed = FALSE
    /\ search = {} /\ shown = Nothing
    /\ invite = "closed" /\ remembered = FALSE /\ storage \in BOOLEAN

(***************************************************************************)
(* The camera.                                                             *)
(***************************************************************************)
Mounted == {v \in Views : views[v] \in {"asking", "starting", "ready"}}
Streaming == {v \in Views : views[v] \in {"starting", "ready", "leaked"}}

\* The effect's cleanup: cancelled = true, and the tracks it has are stopped.
Unmounted == [v \in Views |->
    CASE views[v] = "asking" -> "left asking"
      [] views[v] = "starting" -> "left starting"
      [] views[v] = "ready" -> "over"
      [] OTHER -> views[v]]

\* The sheet lies over the whole page.
Uncovered == invite # "open"

Fresh == {v \in Views : views[v] = "new" /\ \A w \in Views : w < v => views[w] # "new"}

MountCamera(v) ==
    /\ v \in Fresh
    /\ views' = [views EXCEPT ![v] = "asking"]
    /\ stage' = "camera"

\* A grant that does not look whether the view is still there.
CameraGrantedAnyway(v) ==
    /\ views[v] \in {"asking", "left asking"}
    /\ views' = [views EXCEPT ![v] = IF @ = "asking" THEN "starting" ELSE "leaked"]
    /\ UNCHANGED <<event, limit, screen, consent, selfie, ambushed, search, shown, sheet>>

\* A stream that comes too late is stopped at once.
CameraGranted(v) ==
    /\ views[v] \in {"asking", "left asking"}
    /\ views' = [views EXCEPT ![v] = IF @ = "asking" THEN "starting" ELSE "over"]
    /\ UNCHANGED <<event, limit, screen, consent, selfie, ambushed, search, shown, sheet>>

CameraPlays(v) ==
    /\ views[v] = "starting"
    /\ views' = [views EXCEPT ![v] = "ready"]
    /\ UNCHANGED <<event, limit, screen, consent, selfie, ambushed, search, shown, sheet>>

\* A refusal, a device in use, or play() interrupted because the video went
\* away.  The catch does not ask whether the view is still there: onError
\* brings whatever the guest looks at now back to the intro.
CameraFails(v) ==
    /\ views[v] \in {"asking", "starting", "left asking", "left starting"}
    /\ stage \in Gallery
    /\ views' = [Unmounted EXCEPT ![v] = "over"]
    /\ ambushed' = (ambushed \/ (v \notin Mounted /\ stage # "intro"))
    /\ error' = TRUE /\ stage' = "intro"
    /\ UNCHANGED <<event, limit, consent, selfie, search, shown, sheet>>

Start ==
    /\ stage = "intro" /\ Uncovered
    /\ \E v \in Views : MountCamera(v)
    /\ error' = FALSE
    /\ UNCHANGED <<event, limit, consent, selfie, ambushed, search, shown, sheet>>

Cancel ==
    /\ stage = "camera" /\ Uncovered
    /\ stage' = "intro"
    /\ views' = Unmounted
    /\ UNCHANGED <<event, limit, error, consent, selfie, ambushed, search, shown, sheet>>

Snap(v) ==
    /\ stage = "camera" /\ views[v] = "ready" /\ Uncovered
    /\ selfie' = v
    /\ stage' = "captured"
    /\ views' = Unmounted
    /\ UNCHANGED <<event, limit, error, consent, ambushed, search, shown, sheet>>

(***************************************************************************)
(* Review, search and results.                                             *)
(***************************************************************************)
ToggleConsent ==
    /\ stage = "captured" /\ selfie # 0 /\ Uncovered
    /\ consent' = ~consent
    /\ UNCHANGED <<event, limit, screen, selfie, camera, search, shown, sheet>>

Retake ==
    /\ \/ stage = "captured" /\ selfie # 0
       \/ stage = "results"
    /\ Uncovered
    /\ \E v \in Views : MountCamera(v)
    /\ selfie' = 0
    /\ shown' = IF stage = "results" THEN Nothing ELSE shown
    /\ UNCHANGED <<event, limit, error, consent, ambushed, search, sheet>>

StartOver ==
    /\ stage = "results" /\ Uncovered
    /\ stage' = "intro"
    /\ selfie' = 0 /\ shown' = Nothing
    /\ UNCHANGED <<event, limit, error, consent, camera, search, sheet>>

Sent == NewSearch(selfie, consent)

\* A review that stays on the screen until the answer comes.
ConfirmLate ==
    /\ stage = "captured" /\ selfie # 0 /\ consent /\ Uncovered
    /\ search' = search \cup {Sent}
    /\ UNCHANGED <<event, limit, screen, consent, selfie, camera, shown, sheet>>

Confirm ==
    /\ stage = "captured" /\ selfie # 0 /\ consent /\ Uncovered
    /\ search' = search \cup {Sent}
    /\ stage' = "searching"
    /\ UNCHANGED <<event, limit, error, consent, selfie, camera, shown, sheet>>

Answered(s) ==
    /\ s.step = "logged" /\ stage \in Gallery
    /\ search' = search \ {s}
    /\ shown' = s
    /\ stage' = "results"
    /\ views' = Unmounted
    /\ UNCHANGED <<event, limit, error, consent, selfie, ambushed, sheet>>

\* An error status, or an answer that never came.
SearchFails(s) ==
    /\ s.step \in {"refused", "logged"} /\ stage \in Gallery
    /\ search' = search \ {s}
    /\ error' = TRUE /\ stage' = "captured"
    /\ views' = Unmounted
    /\ UNCHANGED <<event, limit, consent, selfie, ambushed, shown, sheet>>

Dismiss ==
    /\ error /\ stage \in {"intro", "captured"} /\ Uncovered
    /\ error' = FALSE
    /\ UNCHANGED <<event, limit, stage, consent, selfie, camera, search, shown, sheet>>

(***************************************************************************)
(* POST match.                                                             *)
(***************************************************************************)
Goes(s, new) == search' = (search \ {s}) \cup {new}

\* created_at > now - RATE_WINDOW_MS
Logged == Cardinality({i \in DOMAIN log : log[i] > clock - Window})

\* A limit that stops one search too late.
WithinRateAndOne == Logged <= RateMax

WithinRate == Logged < RateMax

Admit(s) ==
    /\ s.step = "sent"
    /\ link = "open" /\ s.consent /\ WithinRate
    /\ Goes(s, [s EXCEPT !.step = "embedding", !.at = threshold,
                         !.stored = photos, !.searchable = embedded])
    /\ UNCHANGED <<event, limit, screen, consent, selfie, camera, shown, sheet>>

\* The link, the consent, the limit, or an error of its own.
Refuse(s) ==
    /\ s.step \in {"sent", "matched"}
    /\ Goes(s, [s EXCEPT !.step = "refused"])
    /\ UNCHANGED <<event, limit, screen, consent, selfie, camera, shown, sheet>>

FacesNow == {f \in Faces : f.asset \in embedded}

\* ML finds a face and the query runs; no face, or any error, falls back.
Match(s) ==
    /\ s.step = "embedding"
    /\ \/ Goes(s, [s EXCEPT !.step = "matched", !.matching = TRUE,
                             !.found = Matched(FacesNow, s.at, MaxResults)])
       \/ Goes(s, [s EXCEPT !.step = "matched"])
    /\ UNCHANGED <<event, limit, screen, consent, selfie, camera, shown, sheet>>

\* logSearch swallows its errors.
AddToLog == log' \in {log, Append(log, clock)}

Log(s) ==
    /\ s.step = "matched"
    /\ Goes(s, [s EXCEPT !.step = "logged",
                         !.found = IF s.matching THEN @ ELSE SetToSeq(photos)])
    /\ AddToLog
    /\ UNCHANGED <<event, clock, others, screen, consent, selfie, camera, shown, sheet>>

OtherAdmitted(o) ==
    /\ ~others[o]
    /\ WithinRate
    /\ others' = [others EXCEPT ![o] = TRUE]
    /\ UNCHANGED <<event, clock, log, screen, consent, selfie, camera, search, shown, sheet>>

OtherLogged(o) ==
    /\ others[o]
    /\ others' = [others EXCEPT ![o] = FALSE]
    /\ AddToLog
    /\ UNCHANGED <<event, clock, screen, consent, selfie, camera, search, shown, sheet>>

Tick ==
    /\ clock < MaxClock
    /\ clock' = clock + 1
    /\ UNCHANGED <<event, log, others, screen, consent, selfie, camera, search, shown, sheet>>

(***************************************************************************)
(* The invite to the album, and the page around everything.                *)
(***************************************************************************)
Remember == remembered' = (remembered \/ storage)

InviteTimer ==
    /\ invite = "waiting" /\ stage \in Gallery
    /\ IF stage = "intro" THEN invite' = "open" /\ UNCHANGED remembered
       ELSE invite' = "closed" /\ Remember
    /\ UNCHANGED <<event, limit, screen, consent, selfie, camera, search, shown, storage>>

InviteClose ==
    /\ invite = "open"
    /\ invite' = "closed"
    /\ Remember
    /\ UNCHANGED <<event, limit, screen, consent, selfie, camera, search, shown, storage>>

\* The page as the server renders it; the album may or may not be published.
Enter ==
    /\ stage = "away"
    /\ stage' = IF link # "open" THEN "closed"
                ELSE IF purgedAt /\ photos = {} THEN "purged" ELSE "intro"
    /\ invite' \in {"closed", IF stage' = "intro" /\ ~remembered THEN "waiting" ELSE "closed"}
    /\ UNCHANGED <<event, limit, error, consent, selfie, camera, search, shown, remembered, storage>>

\* Another page, a reload, or the album: everything the tab held is gone.  (A
\* search the guest leaves behind runs on as one of Others.)
Leave ==
    /\ stage # "away" /\ search = {}
    /\ stage' = "away" /\ error' = FALSE /\ consent' = FALSE /\ selfie' = 0
    /\ shown' = Nothing
    /\ views' = [v \in Views |-> IF views[v] = "new" THEN "new" ELSE "over"]
    /\ invite' = "closed"
    /\ \/ UNCHANGED remembered
       \/ invite = "open" /\ Remember  \* by the invite's own link
    /\ UNCHANGED <<event, limit, ambushed, search, storage>>

(***************************************************************************)
(* The owner and the worker.                                               *)
(***************************************************************************)
Owner == owner < MaxOwner /\ owner' = owner + 1

OwnerChangesLink ==
    /\ Owner
    /\ \/ link = "open" /\ link' = "paused"
       \/ link = "paused" /\ link' = "open"
       \/ link # "rotated" /\ link' = "rotated"
    /\ UNCHANGED <<photos, embedded, purgedAt, threshold>>

OwnerSetsThreshold ==
    /\ Owner
    /\ threshold' \in Thresholds \ {threshold}
    /\ UNCHANGED <<link, photos, embedded, purgedAt>>

\* A deletion that leaves the faces of the photo behind.
OwnerDeletesKeepingFaces(p) ==
    /\ p \in photos /\ Owner
    /\ photos' = photos \ {p}
    /\ UNCHANGED <<link, purgedAt, threshold, embedded>>

\* The rows in face_embeddings go with the photo (ON DELETE CASCADE).
OwnerDeletes(p) ==
    /\ p \in photos /\ Owner
    /\ photos' = photos \ {p} /\ embedded' = embedded \ {p}
    /\ UNCHANGED <<link, purgedAt, threshold>>

Purge ==
    /\ ~purgedAt /\ Owner
    /\ photos' = {} /\ embedded' = {} /\ purgedAt' = TRUE
    /\ UNCHANGED <<link, threshold>>

Embed(p) ==
    /\ p \in photos \ embedded
    /\ embedded' = embedded \cup {p}
    /\ UNCHANGED <<link, photos, purgedAt, threshold, owner>>

Event ==
    /\ OwnerChangesLink \/ OwnerSetsThreshold \/ Purge
       \/ \E p \in Photos : OwnerDeletes(p) \/ Embed(p)
    /\ UNCHANGED <<limit, screen, consent, selfie, camera, search, shown, sheet>>

Serve(s) == Admit(s) \/ Refuse(s) \/ Match(s) \/ Log(s) \/ Answered(s) \/ SearchFails(s)

Next ==
    \/ Enter \/ Leave
    \/ Start \/ Cancel \/ ToggleConsent \/ Retake \/ StartOver \/ Confirm \/ Dismiss
    \/ \E v \in Views : CameraGranted(v) \/ CameraPlays(v) \/ CameraFails(v) \/ Snap(v)
    \/ \E s \in search : Serve(s)
    \/ \E o \in Others : OtherAdmitted(o) \/ OtherLogged(o)
    \/ InviteTimer \/ InviteClose
    \/ Tick \/ Event

Spec == Init /\ [][Next]_vars

-----------------------------------------------------------------------------
(***************************************************************************)
(* What a guest may rely on.                                               *)
(***************************************************************************)

\* The camera is never on behind the guest's back: a stream is live only in
\* the view on the screen, whenever the browser grants it.
CameraIsReleased ==
    \A v \in Streaming : stage = "camera" /\ Mounted = {v}

\* The screen holds together: the invite never covers the viewfinder; and a
\* review has its selfie, the results are those of the selfie in hand, and
\* nothing searches behind another screen.  All but the first holds only as long
\* as no view that was left fails late and calls the guest back to the intro
\* (ambushed): CameraView's catch does not ask whether the view is still there.
ScreenHoldsTogether ==
    /\ invite = "open" => stage # "camera"
    /\ ~ambushed =>
         /\ stage = "captured" => selfie # 0
         /\ stage = "results" => shown.selfie = selfie
         /\ search # {} => stage = "searching" /\ Cardinality(search) = 1

\* However many search at once from one address, a window holds at most one
\* search per guest more than RATE_MAX - 1: each reads the count before any
\* of them is logged.  That is with one search on its way per guest, as the page
\* has it; a guest whom a view that was left calls back from the search (ambushed)
\* may send a second one, and counts twice.
RateIsBounded ==
    ~ambushed => Logged <= RateMax - 1 + Cardinality(Others) + 1

Answers == {s \in search \cup {shown} : s.step \in {"matched", "logged"}}

\* Faces that were there from the time the search was let in until now, and
\* those of the photos it found.
FacesThroughout(s) ==
    {f \in Faces : f.asset \in Range(s.found) \/ f.asset \in s.searchable \cap embedded}

\* What a guest's search found, from the query to the results on the screen,
\* while faces are added, photos deleted and the sensitivity changed around it:
\* each photo once and the nearest first, near enough by the sensitivity the
\* search was let in with, none that was deleted before; and no photo that was
\* searchable all along is missing unless MAX_RESULTS nearer ones are there.  A
\* search without a match shows every photo that is left.
AnswersAreFair ==
    \A s \in Answers :
        IF s.matching
        THEN /\ Range(s.found) \subseteq s.stored
             /\ IsFairMatch(s.found, FacesThroughout(s), s.at, MaxResults)
        ELSE s.step = "logged" => photos \subseteq Range(s.found)
=============================================================================
