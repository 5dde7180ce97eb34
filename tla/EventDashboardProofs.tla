------------------------ MODULE EventDashboardProofs ------------------------
(***************************************************************************)
(* What the tab of an owner keeps, for any number of files, selections and *)
(* clicks, and any photos that come and go elsewhere.                      *)
(***************************************************************************)
EXTENDS EventDashboard, TLAPS

-----------------------------------------------------------------------------
(***************************************************************************)
(* Types.                                                                  *)
(***************************************************************************)
LEMMA DashboardConstants ==
    /\ Unsupported \subseteq Files /\ Shown \subseteq Elders
    /\ Files \cap Elders = {} /\ NoPhoto \notin Photos
    /\ Files \subseteq Photos /\ Elders \subseteq Photos
    /\ MaxEvents \in Nat
BY DashboardAssumption DEF Photos

\* A run of handleFiles with its locals.
Locals == [step : {"new", "presign", "put", "register", "refused",
                   "registered", "tidy", "over"},
           sent : SUBSET (Files \ Unsupported),
           waiting : SUBSET Files,
           dups : SUBSET Photos,
           completed : SUBSET Files]

PanelType ==
    /\ uploads \in [Files -> Spinning \cup {"absent", "done", "error"}]
    /\ batches \in [Batches -> Locals]
    /\ \A b \in Batches : batches[b].waiting \cup batches[b].completed \subseteq batches[b].sent
    /\ muddled \in BOOLEAN

ServerType == rows \subseteq born /\ born \subseteq Photos

\* What a step of the panel does to the entries and to its own locals.
LEMMA MarkType ==
    ASSUME PanelType, NEW fs, NEW status \in Spinning \cup {"absent", "done", "error"}
    PROVE  Mark(fs, status) \in [Files -> Spinning \cup {"absent", "done", "error"}]
BY DEF Mark, PanelType

LEMMA StepType ==
    ASSUME PanelType, NEW b \in Batches,
           NEW step \in {"new", "presign", "put", "register", "refused",
                         "registered", "tidy", "over"},
           Step(b, step)
    PROVE  /\ batches' \in [Batches -> Locals]
           /\ \A c \in Batches : /\ batches'[c].sent = batches[c].sent
                                 /\ batches'[c].waiting = batches[c].waiting
                                 /\ batches'[c].dups = batches[c].dups
                                 /\ batches'[c].completed = batches[c].completed
                                 /\ c # b => batches'[c].step = batches[c].step
           /\ batches'[b].step = step
BY DEF Step, PanelType, Locals

LEMMA EndsType ==
    ASSUME PanelType, NEW b \in Batches, Ends(b)
    PROVE  /\ batches' \in [Batches -> Locals]
           /\ \A c \in Batches \ {b} : batches'[c] = batches[c]
           /\ batches'[b].step = "over" /\ batches'[b].sent = batches[b].sent
           /\ batches'[b].waiting = {} /\ batches'[b].completed = {}
           /\ batches'[b].dups = {}
BY DEF Ends, PanelType, Locals, NoBatch

LEMMA SelectType ==
    ASSUME PanelType, NEW b \in Batches, NEW fs \in SUBSET Files \ {{}}, Select(b, fs)
    PROVE  /\ PanelType'
           /\ \A c \in Batches \ {b} : batches'[c] = batches[c]
           /\ batches'[b].sent = Accept(fs) /\ batches'[b].dups = {}
           /\ batches'[b].completed = {}
           /\ batches'[b].step = IF Accept(fs) = {} THEN "over" ELSE "presign"
<1>1. Accept(fs) \subseteq Files \ Unsupported
  BY DEF Accept
<1>2. uploads' \in [Files -> Spinning \cup {"absent", "done", "error"}]
  BY DEF Select, PanelType, Spinning
<1>3. /\ batches' \in [Batches -> Locals]
      /\ \A c \in Batches \ {b} : batches'[c] = batches[c]
      /\ batches'[b].sent = Accept(fs) /\ batches'[b].dups = {}
      /\ batches'[b].completed = {} /\ batches'[b].waiting = {}
      /\ batches'[b].step = IF Accept(fs) = {} THEN "over" ELSE "presign"
  BY <1>1 DEF Select, PanelType, Locals, NoBatch
<1>4. muddled' \in BOOLEAN
  BY DEF Select
<1> QED
  BY <1>2, <1>3, <1>4 DEF PanelType

LEMMA PresignedType ==
    ASSUME PanelType, ServerType, NEW b \in Batches, Presigned(b)
    PROVE  /\ PanelType'
           /\ \A c \in Batches \ {b} : batches'[c] = batches[c]
           /\ batches'[b].step = "put" /\ batches'[b].sent = batches[b].sent
           /\ batches'[b].completed = batches[b].completed
           /\ batches'[b].dups \subseteq rows
           /\ \A f \in Files : \/ uploads'[f] = uploads[f]
                               \/ /\ uploads'[f] = "done"
                                  /\ \E p \in rows : Content[p] = Content[f]
<1>0. PICK hashed \in SUBSET batches[b].sent : \E twin \in [hashed -> rows \cup {NoPhoto}] :
        /\ \A f \in hashed :
             IF twin[f] = NoPhoto THEN \A p \in rows : Content[p] # Content[f]
             ELSE Content[twin[f]] = Content[f]
        /\ LET dup == {f \in hashed : twin[f] # NoPhoto}
           IN  /\ uploads' = Mark(dup, "done")
               /\ batches' = [batches EXCEPT ![b].step = "put",
                                             ![b].waiting = batches[b].sent \ dup,
                                             ![b].dups = {twin[f] : f \in dup}]
  BY DEF Presigned
<1>1. PICK twin \in [hashed -> rows \cup {NoPhoto}] :
        /\ \A f \in hashed :
             IF twin[f] = NoPhoto THEN \A p \in rows : Content[p] # Content[f]
             ELSE Content[twin[f]] = Content[f]
        /\ LET dup == {f \in hashed : twin[f] # NoPhoto}
           IN  /\ uploads' = Mark(dup, "done")
               /\ batches' = [batches EXCEPT ![b].step = "put",
                                             ![b].waiting = batches[b].sent \ dup,
                                             ![b].dups = {twin[f] : f \in dup}]
  BY <1>0
<1> DEFINE dup == {f \in hashed : twin[f] # NoPhoto}
           named == {twin[f] : f \in dup}
<1>2. named \subseteq rows /\ named \subseteq Photos
  BY <1>1 DEF ServerType
<1>3. \A f \in dup : \E p \in rows : Content[p] = Content[f]
  BY <1>1
<1>4. uploads' \in [Files -> Spinning \cup {"absent", "done", "error"}]
  BY <1>1, MarkType
<1>5. \A f \in Files : \/ uploads'[f] = uploads[f]
                       \/ /\ uploads'[f] = "done"
                          /\ \E p \in rows : Content[p] = Content[f]
  BY <1>1, <1>3 DEF Mark
<1>6. batches' = [batches EXCEPT ![b].step = "put", ![b].waiting = batches[b].sent \ dup,
                                 ![b].dups = named]
  BY <1>1
<1>7. muddled' = muddled
  BY DEF Presigned
<1> HIDE DEF dup, named
<1>8. /\ batches' \in [Batches -> Locals]
      /\ \A c \in Batches \ {b} : batches'[c] = batches[c]
      /\ batches'[b].step = "put" /\ batches'[b].sent = batches[b].sent
      /\ batches'[b].waiting \subseteq batches[b].sent
      /\ batches'[b].completed = batches[b].completed
      /\ batches'[b].dups = named
  BY <1>2, <1>6 DEF PanelType, Locals
<1> QED
  BY <1>2, <1>4, <1>5, <1>7, <1>8 DEF PanelType

LEMMA PutType ==
    ASSUME PanelType, NEW b \in Batches, NEW f \in Files, PutOk(b, f) \/ PutFails(b, f)
    PROVE  /\ PanelType'
           /\ \A c \in Batches \ {b} : batches'[c] = batches[c]
           /\ batches'[b].step = "put" /\ batches'[b].sent = batches[b].sent
           /\ batches'[b].dups = batches[b].dups
           /\ batches[b].completed \subseteq batches'[b].completed
           /\ \A g \in Files \ {f} : uploads'[g] = uploads[g]
           /\ uploads'[f] = "error" \/ (uploads'[f] = "registering" /\ f \in batches'[b].completed)
<1>1. CASE PutOk(b, f)
  <2>1. uploads' \in [Files -> Spinning \cup {"absent", "done", "error"}]
    BY <1>1, MarkType DEF PutOk, Spinning
  <2>2. /\ batches' \in [Batches -> Locals]
        /\ \A c \in Batches \ {b} : batches'[c] = batches[c]
        /\ batches'[b].step = "put" /\ batches'[b].sent = batches[b].sent
        /\ batches'[b].dups = batches[b].dups
        /\ batches'[b].waiting = batches[b].waiting \ {f}
        /\ batches'[b].completed = batches[b].completed \cup {f}
    BY <1>1 DEF PutOk, PanelType, Locals
  <2> QED
    BY <1>1, <2>1, <2>2 DEF PutOk, PanelType, Mark
<1>2. CASE PutFails(b, f)
  <2>1. uploads' \in [Files -> Spinning \cup {"absent", "done", "error"}]
    BY <1>2, MarkType DEF PutFails
  <2>2. /\ batches' \in [Batches -> Locals]
        /\ \A c \in Batches \ {b} : batches'[c] = batches[c]
        /\ batches'[b].step = "put" /\ batches'[b].sent = batches[b].sent
        /\ batches'[b].dups = batches[b].dups
        /\ batches'[b].waiting = batches[b].waiting \ {f}
        /\ batches'[b].completed = batches[b].completed
    BY <1>2 DEF PutFails, PanelType, Locals
  <2> QED
    BY <1>2, <2>1, <2>2 DEF PutFails, PanelType, Mark
<1> QED BY <1>1, <1>2

LEMMA RegisterType ==
    ASSUME PanelType, NEW b \in Batches, Register(b)
    PROVE  /\ PanelType'
           /\ \A c \in Batches \ {b} : batches'[c] = batches[c]
           /\ batches'[b].step = "registered" /\ batches'[b].sent = batches[b].sent
           /\ batches'[b].completed = batches[b].completed
           /\ batches'[b].dups \subseteq batches[b].completed
           /\ rows' = rows \cup batches'[b].dups /\ born' = born \cup batches'[b].dups
           /\ unheard' = unheard \cup batches'[b].dups
           /\ ~muddled' => ~muddled /\ batches'[b].dups = batches[b].completed
<1>1. PICK there \in SUBSET batches[b].completed :
        /\ rows' = rows \cup there
        /\ born' = born \cup there
        /\ unheard' = unheard \cup there
        /\ muddled' = (muddled \/ there # batches[b].completed)
        /\ batches' = [batches EXCEPT ![b].step = "registered", ![b].dups = there]
  BY DEF Register
<1>2. batches[b].completed \subseteq Photos
  BY DashboardConstants DEF PanelType, Locals
<1>3. /\ batches' \in [Batches -> Locals]
      /\ \A c \in Batches \ {b} : batches'[c] = batches[c]
      /\ batches'[b].step = "registered" /\ batches'[b].sent = batches[b].sent
      /\ batches'[b].waiting = batches[b].waiting
      /\ batches'[b].completed = batches[b].completed
      /\ batches'[b].dups = there
  BY <1>1, <1>2 DEF PanelType, Locals
<1> QED
  BY <1>1, <1>3 DEF PanelType, Register

\* The steps that end a run, and those that only move it on.
LEMMA EndingType ==
    ASSUME PanelType, NEW b \in Batches,
           PresignFails(b) \/ RegisterFails(b) \/ RegisterLost(b) \/ Tidy(b)
    PROVE  PanelType' /\ Ends(b) /\ muddled' = muddled
<1>1. Ends(b) /\ muddled' = muddled
  BY DEF PresignFails, RegisterFails, RegisterLost, Tidy, Catch
<1>2. uploads' = Mark(Listed(Spinning), "error") \/ uploads' = Mark(Listed({"done"}), "absent")
  BY DEF PresignFails, RegisterFails, RegisterLost, Tidy, Catch
<1>3. uploads' \in [Files -> Spinning \cup {"absent", "done", "error"}]
  BY <1>2, MarkType
<1> QED
  BY <1>1, <1>3, EndsType DEF PanelType

LEMMA MovingType ==
    ASSUME PanelType, NEW b \in Batches,
           PutsSettled(b) \/ RegisterRefused(b) \/ Registered(b)
    PROVE  PanelType' /\ muddled' = muddled
<1>1. muddled' = muddled
  BY DEF PutsSettled, RegisterRefused, Registered, panel
<1>2. Step(b, "tidy") \/ Step(b, "register") \/ Step(b, "refused")
  BY DEF PutsSettled, RegisterRefused, Registered
<1>3. uploads' = uploads \/ uploads' = Mark(Listed({"registering"}), "done")
  BY DEF PutsSettled, RegisterRefused, Registered
<1>4. uploads' \in [Files -> Spinning \cup {"absent", "done", "error"}]
  BY <1>3, MarkType DEF PanelType
<1>5. /\ batches' \in [Batches -> Locals]
      /\ \A c \in Batches : /\ batches'[c].sent = batches[c].sent
                            /\ batches'[c].waiting = batches[c].waiting
                            /\ batches'[c].completed = batches[c].completed
  BY <1>2, StepType
<1> QED
  BY <1>1, <1>4, <1>5 DEF PanelType

\* A step of the panel, whichever it is, leaves the star and the deletions
\* alone, and takes nothing from the event or the grid.
PanelStep == \E b \in Batches : Handle(b) \/ \E fs \in SUBSET Files \ {{}} : Select(b, fs)

LEMMA PanelStepDoes ==
    ASSUME TypeOK, PanelStep
    PROVE  /\ PanelType' /\ ServerType' /\ happened' \in 0..MaxEvents
           /\ UNCHANGED <<cover, star, deleting>>
           /\ rows \subseteq rows' /\ grid \subseteq grid'
           /\ grid' \subseteq Photos /\ unheard' \subseteq Photos
<1> USE DEF server, panel, tiles, star, vars
<1>0. PanelType /\ ServerType /\ grid \subseteq Photos /\ unheard \subseteq Photos
  BY DEF TypeOK, PanelType, ServerType, Locals
<1>1. PICK b \in Batches : Handle(b) \/ \E fs \in SUBSET Files \ {{}} : Select(b, fs)
  BY DEF PanelStep
<1>2. happened \in 0..MaxEvents /\ MaxEvents \in Nat
  BY DashboardConstants DEF TypeOK
<1>3. batches[b].dups \subseteq Photos /\ batches[b].completed \subseteq Photos
  BY <1>0, DashboardConstants DEF PanelType, Locals
<1>4. CASE \E fs \in SUBSET Files \ {{}} : Select(b, fs)
  <2>1. PICK fs \in SUBSET Files \ {{}} : Select(b, fs)
    BY <1>4
  <2> QED
    BY <1>0, <1>2, <2>1, SelectType DEF Select, ServerType
<1>5. CASE PresignFails(b) \/ RegisterFails(b) \/ Tidy(b)
  BY <1>0, <1>2, <1>5, EndingType DEF PresignFails, RegisterFails, Tidy, ServerType
<1>6. CASE RegisterLost(b)
  BY <1>0, <1>2, <1>6, EndingType DEF RegisterLost, Happens, ServerType
<1>7. CASE Presigned(b)
  BY <1>0, <1>2, <1>7, PresignedType DEF Presigned, ServerType
<1>8. CASE \E f \in Files : PutOk(b, f) \/ PutFails(b, f)
  <2>1. PICK f \in Files : PutOk(b, f) \/ PutFails(b, f)
    BY <1>8
  <2> QED
    BY <1>0, <1>2, <2>1, PutType DEF PutOk, PutFails, ServerType
<1>9. CASE PutsSettled(b) \/ RegisterRefused(b) \/ Registered(b)
  BY <1>0, <1>2, <1>3, <1>9, MovingType
  DEF PutsSettled, RegisterRefused, Registered, AddAssets, ServerType
<1>10. CASE Register(b)
  <2>1. UNCHANGED <<cover, uploads, tiles, star, happened>>
    BY <1>10 DEF Register
  <2>2. batches'[b].dups \subseteq Photos
    BY <1>0, <1>3, <1>10, RegisterType
  <2> QED
    BY <1>0, <1>2, <1>10, <2>1, <2>2, RegisterType DEF ServerType
<1> QED
  BY <1>1, <1>4, <1>5, <1>6, <1>7, <1>8, <1>9, <1>10 DEF Handle

-----------------------------------------------------------------------------
\* A change of the cover on its way, and a deletion.
Change == [step : {"none", "sent", "found", "written", "refused"},
           want : Photos \cup {NoPhoto}, prev : Photos \cup {NoPhoto},
           alone : BOOLEAN]

Deletion == [photo : Photos, closed : Photos \cup {NoPhoto},
             step : {"sent", "gone", "refused"}, alone : BOOLEAN]

StarType ==
    /\ shownCover \in Photos \cup {NoPhoto}
    /\ clicks \in [Clicks -> Change]
    /\ doubt \in BOOLEAN

LEMMA NotAloneType ==
    ASSUME clicks \in [Clicks -> Change]
    PROVE  /\ NotAlone(clicks) \in [Clicks -> Change]
           /\ \A c \in Clicks : /\ NotAlone(clicks)[c].alone = FALSE
                                /\ NotAlone(clicks)[c].step = clicks[c].step
                                /\ NotAlone(clicks)[c].want = clicks[c].want
                                /\ NotAlone(clicks)[c].prev = clicks[c].prev
BY DEF NotAlone, Change

LEMMA ClickStepType ==
    ASSUME clicks \in [Clicks -> Change], NEW c \in Clicks,
           NEW step \in {"none", "sent", "found", "written", "refused"},
           clicks' = [clicks EXCEPT ![c].step = step]
    PROVE  /\ clicks' \in [Clicks -> Change]
           /\ \A k \in Clicks \ {c} : clicks'[k] = clicks[k]
           /\ clicks'[c].step = step /\ clicks'[c].want = clicks[c].want
           /\ clicks'[c].prev = clicks[c].prev /\ clicks'[c].alone = clicks[c].alone
BY DEF Change

LEMMA ClickEndType ==
    ASSUME clicks \in [Clicks -> Change], NEW c \in Clicks,
           clicks' = [clicks EXCEPT ![c] = NoClick]
    PROVE  /\ clicks' \in [Clicks -> Change]
           /\ \A k \in Clicks \ {c} : clicks'[k] = clicks[k]
           /\ clicks'[c] = NoClick /\ clicks'[c].step = "none"
<1>1. NoClick \in Change
  BY DEF NoClick, Change
<1> QED BY <1>1 DEF NoClick

LEMMA ClickCoverType ==
    ASSUME TypeOK, NEW c \in Clicks, NEW p \in Photos, ClickCover(c, p)
    PROVE  /\ StarType' /\ deleting' \in SUBSET Deletion
           /\ \A k \in Clicks \ {c} : /\ clicks'[k].step = clicks[k].step
                                      /\ clicks'[k].want = clicks[k].want
                                      /\ ~clicks'[k].alone
           /\ clicks'[c].step = "sent" /\ clicks'[c].want = shownCover'
           /\ clicks'[c].prev = shownCover
           /\ clicks'[c].alone => ClicksUnderWay = {} /\ deleting = {}
           /\ shownCover' \in {p, NoPhoto}
<1>1. /\ clicks \in [Clicks -> Change] /\ shownCover \in Photos \cup {NoPhoto}
      /\ doubt \in BOOLEAN /\ deleting \in SUBSET Deletion
  BY DEF TypeOK, Change, Deletion
<1> DEFINE want == IF p = shownCover THEN NoPhoto ELSE p
           change == [step |-> "sent", want |-> want, prev |-> shownCover,
                      alone |-> ClicksUnderWay = {} /\ deleting = {}]
<1>2. want \in Photos \cup {NoPhoto} /\ want \in {p, NoPhoto}
  OBVIOUS
<1>3. shownCover' = want /\ clicks' = [NotAlone(clicks) EXCEPT ![c] = change]
  BY DEF ClickCover
<1>4. deleting' = {[d EXCEPT !.alone = FALSE] : d \in deleting} /\ doubt' = doubt
  BY DEF ClickCover
<1>5. change \in Change
  <2> HIDE DEF want
  <2> QED BY <1>1, <1>2 DEF Change
<1>6. /\ change.step = "sent" /\ change.want = want /\ change.prev = shownCover
      /\ change.alone = (ClicksUnderWay = {} /\ deleting = {})
  OBVIOUS
<1>7. deleting' \in SUBSET Deletion
  BY <1>1, <1>4 DEF Deletion
<1> HIDE DEF want, change
<1>8. NotAlone(clicks) \in [Clicks -> Change]
  BY <1>1, NotAloneType
<1>9. /\ clicks' \in [Clicks -> Change] /\ clicks'[c] = change
      /\ \A k \in Clicks \ {c} : clicks'[k] = NotAlone(clicks)[k]
  BY <1>3, <1>5, <1>8
<1> QED
  BY <1>1, <1>2, <1>3, <1>4, <1>6, <1>7, <1>9, NotAloneType DEF StarType

-----------------------------------------------------------------------------
LEMMA TypeParts ==
    TypeOK <=> /\ ServerType /\ PanelType /\ StarType
               /\ cover \in Photos \cup {NoPhoto}
               /\ grid \subseteq Photos /\ deleting \in SUBSET Deletion
               /\ happened \in 0..MaxEvents
               /\ unheard \subseteq Photos
BY DEF TypeOK, ServerType, PanelType, StarType, Locals, Change, Deletion

LEMMA TypeInit == Init => TypeOK
<1> SUFFICES ASSUME Init PROVE TypeOK
  OBVIOUS
<1>1. ServerType /\ grid \subseteq Photos /\ unheard \subseteq Photos
  BY DashboardConstants DEF Init, ServerType
<1>2. PanelType
  BY DEF Init, PanelType, NoBatch, Locals
<1>3. StarType /\ cover \in Photos \cup {NoPhoto}
  BY DEF Init, StarType, NoClick, Change
<1>4. happened \in 0..MaxEvents /\ deleting \in SUBSET Deletion
  BY DashboardConstants DEF Init
<1> QED BY <1>1, <1>2, <1>3, <1>4, TypeParts

\* Every step keeps the types.
LEMMA TypeStep == TypeOK /\ [Next]_vars => TypeOK'
<1> SUFFICES ASSUME TypeOK, [Next]_vars PROVE TypeOK'
  OBVIOUS
<1> USE DEF server, panel, tiles, star, vars
<1>0. /\ ServerType /\ PanelType /\ StarType
      /\ cover \in Photos \cup {NoPhoto}
      /\ grid \subseteq Photos /\ deleting \in SUBSET Deletion
      /\ happened \in 0..MaxEvents
      /\ unheard \subseteq Photos
  BY TypeParts
<1>p. ASSUME /\ ServerType' /\ PanelType' /\ StarType'
             /\ cover' \in Photos \cup {NoPhoto}
             /\ grid' \subseteq Photos /\ deleting' \in SUBSET Deletion
             /\ happened' \in 0..MaxEvents
             /\ unheard' \subseteq Photos
      PROVE  TypeOK'
  BY <1>p DEF TypeOK, ServerType, PanelType, StarType, Locals, Change, Deletion
<1>00. Elders \subseteq Photos /\ MaxEvents \in Nat
  BY DashboardConstants
<1>1. CASE PanelStep
  <2>1. StarType' /\ cover' = cover /\ deleting' = deleting
    BY <1>0, <1>1, PanelStepDoes DEF StarType
  <2>2. /\ PanelType' /\ ServerType' /\ happened' \in 0..MaxEvents
        /\ grid' \subseteq Photos /\ unheard' \subseteq Photos
    BY <1>1, PanelStepDoes
  <2> QED
    BY <1>0, <2>1, <2>2, <1>p
<1>2. ASSUME NEW p \in Photos, ClickDelete(p) PROVE TypeOK'
  <2> DEFINE d == [photo |-> p, closed |-> shownCover, step |-> "sent",
                   alone |-> ClicksUnderWay = {}]
  <2>1. d \in Deletion
    BY <1>0 DEF StarType, Deletion
  <2>2. deleting' \in SUBSET Deletion
    BY <1>0, <1>2, <2>1 DEF ClickDelete
  <2>3. StarType'
    BY <1>0, <1>2, NotAloneType DEF ClickDelete, StarType
  <2>4. PanelType' /\ ServerType'
    BY <1>0, <1>2 DEF ClickDelete, PanelType, ServerType
  <2> QED
    BY <1>0, <1>00, <1>2, <2>2, <2>3, <2>4, <1>p DEF ClickDelete, Happens
<1>3. ASSUME NEW p \in Photos, UploadedElsewhere(p) PROVE TypeOK'
  <2>1. PanelType' /\ ServerType' /\ StarType'
    BY <1>0, <1>3 DEF UploadedElsewhere, PanelType, ServerType, StarType
  <2> QED
    BY <1>0, <1>00, <1>3, <2>1, <1>p DEF UploadedElsewhere, Happens
<1>4. ASSUME NEW p \in Photos, DeletedElsewhere(p) PROVE TypeOK'
  <2>1. PanelType' /\ ServerType'
    BY <1>0, <1>4 DEF DeletedElsewhere, PanelType, ServerType
  <2>2. StarType'
    BY <1>0, <1>4, NotAloneType DEF DeletedElsewhere, StarType
  <2> QED
    BY <1>0, <1>00, <1>4, <2>1, <2>2, <1>p DEF DeletedElsewhere, Happens
<1>5. ASSUME NEW d \in deleting, DeleteRow(d) \/ DeleteRefused(d) PROVE TypeOK'
  <2>1. PICK step \in {"gone", "refused"} : Move(d, step)
    BY <1>5 DEF DeleteRow, DeleteRefused
  <2>2. [d EXCEPT !.step = step] \in Deletion
    BY <1>0 DEF Deletion
  <2>3. deleting' \in SUBSET Deletion
    BY <1>0, <2>1, <2>2 DEF Move
  <2>4. PanelType' /\ ServerType' /\ StarType'
    BY <1>0, <1>5 DEF DeleteRow, DeleteRefused, PanelType, ServerType, StarType
  <2> QED
    BY <1>0, <1>5, <2>3, <2>4, <1>p DEF DeleteRow, DeleteRefused
<1>6. ASSUME NEW d \in deleting, Deleted(d) \/ DeleteFails(d) \/ DeleteLost(d) PROVE TypeOK'
  <2>1. PanelType' /\ ServerType'
    BY <1>0, <1>6 DEF Deleted, DeleteFails, DeleteLost, PanelType, ServerType
  <2>2. StarType'
    BY <1>0, <1>6 DEF Deleted, DeleteFails, DeleteLost, StarType
  <2> QED
    BY <1>0, <1>00, <1>6, <2>1, <2>2, <1>p DEF Deleted, DeleteFails, DeleteLost, Happens
<1>7. ASSUME NEW c \in Clicks, NEW p \in Photos, ClickCover(c, p) PROVE TypeOK'
  <2>1. PanelType' /\ ServerType'
    BY <1>0, <1>7 DEF ClickCover, PanelType, ServerType
  <2> QED
    BY <1>0, <1>00, <1>7, <2>1, ClickCoverType, <1>p DEF ClickCover, Happens
<1>8. ASSUME NEW c \in Clicks, CoverFound(c) \/ CoverRefused(c) \/ CoverWritten(c) PROVE TypeOK'
  <2>1. PanelType' /\ ServerType'
    BY <1>0, <1>8 DEF CoverFound, CoverRefused, CoverWritten, PanelType, ServerType
  <2>2. StarType'
    BY <1>0, <1>8, ClickStepType DEF CoverFound, CoverRefused, CoverWritten, StarType
  <2>3. cover' \in Photos \cup {NoPhoto}
    BY <1>0, <1>8 DEF CoverFound, CoverRefused, CoverWritten, StarType, Change
  <2> QED
    BY <1>0, <1>8, <2>1, <2>2, <2>3, <1>p DEF CoverFound, CoverRefused, CoverWritten
<1>9. ASSUME NEW c \in Clicks, CoverAnswered(c) \/ CoverFails(c) \/ CoverLost(c) PROVE TypeOK'
  <2>1. PanelType' /\ ServerType'
    BY <1>0, <1>9 DEF CoverAnswered, CoverFails, CoverLost, PanelType, ServerType
  <2>2. clicks' \in [Clicks -> Change] /\ shownCover' \in Photos \cup {NoPhoto}
    BY <1>0, <1>9, ClickEndType DEF CoverAnswered, CoverFails, CoverLost, StarType, Change
  <2>3. doubt' \in BOOLEAN
    BY <1>0, <1>9 DEF CoverAnswered, CoverFails, CoverLost, StarType
  <2> QED
    BY <1>0, <1>00, <1>9, <2>1, <2>2, <2>3, <1>p
    DEF CoverAnswered, CoverFails, CoverLost, Happens, StarType
<1>10. ASSUME NEW p \in Photos \cup {NoPhoto}, CoveredElsewhere(p) PROVE TypeOK'
  <2>1. PanelType' /\ ServerType'
    BY <1>0, <1>10 DEF CoveredElsewhere, PanelType, ServerType
  <2>2. StarType'
    BY <1>0, <1>10, NotAloneType DEF CoveredElsewhere, StarType
  <2> QED
    BY <1>0, <1>00, <1>10, <2>1, <2>2, <1>p DEF CoveredElsewhere, Happens
<1>11. CASE UNCHANGED vars
  BY <1>11 DEF TypeOK
<1> QED
  BY <1>1, <1>2, <1>3, <1>4, <1>5, <1>6, <1>7, <1>8, <1>9, <1>10, <1>11 DEF Next, PanelStep

\* The types of the dashboard's tab and of the rows behind it.
THEOREM DashboardTypeCorrect == Spec => []TypeOK
<1> QED BY TypeInit, TypeStep, PTL DEF Spec

-----------------------------------------------------------------------------
(***************************************************************************)
(* What is stored is shown.  A photo that is gone stays gone: its id was   *)
(* spent when its file was registered, or drawn by another device.         *)
(***************************************************************************)
\* The steps before the answer of POST assets.
Early == {"presign", "put", "register"}

\* A file is sent by one selection only, and has no row before it registers.
IdsAreSpent ==
    /\ \A b, c \in Batches : b # c => batches[b].sent \cap batches[c].sent = {}
    /\ \A b \in Batches : batches[b].step = "new" => batches[b].sent = {}
    /\ \A b \in Batches : batches[b].step \in Early => batches[b].sent \cap born = {}
    /\ \A f \in Files \cap born : \E b \in Batches : f \in batches[b].sent

\* The tab, its requests and the cover only ever name photos that had a row.
BornFirst ==
    /\ grid \subseteq born
    /\ cover \in born \cup {NoPhoto}
    /\ \A b \in Batches : batches[b].dups \subseteq born
    /\ \A c \in Clicks : clicks[c].want \in born \cup {NoPhoto}

GoneIsGone == \A d \in deleting : d.step = "gone" => d.photo \in born \ rows

StoreInv == TypeOK /\ IdsAreSpent /\ BornFirst /\ GoneIsGone /\ StoredIsShown

\* What the steps of a run do to the other runs, to the event and the grid.
LEMMA HandleFrame ==
    ASSUME TypeOK, NEW b \in Batches, Handle(b)
    PROVE  /\ \A c \in Batches \ {b} : batches'[c] = batches[c]
           /\ batches'[b].sent = batches[b].sent
           /\ batches[b].step # "new" /\ batches'[b].step # "new"
           /\ batches'[b].step \in Early => batches[b].step \in Early
           /\ \/ Register(b)
              \/ /\ UNCHANGED <<rows, born>>
                 /\ batches'[b].dups \subseteq batches[b].dups \cup rows
                 /\ \/ UNCHANGED <<grid, unheard>>
                    \/ grid' = grid \cup batches[b].dups /\ unheard' = unheard \ batches[b].dups
<1> USE DEF server, panel, tiles, star, vars, Early
<1>0. PanelType /\ ServerType
  BY TypeParts
<1>1. CASE PresignFails(b) \/ RegisterFails(b) \/ RegisterLost(b) \/ Tidy(b)
  <2>1. UNCHANGED <<rows, born, grid, unheard>>
    BY <1>1 DEF PresignFails, RegisterFails, RegisterLost, Tidy
  <2>2. batches[b].step # "new"
    BY <1>1 DEF PresignFails, RegisterFails, RegisterLost, Tidy
  <2> QED
    BY <1>0, <1>1, <2>1, <2>2, EndingType, EndsType
<1>2. CASE Presigned(b)
  <2>1. UNCHANGED <<rows, born, grid, unheard>> /\ batches[b].step = "presign"
    BY <1>2 DEF Presigned
  <2> QED
    BY <1>0, <1>2, <2>1, PresignedType
<1>3. CASE \E f \in Files : PutOk(b, f) \/ PutFails(b, f)
  <2>1. PICK f \in Files : PutOk(b, f) \/ PutFails(b, f)
    BY <1>3
  <2>2. UNCHANGED <<rows, born, grid, unheard>> /\ batches[b].step = "put"
    BY <2>1 DEF PutOk, PutFails
  <2> QED
    BY <1>0, <2>1, <2>2, PutType
<1>4. CASE PutsSettled(b) \/ RegisterRefused(b) \/ Registered(b)
  <2>1. PICK step \in {"tidy", "register", "refused"} : Step(b, step)
    BY <1>4 DEF PutsSettled, RegisterRefused, Registered
  <2>2. UNCHANGED <<rows, born>> /\ batches[b].step \in {"put", "register", "registered"}
    BY <1>4 DEF PutsSettled, RegisterRefused, Registered
  <2>3. batches[b].step = "registered" => Step(b, "tidy")
    BY <1>4 DEF PutsSettled, RegisterRefused, Registered
  <2>4. \/ UNCHANGED <<grid, unheard>>
        \/ grid' = grid \cup batches[b].dups /\ unheard' = unheard \ batches[b].dups
    BY <1>4 DEF PutsSettled, RegisterRefused, Registered, AddAssets
  <2>5. /\ \A c \in Batches \ {b} : batches'[c] = batches[c]
        /\ batches'[b].sent = batches[b].sent /\ batches'[b].dups = batches[b].dups
        /\ batches'[b].step \in {"tidy", "register", "refused"}
    BY <1>0, <2>1 DEF Step, PanelType, Locals
  <2>6. batches[b].step = "registered" => batches'[b].step = "tidy"
    BY <1>0, <2>3, StepType
  <2> QED
    BY <2>2, <2>4, <2>5, <2>6
<1>5. CASE Register(b)
  <2>1. batches[b].step = "register"
    BY <1>5 DEF Register
  <2> QED
    BY <1>0, <1>5, <2>1, RegisterType
<1> QED
  BY <1>1, <1>2, <1>3, <1>4, <1>5 DEF Handle

\* What a registration adds to the event is new to it.
LEMMA RegisteredIsFresh ==
    ASSUME TypeOK, IdsAreSpent, NEW b \in Batches, Register(b)
    PROVE  batches'[b].dups \subseteq batches[b].sent /\ batches'[b].dups \cap born = {}
<1>1. PanelType
  BY TypeParts
<1>2. batches'[b].dups \subseteq batches[b].completed /\ batches[b].completed \subseteq batches[b].sent
  BY <1>1, RegisterType DEF PanelType
<1>3. batches[b].step = "register"
  BY DEF Register
<1> QED
  BY <1>2, <1>3 DEF IdsAreSpent, Early

LEMMA PanelKeepsStore ==
    ASSUME StoreInv, PanelStep
    PROVE  IdsAreSpent' /\ BornFirst' /\ GoneIsGone' /\ StoredIsShown'
<1> USE DEF server, panel, tiles, star, vars
<1>0. PanelType /\ ServerType
  BY TypeParts DEF StoreInv
<1>s. TypeOK /\ IdsAreSpent /\ BornFirst /\ GoneIsGone /\ StoredIsShown
  BY DEF StoreInv
<1>u. UNCHANGED <<cover, clicks, deleting>>
  BY <1>s, PanelStepDoes
<1>1. ASSUME NEW b \in Batches, NEW fs \in SUBSET Files \ {{}}, Select(b, fs)
      PROVE  IdsAreSpent' /\ BornFirst' /\ GoneIsGone' /\ StoredIsShown'
  <2>1. /\ \A c \in Batches \ {b} : batches'[c] = batches[c]
        /\ batches'[b].sent = Accept(fs) /\ batches'[b].dups = {}
        /\ batches'[b].step = IF Accept(fs) = {} THEN "over" ELSE "presign"
    BY <1>0, <1>1, SelectType
  <2>2. UNCHANGED <<rows, born, grid, unheard>>
    BY <1>1 DEF Select
  <2>3. \A f \in fs, c \in Batches : f \notin batches[c].sent
    BY <1>1 DEF Select
  <2>4. Accept(fs) \subseteq fs /\ fs \subseteq Files
    BY DEF Accept
  <2>5. Accept(fs) \cap born = {}
    BY <1>s, <2>3, <2>4 DEF IdsAreSpent
  <2>6. batches[b].sent = {}
    BY <1>1, <1>s DEF Select, Unused, IdsAreSpent
  <2>7. IdsAreSpent'
    BY <1>s, <2>1, <2>2, <2>3, <2>4, <2>5, <2>6 DEF IdsAreSpent, Early
  <2>8. BornFirst'
    BY <1>s, <1>u, <2>1, <2>2 DEF BornFirst
  <2> QED
    BY <1>s, <1>u, <2>2, <2>7, <2>8 DEF GoneIsGone, StoredIsShown
<1>2. ASSUME NEW b \in Batches, Handle(b), ~Register(b)
      PROVE  IdsAreSpent' /\ BornFirst' /\ GoneIsGone' /\ StoredIsShown'
  <2>1. /\ \A c \in Batches \ {b} : batches'[c] = batches[c]
        /\ batches'[b].sent = batches[b].sent
        /\ batches[b].step # "new" /\ batches'[b].step # "new"
        /\ batches'[b].step \in Early => batches[b].step \in Early
        /\ UNCHANGED <<rows, born>>
        /\ batches'[b].dups \subseteq batches[b].dups \cup rows
        /\ \/ UNCHANGED <<grid, unheard>>
           \/ grid' = grid \cup batches[b].dups /\ unheard' = unheard \ batches[b].dups
    BY <1>2, <1>s, HandleFrame
  <2>2. \A c \in Batches : batches'[c].sent = batches[c].sent
    BY <2>1
  <2>3. IdsAreSpent'
    BY <1>s, <2>1, <2>2 DEF IdsAreSpent
  <2>4. BornFirst'
    BY <1>0, <1>s, <1>u, <2>1 DEF BornFirst, ServerType
  <2> QED
    BY <1>s, <1>u, <2>1, <2>3, <2>4 DEF GoneIsGone, StoredIsShown
<1>3. ASSUME NEW b \in Batches, Register(b)
      PROVE  IdsAreSpent' /\ BornFirst' /\ GoneIsGone' /\ StoredIsShown'
  <2> DEFINE there == batches'[b].dups
  <2>1. there \subseteq batches[b].sent /\ there \cap born = {}
    BY <1>3, <1>s, RegisteredIsFresh
  <2>2. /\ \A c \in Batches \ {b} : batches'[c] = batches[c]
        /\ batches'[b].step = "registered" /\ batches'[b].sent = batches[b].sent
        /\ rows' = rows \cup there /\ born' = born \cup there
        /\ unheard' = unheard \cup there
    BY <1>0, <1>3, RegisterType
  <2>3. grid' = grid
    BY <1>3 DEF Register
  <2> HIDE DEF there
  <2>4. \A c \in Batches : batches'[c].sent = batches[c].sent
    BY <2>2
  <2>5. IdsAreSpent'
    BY <1>s, <2>1, <2>2, <2>4 DEF IdsAreSpent, Early
  <2>6. BornFirst'
    BY <1>s, <1>u, <2>2, <2>3 DEF BornFirst, there
  <2>7. GoneIsGone'
    BY <1>s, <1>u, <2>1, <2>2 DEF GoneIsGone
  <2>8. StoredIsShown'
    BY <1>s, <2>2, <2>3 DEF StoredIsShown
  <2> QED BY <2>5, <2>6, <2>7, <2>8
<1> QED
  BY <1>1, <1>2, <1>3 DEF PanelStep

LEMMA StoreInit == Init => StoreInv
<1> SUFFICES ASSUME Init PROVE StoreInv
  OBVIOUS
<1>1. IdsAreSpent
  BY DashboardConstants DEF Init, IdsAreSpent, NoBatch, Early
<1>2. BornFirst
  BY DEF Init, BornFirst, NoBatch, NoClick
<1> QED
  BY <1>1, <1>2, TypeInit DEF Init, StoreInv, GoneIsGone, StoredIsShown

LEMMA StoreStep == StoreInv /\ [Next]_vars => StoreInv'
<1> SUFFICES ASSUME StoreInv, [Next]_vars PROVE StoreInv'
  OBVIOUS
<1> USE DEF server, panel, tiles, star, vars
<1>s. TypeOK /\ IdsAreSpent /\ BornFirst /\ GoneIsGone /\ StoredIsShown
  BY DEF StoreInv
<1>0. ServerType /\ PanelType /\ StarType /\ deleting \in SUBSET Deletion
  BY <1>s, TypeParts
<1>t. TypeOK'
  BY <1>s, TypeStep
<1>1. CASE PanelStep
  BY <1>t, <1>1, PanelKeepsStore DEF StoreInv
<1>2. ASSUME NEW p \in Photos, ClickDelete(p) PROVE StoreInv'
  <2>1. IdsAreSpent' /\ StoredIsShown'
    BY <1>s, <1>2 DEF ClickDelete, IdsAreSpent, StoredIsShown
  <2>2. BornFirst'
    BY <1>s, <1>0, <1>2, NotAloneType DEF ClickDelete, BornFirst, StarType
  <2>3. GoneIsGone'
    BY <1>s, <1>2 DEF ClickDelete, GoneIsGone
  <2> QED BY <1>t, <2>1, <2>2, <2>3 DEF StoreInv
<1>3. ASSUME NEW p \in Photos, UploadedElsewhere(p) PROVE StoreInv'
  <2>1. p \notin Files /\ p \notin born
    BY <1>3, DashboardConstants DEF UploadedElsewhere
  <2>2. \A b \in Batches : batches[b].sent \subseteq Files
    BY <1>0 DEF PanelType, Locals
  <2>3. IdsAreSpent'
    BY <1>s, <1>3, <2>1, <2>2 DEF UploadedElsewhere, IdsAreSpent
  <2>4. BornFirst'
    BY <1>s, <1>3 DEF UploadedElsewhere, BornFirst
  <2>5. GoneIsGone' /\ StoredIsShown'
    BY <1>s, <1>3, <2>1 DEF UploadedElsewhere, GoneIsGone, StoredIsShown
  <2> QED BY <1>t, <2>3, <2>4, <2>5 DEF StoreInv
<1>4. ASSUME NEW p \in Photos, DeletedElsewhere(p) PROVE StoreInv'
  <2>1. IdsAreSpent' /\ StoredIsShown' /\ GoneIsGone'
    BY <1>s, <1>4 DEF DeletedElsewhere, IdsAreSpent, StoredIsShown, GoneIsGone
  <2>2. BornFirst'
    BY <1>s, <1>0, <1>4, NotAloneType DEF DeletedElsewhere, BornFirst, StarType
  <2> QED BY <1>t, <2>1, <2>2 DEF StoreInv
<1>5. ASSUME NEW d \in deleting, DeleteRow(d) PROVE StoreInv'
  <2>1. [d EXCEPT !.step = "gone"].photo = d.photo
    BY <1>0 DEF Deletion
  <2>2. GoneIsGone'
    BY <1>s, <1>0, <1>5, <2>1 DEF DeleteRow, Move, GoneIsGone, ServerType
  <2> QED
    BY <1>s, <1>t, <1>5, <2>2
    DEF DeleteRow, StoreInv, IdsAreSpent, BornFirst, StoredIsShown
<1>6. ASSUME NEW d \in deleting, DeleteRefused(d) PROVE StoreInv'
  <2>1. [d EXCEPT !.step = "refused"].step # "gone"
    BY <1>0 DEF Deletion
  <2> QED
    BY <1>s, <1>t, <1>6, <2>1
    DEF DeleteRefused, Move, StoreInv, IdsAreSpent, BornFirst, StoredIsShown, GoneIsGone
<1>7. ASSUME NEW d \in deleting, Deleted(d) \/ DeleteFails(d) \/ DeleteLost(d) PROVE StoreInv'
  <2>1. deleting' = deleting \ {d} /\ UNCHANGED <<rows, born, cover, batches, clicks, unheard>>
    BY <1>7 DEF Deleted, DeleteFails, DeleteLost
  <2>2. grid' = grid \/ (grid' = grid \ {d.photo} /\ d.step = "gone")
    BY <1>7 DEF Deleted, DeleteFails, DeleteLost
  <2> QED
    BY <1>s, <1>t, <2>1, <2>2
    DEF StoreInv, IdsAreSpent, BornFirst, StoredIsShown, GoneIsGone
<1>8. ASSUME NEW c \in Clicks, NEW p \in Photos, ClickCover(c, p) PROVE StoreInv'
  <2>1. UNCHANGED <<rows, born, cover, batches, grid, unheard>> /\ p \in grid
    BY <1>8 DEF ClickCover
  <2>2. \A k \in Clicks : clicks'[k].want \in born \cup {NoPhoto}
    BY <1>s, <1>8, <2>1, ClickCoverType DEF BornFirst
  <2>3. GoneIsGone'
    BY <1>s, <1>0, <1>8, <2>1 DEF ClickCover, GoneIsGone, Deletion
  <2> QED
    BY <1>s, <1>t, <2>1, <2>2, <2>3 DEF StoreInv, IdsAreSpent, BornFirst, StoredIsShown
<1>9. ASSUME NEW c \in Clicks, CoverFound(c) \/ CoverRefused(c) \/ CoverWritten(c) PROVE StoreInv'
  <2>1. UNCHANGED <<rows, born, batches, grid, deleting, unheard>>
    BY <1>9 DEF CoverFound, CoverRefused, CoverWritten
  <2>2. \A k \in Clicks : clicks'[k].want = clicks[k].want
    BY <1>0, <1>9, ClickStepType DEF CoverFound, CoverRefused, CoverWritten, StarType
  <2>3. cover' \in {cover, clicks[c].want}
    BY <1>9 DEF CoverFound, CoverRefused, CoverWritten
  <2> QED
    BY <1>s, <1>t, <2>1, <2>2, <2>3
    DEF StoreInv, IdsAreSpent, BornFirst, StoredIsShown, GoneIsGone
<1>10. ASSUME NEW c \in Clicks, CoverAnswered(c) \/ CoverFails(c) \/ CoverLost(c) PROVE StoreInv'
  <2>1. UNCHANGED <<rows, born, cover, batches, grid, deleting, unheard>>
    BY <1>10 DEF CoverAnswered, CoverFails, CoverLost
  <2>2. /\ \A k \in Clicks \ {c} : clicks'[k].want = clicks[k].want
        /\ clicks'[c].want = NoPhoto
    BY <1>0, <1>10, ClickEndType DEF CoverAnswered, CoverFails, CoverLost, StarType, NoClick
  <2> QED
    BY <1>s, <1>t, <2>1, <2>2
    DEF StoreInv, IdsAreSpent, BornFirst, StoredIsShown, GoneIsGone
<1>11. ASSUME NEW p \in Photos \cup {NoPhoto}, CoveredElsewhere(p) PROVE StoreInv'
  <2>1. BornFirst'
    BY <1>s, <1>0, <1>11, NotAloneType DEF CoveredElsewhere, BornFirst, StarType, ServerType
  <2> QED
    BY <1>s, <1>t, <1>11, <2>1
    DEF CoveredElsewhere, StoreInv, IdsAreSpent, StoredIsShown, GoneIsGone
<1>12. CASE UNCHANGED vars
  BY <1>s, <1>t, <1>12 DEF StoreInv, IdsAreSpent, BornFirst, StoredIsShown, GoneIsGone
<1> QED
  BY <1>1, <1>2, <1>3, <1>4, <1>5, <1>6, <1>7, <1>8, <1>9, <1>10, <1>11, <1>12 DEF Next, PanelStep

\* Nothing the tab registered or was told of hides from its owner while it is
\* stored, whichever selections, duplicates and deletions overlap.
THEOREM StoredStaysShown == Spec => []StoredIsShown
<1>1. StoreInv => StoredIsShown
  BY DEF StoreInv
<1> QED BY <1>1, StoreInit, StoreStep, PTL DEF Spec

-----------------------------------------------------------------------------
(***************************************************************************)
(* What is called uploaded is stored.  The answer of POST assets marks     *)
(* every entry that is registering: they are the files of one selection    *)
(* as long as only one runs, and all of them were stored if no HEAD failed.*)
(***************************************************************************)
OneAtATime == ~muddled => \A b, c \in Running : b = c

RegisteringIsPut ==
    ~muddled =>
        /\ \A f \in Files : uploads[f] = "registering" =>
             \E b \in Running : f \in batches[b].completed
        /\ \A b \in Batches : batches[b].step = "registered" => batches[b].completed \subseteq born

PanelInv == OneAtATime /\ RegisteringIsPut /\ UploadedMeansStored

\* Nobody but the panel writes the panel's list.
LEMMA OthersLeaveThePanel ==
    ASSUME PanelInv, UNCHANGED panel, born \subseteq born'
    PROVE  PanelInv'
<1>1. UNCHANGED <<uploads, batches, muddled, Running>> /\ Listed({"done"})' = Listed({"done"})
  BY DEF panel, Running, Listed
<1>2. OneAtATime'
  BY <1>1 DEF PanelInv, OneAtATime
<1>3. RegisteringIsPut'
  BY <1>1 DEF PanelInv, RegisteringIsPut
<1>4. UploadedMeansStored'
  BY <1>1 DEF PanelInv, UploadedMeansStored
<1> QED BY <1>2, <1>3, <1>4 DEF PanelInv

\* A run that ends, all of whose spinning entries fail.
LEMMA CatchKeepsPanel ==
    ASSUME TypeOK, PanelInv, NEW b \in Batches,
           PresignFails(b) \/ RegisterFails(b) \/ RegisterLost(b)
    PROVE  PanelInv'
<1>1. PanelType
  BY TypeParts
<1>2. /\ uploads' = Mark(Listed(Spinning), "error") /\ Ends(b)
      /\ born' = born /\ muddled' = muddled
  BY DEF PresignFails, RegisterFails, RegisterLost, Catch, server
<1>3. /\ \A c \in Batches \ {b} : batches'[c] = batches[c]
      /\ batches'[b].step = "over"
  BY <1>1, <1>2, EndsType
<1>4. Running' \subseteq Running
  BY <1>3 DEF Running
<1>5. \A f \in Files : /\ uploads'[f] # "registering"
                       /\ uploads'[f] = "done" => uploads[f] = "done"
  BY <1>1, <1>2 DEF Mark, Listed, Spinning, PanelType
<1>6. OneAtATime'
  BY <1>2, <1>4 DEF PanelInv, OneAtATime
<1>7. RegisteringIsPut'
  <2>1. ASSUME NEW c \in Batches, batches'[c].step = "registered", ~muddled
        PROVE  batches'[c].completed \subseteq born
    BY <1>3, <2>1 DEF PanelInv, RegisteringIsPut
  <2> QED BY <1>2, <1>5, <2>1 DEF RegisteringIsPut
<1>8. UploadedMeansStored'
  BY <1>2, <1>5 DEF PanelInv, UploadedMeansStored, Listed
<1> QED BY <1>6, <1>7, <1>8 DEF PanelInv

LEMMA PanelKeepsPanel ==
    ASSUME StoreInv, PanelInv, PanelStep
    PROVE  PanelInv'
<1> USE DEF server, panel, tiles, star, vars
<1>s. TypeOK /\ PanelType /\ ServerType /\ BornFirst
  BY TypeParts DEF StoreInv
<1>i. OneAtATime /\ RegisteringIsPut /\ UploadedMeansStored
  BY DEF PanelInv
<1>1. ASSUME NEW b \in Batches, NEW fs \in SUBSET Files \ {{}}, Select(b, fs)
      PROVE  PanelInv'
  <2>1. /\ \A c \in Batches \ {b} : batches'[c] = batches[c]
        /\ batches'[b].step = IF Accept(fs) = {} THEN "over" ELSE "presign"
    BY <1>s, <1>1, SelectType
  <2>2. born' = born /\ batches[b].step = "new"
    BY <1>1 DEF Select, Unused
  <2>3. muddled' = (muddled \/ (Accept(fs) # {} /\ Running # {}))
    BY <1>1 DEF Select
  <2>4. \A f \in Files : \/ uploads'[f] = uploads[f]
                         \/ uploads'[f] \in {"uploading", "error"}
    BY <1>1 DEF Select
  <2>5. b \notin Running /\ Running \subseteq Running' /\ Running' \subseteq Running \cup {b}
    BY <2>1, <2>2 DEF Running
  <2>6. Accept(fs) = {} => Running' = Running
    BY <2>1, <2>2, <2>5 DEF Running
  <2>7. OneAtATime'
    BY <1>i, <2>3, <2>5, <2>6 DEF OneAtATime
  <2>8. RegisteringIsPut'
    <3> SUFFICES ASSUME ~muddled' PROVE
            /\ \A f \in Files : uploads'[f] = "registering" =>
                 \E c \in Running' : f \in batches'[c].completed
            /\ \A c \in Batches : batches'[c].step = "registered" => batches'[c].completed \subseteq born'
      BY DEF RegisteringIsPut
    <3>1. ~muddled
      BY <2>3
    <3>2. ASSUME NEW f \in Files, uploads'[f] = "registering"
          PROVE  \E c \in Running' : f \in batches'[c].completed
      <4>1. PICK c \in Running : f \in batches[c].completed
        BY <1>i, <2>4, <3>1, <3>2 DEF RegisteringIsPut
      <4>2. c \in Batches \ {b}
        BY <2>5 DEF Running
      <4> QED BY <2>1, <2>5, <4>1, <4>2
    <3>3. \A c \in Batches : batches'[c].step = "registered" => batches'[c].completed \subseteq born'
      BY <1>i, <2>1, <2>2, <3>1 DEF RegisteringIsPut
    <3> QED BY <3>2, <3>3
  <2>9. UploadedMeansStored'
    BY <1>i, <2>2, <2>3, <2>4 DEF UploadedMeansStored, Listed
  <2> QED BY <2>7, <2>8, <2>9 DEF PanelInv
<1>2. ASSUME NEW b \in Batches, Presigned(b) PROVE PanelInv'
  <2>1. /\ \A c \in Batches \ {b} : batches'[c] = batches[c]
        /\ batches'[b].step = "put" /\ batches'[b].completed = batches[b].completed
        /\ \A f \in Files : \/ uploads'[f] = uploads[f]
                            \/ /\ uploads'[f] = "done"
                               /\ \E p \in rows : Content[p] = Content[f]
    BY <1>s, <1>2, PresignedType
  <2>2. born' = born /\ muddled' = muddled /\ batches[b].step = "presign"
    BY <1>2 DEF Presigned
  <2>3. Running' = Running
    BY <2>1, <2>2 DEF Running
  <2>4. OneAtATime'
    BY <1>i, <2>2, <2>3 DEF OneAtATime
  <2>5. RegisteringIsPut'
    BY <1>i, <2>1, <2>2, <2>3 DEF RegisteringIsPut, Running
  <2>6. UploadedMeansStored'
    BY <1>i, <1>s, <2>1, <2>2 DEF UploadedMeansStored, Listed, ServerType
  <2> QED BY <2>4, <2>5, <2>6 DEF PanelInv
<1>3. ASSUME NEW b \in Batches, NEW f \in Files, PutOk(b, f) \/ PutFails(b, f) PROVE PanelInv'
  <2>1. /\ \A c \in Batches \ {b} : batches'[c] = batches[c]
        /\ batches'[b].step = "put"
        /\ batches[b].completed \subseteq batches'[b].completed
        /\ \A g \in Files \ {f} : uploads'[g] = uploads[g]
        /\ uploads'[f] = "error" \/ (uploads'[f] = "registering" /\ f \in batches'[b].completed)
    BY <1>s, <1>3, PutType
  <2>2. born' = born /\ muddled' = muddled /\ batches[b].step = "put"
    BY <1>3 DEF PutOk, PutFails
  <2>3. Running' = Running /\ b \in Running
    BY <2>1, <2>2 DEF Running
  <2>4. OneAtATime'
    BY <1>i, <2>2, <2>3 DEF OneAtATime
  <2>5. RegisteringIsPut'
    BY <1>i, <2>1, <2>2, <2>3 DEF RegisteringIsPut, Running
  <2>6. UploadedMeansStored'
    BY <1>i, <2>1, <2>2 DEF UploadedMeansStored, Listed
  <2> QED BY <2>4, <2>5, <2>6 DEF PanelInv
<1>4. ASSUME NEW b \in Batches, PutsSettled(b) \/ RegisterRefused(b) PROVE PanelInv'
  <2>1. PICK step \in {"tidy", "register", "refused"} :
          Step(b, step) /\ (step = "tidy" => batches[b].completed = {})
    BY <1>4 DEF PutsSettled, RegisterRefused
  <2>2. /\ batches' \in [Batches -> Locals]
        /\ \A c \in Batches : /\ batches'[c].completed = batches[c].completed
                              /\ c # b => batches'[c].step = batches[c].step
        /\ batches'[b].step = step
    BY <1>s, <2>1, StepType
  <2>3. UNCHANGED <<uploads, born, muddled>> /\ batches[b].step \in {"put", "register"}
    BY <1>4 DEF PutsSettled, RegisterRefused
  <2>4. Running' \subseteq Running /\ (step # "tidy" => Running' = Running)
        /\ Running \ {b} \subseteq Running'
    BY <2>2, <2>3 DEF Running
  <2>5. OneAtATime'
    BY <1>i, <2>3, <2>4 DEF OneAtATime
  <2>6. RegisteringIsPut'
    BY <1>i, <2>1, <2>2, <2>3, <2>4 DEF RegisteringIsPut, Running
  <2>7. UploadedMeansStored'
    BY <1>i, <2>3 DEF UploadedMeansStored, Listed
  <2> QED BY <2>5, <2>6, <2>7 DEF PanelInv
<1>5. ASSUME NEW b \in Batches, Register(b) PROVE PanelInv'
  <2>1. /\ \A c \in Batches \ {b} : batches'[c] = batches[c]
        /\ batches'[b].step = "registered" /\ batches'[b].completed = batches[b].completed
        /\ born' = born \cup batches'[b].dups
        /\ ~muddled' => ~muddled /\ batches'[b].dups = batches[b].completed
    BY <1>s, <1>5, RegisterType
  <2>2. uploads' = uploads /\ batches[b].step = "register"
    BY <1>5 DEF Register
  <2>3. Running' = Running
    BY <2>1, <2>2 DEF Running
  <2>4. OneAtATime'
    BY <1>i, <2>1, <2>3 DEF OneAtATime
  <2>5. RegisteringIsPut'
    <3> SUFFICES ASSUME ~muddled' PROVE
            /\ \A f \in Files : uploads'[f] = "registering" =>
                 \E c \in Running' : f \in batches'[c].completed
            /\ \A c \in Batches : batches'[c].step = "registered" => batches'[c].completed \subseteq born'
      BY DEF RegisteringIsPut
    <3>1. \A c \in Batches : batches'[c].completed = batches[c].completed
      BY <2>1
    <3>2. \A f \in Files : uploads'[f] = "registering" =>
             \E c \in Running' : f \in batches'[c].completed
      BY <1>i, <2>1, <2>2, <2>3, <3>1 DEF RegisteringIsPut, Running
    <3>3. \A c \in Batches : batches'[c].step = "registered" => batches'[c].completed \subseteq born'
      BY <1>i, <2>1, <3>1 DEF RegisteringIsPut
    <3> QED BY <3>2, <3>3
  <2>6. UploadedMeansStored'
    BY <1>i, <2>1, <2>2 DEF UploadedMeansStored, Listed
  <2> QED BY <2>4, <2>5, <2>6 DEF PanelInv
<1>6. ASSUME NEW b \in Batches, Registered(b) PROVE PanelInv'
  <2>1. Step(b, "tidy") /\ uploads' = Mark(Listed({"registering"}), "done")
        /\ born' = born /\ muddled' = muddled /\ batches[b].step = "registered"
    BY <1>6 DEF Registered
  <2>2. /\ \A c \in Batches : /\ batches'[c].completed = batches[c].completed
                              /\ c # b => batches'[c].step = batches[c].step
        /\ batches'[b].step = "tidy"
    BY <1>s, <2>1, StepType
  <2>3. Running' \subseteq Running /\ b \in Running
    BY <2>1, <2>2 DEF Running
  <2>4. \A f \in Files : /\ uploads'[f] # "registering"
                         /\ uploads'[f] = "done" => uploads[f] \in {"done", "registering"}
    BY <1>s, <2>1 DEF Mark, Listed, PanelType
  <2>5. OneAtATime'
    BY <1>i, <2>1, <2>3 DEF OneAtATime
  <2>6. RegisteringIsPut'
    <3>1. ASSUME NEW c \in Batches, batches'[c].step = "registered", ~muddled
          PROVE  batches'[c].completed \subseteq born
      BY <1>i, <2>2, <3>1 DEF RegisteringIsPut
    <3> QED BY <2>1, <2>4, <3>1 DEF RegisteringIsPut
  <2>7. ASSUME ~muddled, NEW f \in Files, uploads[f] = "registering"
        PROVE  f \in born
    <3>1. PICK c \in Running : f \in batches[c].completed
      BY <1>i, <2>7 DEF RegisteringIsPut
    <3>2. c = b
      BY <1>i, <2>3, <2>7, <3>1 DEF OneAtATime
    <3> QED BY <1>i, <2>1, <2>7, <3>1, <3>2 DEF RegisteringIsPut
  <2>8. UploadedMeansStored'
    BY <1>i, <2>1, <2>4, <2>7 DEF UploadedMeansStored, Listed
  <2> QED BY <2>5, <2>6, <2>8 DEF PanelInv
<1>7. ASSUME NEW b \in Batches, Tidy(b) PROVE PanelInv'
  <2>1. Ends(b) /\ uploads' = Mark(Listed({"done"}), "absent")
        /\ born' = born /\ muddled' = muddled /\ batches[b].step = "tidy"
    BY <1>7 DEF Tidy
  <2>2. /\ \A c \in Batches \ {b} : batches'[c] = batches[c]
        /\ batches'[b].step = "over"
    BY <1>s, <2>1, EndsType
  <2>3. Running' = Running /\ b \notin Running
    BY <2>1, <2>2 DEF Running
  <2>4. \A f \in Files : /\ uploads'[f] # "done"
                         /\ uploads'[f] = "registering" => uploads[f] = "registering"
    BY <1>s, <2>1 DEF Mark, Listed, PanelType
  <2>5. OneAtATime'
    BY <1>i, <2>1, <2>3 DEF OneAtATime
  <2>6. RegisteringIsPut'
    BY <1>i, <2>1, <2>2, <2>3, <2>4 DEF RegisteringIsPut, Running
  <2>7. UploadedMeansStored'
    <3>1. Listed({"done"})' = {}
      BY <2>4 DEF Listed
    <3> QED BY <3>1 DEF UploadedMeansStored
  <2> QED BY <2>5, <2>6, <2>7 DEF PanelInv
<1>8. ASSUME NEW b \in Batches, PresignFails(b) \/ RegisterFails(b) \/ RegisterLost(b)
      PROVE  PanelInv'
  BY <1>8, <1>s, CatchKeepsPanel
<1> QED
  BY <1>1, <1>2, <1>3, <1>4, <1>5, <1>6, <1>7, <1>8 DEF PanelStep, Handle

LEMMA PanelInit == Init => PanelInv
BY DEF Init, PanelInv, OneAtATime, RegisteringIsPut, UploadedMeansStored, Listed, Running, NoBatch

\* What the other steps do to the panel: nothing.
LEMMA OtherStepFrame ==
    ASSUME [Next]_vars, ~PanelStep
    PROVE  UNCHANGED panel /\ born \subseteq born'
<1> USE DEF server, panel, tiles, star, vars
<1>1. \A p \in Photos : ClickDelete(p) \/ UploadedElsewhere(p) \/ DeletedElsewhere(p)
        => UNCHANGED panel /\ born \subseteq born'
  BY DEF ClickDelete, UploadedElsewhere, DeletedElsewhere
<1>2. \A d \in deleting : DeleteRow(d) \/ DeleteRefused(d) \/ Deleted(d) \/ DeleteFails(d)
                          \/ DeleteLost(d)
        => UNCHANGED panel /\ born \subseteq born'
  BY DEF DeleteRow, DeleteRefused, Deleted, DeleteFails, DeleteLost
<1>3. \A c \in Clicks : \/ \E p \in Photos : ClickCover(c, p)
                        \/ CoverFound(c) \/ CoverRefused(c) \/ CoverWritten(c)
                        \/ CoverAnswered(c) \/ CoverFails(c) \/ CoverLost(c)
        => UNCHANGED panel /\ born \subseteq born'
  BY DEF ClickCover, CoverFound, CoverRefused, CoverWritten, CoverAnswered, CoverFails, CoverLost
<1>4. \A p \in Photos \cup {NoPhoto} : CoveredElsewhere(p)
        => UNCHANGED panel /\ born \subseteq born'
  BY DEF CoveredElsewhere
<1> QED
  BY <1>1, <1>2, <1>3, <1>4 DEF Next, PanelStep

\* While selections run one at a time and no HEAD fails, "Uploaded" means that
\* the content of the file is, or was, in the event.
THEOREM UploadedStaysStored == Spec => []UploadedMeansStored
<1>1. StoreInv /\ PanelInv /\ [Next]_vars => PanelInv'
  BY PanelKeepsPanel, OtherStepFrame, OthersLeaveThePanel
<1>2. PanelInv => UploadedMeansStored
  BY DEF PanelInv
<1> QED BY <1>1, <1>2, StoreInit, StoreStep, PanelInit, PTL DEF Spec

-----------------------------------------------------------------------------
(***************************************************************************)
(* The star is where the cover is.  Between two clicks it shows the cover  *)
(* as it was before the deletions whose answer is still out; while a click *)
(* that runs alone is out, so does what it would fall back on.             *)
(***************************************************************************)
Gone == {d.photo : d \in {e \in deleting : e.step = "gone"}}

\* The cover as a guest sees it: the id of a deleted photo shows none.
StarAmong(there) == IF cover \in there THEN cover ELSE NoPhoto

Settled(id) == id \in grid \cup {NoPhoto} /\ id = StarAmong(rows \cup Gone)

OneDeletionEach == \A d, e \in deleting : d.photo = e.photo => d = e

BetweenClicks ==
    ClicksUnderWay = {} /\ ~doubt =>
        /\ Settled(shownCover)
        /\ \A d \in deleting : d.alone => shownCover \in {d.closed, NoPhoto}

\* A click that runs alone, while its answer is out.
RunsAlone(c) ==
    /\ ClicksUnderWay = {c} /\ deleting = {}
    /\ shownCover = clicks[c].want /\ shownCover \in grid \cup {NoPhoto}
    /\ clicks[c].step \in {"found", "written"} => clicks[c].want \in rows \cup {NoPhoto}
    /\ clicks[c].step = "written" => cover = clicks[c].want
    /\ clicks[c].step # "written" /\ ~doubt => Settled(clicks[c].prev)

AloneClick == \A c \in ClicksUnderWay : clicks[c].alone => RunsAlone(c)

StarInv == OneDeletionEach /\ BetweenClicks /\ AloneClick

\* New photos leave the star alone: the cover is of a photo that had a row.
LEMMA GrowthKeepsStar ==
    ASSUME StoreInv, StarInv,
           UNCHANGED <<cover, star, deleting>>,
           rows \subseteq rows', rows' \cap born \subseteq rows, rows' \subseteq Photos,
           grid \subseteq grid'
    PROVE  StarInv'
<1>0. BornFirst /\ NoPhoto \notin Photos
  BY DashboardConstants DEF StoreInv
<1>u. UNCHANGED <<cover, shownCover, clicks, doubt, deleting, ClicksUnderWay, Gone>>
  BY DEF star, ClicksUnderWay, Gone
<1>1. cover \in rows' => cover \in rows
  BY <1>0 DEF BornFirst
<1>2. \A id : Settled(id) => Settled(id)'
  BY <1>1, <1>u DEF Settled, StarAmong
<1>3. OneDeletionEach'
  BY <1>u DEF StarInv, OneDeletionEach
<1>4. BetweenClicks'
  BY <1>u, <1>2 DEF StarInv, BetweenClicks
<1>5. AloneClick'
  <2> SUFFICES ASSUME NEW c \in ClicksUnderWay, clicks[c].alone PROVE RunsAlone(c)'
    BY <1>u DEF AloneClick
  <2>1. RunsAlone(c)
    BY DEF StarInv, AloneClick
  <2> QED BY <1>u, <1>2, <2>1 DEF RunsAlone
<1> QED BY <1>3, <1>4, <1>5 DEF StarInv

LEMMA PanelKeepsStar ==
    ASSUME StoreInv, StarInv, PanelStep
    PROVE  StarInv'
<1>0. TypeOK /\ IdsAreSpent /\ ServerType /\ PanelType
  BY TypeParts DEF StoreInv
<1>1. /\ UNCHANGED <<cover, star, deleting>> /\ ServerType'
      /\ rows \subseteq rows' /\ grid \subseteq grid'
  BY <1>0, PanelStepDoes
<1>2. PICK b \in Batches : Handle(b) \/ \E fs \in SUBSET Files \ {{}} : Select(b, fs)
  BY DEF PanelStep
<1>3. CASE Register(b)
  <2>1. batches'[b].dups \cap born = {} /\ rows' = rows \cup batches'[b].dups
    BY <1>0, <1>3, RegisterType, RegisteredIsFresh
  <2> QED
    BY <1>1, <2>1, GrowthKeepsStar DEF ServerType
<1>4. CASE ~Register(b)
  <2>1. rows' = rows
    BY <1>0, <1>2, <1>4, HandleFrame DEF Select, server
  <2> QED
    BY <1>0, <1>1, <2>1, GrowthKeepsStar DEF ServerType
<1> QED BY <1>3, <1>4

LEMMA DeletionKeepsStar ==
    ASSUME StoreInv, StarInv, NEW d \in deleting,
           DeleteRow(d) \/ DeleteRefused(d) \/ Deleted(d) \/ DeleteFails(d) \/ DeleteLost(d)
    PROVE  StarInv'
<1> USE DEF server, panel, tiles, star
<1>0. /\ deleting \in SUBSET Deletion /\ StarType /\ GoneIsGone
      /\ cover \in Photos \cup {NoPhoto} /\ NoPhoto \notin Photos
  BY DashboardConstants, TypeParts DEF StoreInv
<1>i. OneDeletionEach /\ BetweenClicks /\ AloneClick
  BY DEF StarInv
<1>u. UNCHANGED <<clicks, cover, ClicksUnderWay>>
  BY DEF DeleteRow, DeleteRefused, Deleted, DeleteFails, DeleteLost, ClicksUnderWay
<1>1. \A c \in ClicksUnderWay : ~clicks[c].alone
  BY <1>i DEF AloneClick, RunsAlone
<1>2. AloneClick'
  BY <1>1, <1>u DEF AloneClick
<1>3. CASE DeleteRow(d) \/ DeleteRefused(d)
  <2>1. PICK step \in {"gone", "refused"} :
          Move(d, step) /\ (step = "gone" <=> DeleteRow(d))
    BY <1>3 DEF DeleteRow, DeleteRefused
  <2>2. d.step = "sent" /\ UNCHANGED <<grid, shownCover, doubt>>
    BY <1>3 DEF DeleteRow, DeleteRefused
  <2> DEFINE moved == [d EXCEPT !.step = step]
  <2>3. /\ moved.photo = d.photo /\ moved.closed = d.closed
        /\ moved.alone = d.alone /\ moved.step = step
    BY <1>0 DEF Deletion
  <2>4. deleting' = (deleting \ {d}) \cup {moved}
    BY <2>1 DEF Move
  <2> HIDE DEF moved
  <2>5. OneDeletionEach'
    BY <1>i, <2>3, <2>4 DEF OneDeletionEach
  <2>6. rows' \cup Gone' = rows \cup Gone
    <3>1. CASE DeleteRow(d)
      <4>1. step = "gone" /\ d.photo \in rows /\ rows' = rows \ {d.photo}
        BY <2>1, <3>1 DEF DeleteRow
      <4>2. Gone' = Gone \cup {d.photo}
        BY <2>2, <2>3, <2>4, <4>1 DEF Gone
      <4> QED BY <4>1, <4>2
    <3>2. CASE DeleteRefused(d) /\ ~DeleteRow(d)
      <4>1. step = "refused" /\ rows' = rows
        BY <2>1, <3>2 DEF DeleteRefused
      <4>2. Gone' = Gone
        BY <2>2, <2>3, <2>4, <4>1 DEF Gone
      <4> QED BY <4>1, <4>2
    <3> QED BY <1>3, <3>1, <3>2
  <2>7. \A id : Settled(id) => Settled(id)'
    BY <1>u, <2>2, <2>6 DEF Settled, StarAmong
  <2>8. BetweenClicks'
    BY <1>i, <1>u, <2>2, <2>3, <2>4, <2>7 DEF BetweenClicks
  <2> QED BY <1>2, <2>5, <2>8 DEF StarInv
<1>4. CASE Deleted(d) \/ DeleteFails(d) \/ DeleteLost(d)
  <2>1. deleting' = deleting \ {d} /\ rows' = rows
    BY <1>4 DEF Deleted, DeleteFails, DeleteLost
  <2>2. OneDeletionEach'
    BY <1>i, <2>1 DEF OneDeletionEach
  <2>3. CASE DeleteFails(d)
    <3>1. UNCHANGED <<grid, shownCover, doubt>> /\ d.step = "refused"
      BY <2>3 DEF DeleteFails
    <3>2. Gone' = Gone
      BY <2>1, <3>1 DEF Gone
    <3>3. BetweenClicks'
      BY <1>i, <1>u, <2>1, <3>1, <3>2 DEF BetweenClicks, Settled, StarAmong
    <3> QED BY <1>2, <2>2, <3>3 DEF StarInv
  <2>4. CASE DeleteLost(d)
    <3>1. /\ UNCHANGED <<grid, shownCover>> /\ d.step = "gone"
          /\ doubt' = (doubt \/ ~d.alone \/ d.photo \in {cover, shownCover})
      BY <2>4 DEF DeleteLost
    <3>2. Gone' = Gone \ {d.photo}
      BY <1>i, <2>1, <3>1 DEF Gone, OneDeletionEach
    <3>3. BetweenClicks'
      BY <1>i, <1>u, <2>1, <3>1, <3>2 DEF BetweenClicks, Settled, StarAmong
    <3> QED BY <1>2, <2>2, <3>3 DEF StarInv
  <2>5. CASE Deleted(d)
    <3>1. /\ grid' = grid \ {d.photo} /\ d.step = "gone"
          /\ shownCover' = IF d.photo = d.closed THEN NoPhoto ELSE shownCover
          /\ doubt' = (doubt \/ ~d.alone)
      BY <2>5 DEF Deleted
    <3>2. Gone' = Gone \ {d.photo} /\ d.photo \notin rows /\ d.photo \in Gone
      BY <1>0, <1>i, <2>1, <3>1 DEF Gone, OneDeletionEach, GoneIsGone
    <3>3. d.photo # NoPhoto
      BY <1>0 DEF Deletion
    <3>4. ASSUME ClicksUnderWay = {}, ~doubt, d.alone
          PROVE  /\ Settled(shownCover)'
                 /\ \A e \in deleting' : e.alone => shownCover' \in {e.closed, NoPhoto}
      <4>1. /\ shownCover \in grid \cup {NoPhoto}
            /\ shownCover = StarAmong(rows \cup Gone)
            /\ \A e \in deleting : e.alone => shownCover \in {e.closed, NoPhoto}
        BY <1>i, <3>4 DEF BetweenClicks, Settled
      <4>2. shownCover \in {d.closed, NoPhoto}
        BY <3>4, <4>1
      <4>3. shownCover' = IF shownCover = d.photo THEN NoPhoto ELSE shownCover
        BY <3>1, <3>3, <4>2
      <4>4. StarAmong(rows \cup Gone)' = IF cover = d.photo THEN NoPhoto ELSE StarAmong(rows \cup Gone)
        BY <1>u, <2>1, <3>2 DEF StarAmong
      <4>5. shownCover = d.photo <=> cover = d.photo
        BY <3>2, <3>3, <4>1 DEF StarAmong
      <4>6. Settled(shownCover)'
        BY <3>1, <4>1, <4>3, <4>4, <4>5 DEF Settled
      <4> QED BY <2>1, <4>1, <4>3, <4>6
    <3>5. BetweenClicks'
      BY <1>u, <3>1, <3>4 DEF BetweenClicks
    <3> QED BY <1>2, <2>2, <3>5 DEF StarInv
  <2> QED BY <1>4, <2>3, <2>4, <2>5
<1> QED BY <1>3, <1>4

LEMMA ClickKeepsStar ==
    ASSUME StoreInv, StarInv, NEW c \in Clicks, NEW p \in Photos, ClickCover(c, p)
    PROVE  StarInv'
<1> USE DEF server, panel, tiles, star
<1>0. TypeOK /\ deleting \in SUBSET Deletion
  BY TypeParts DEF StoreInv
<1>i. OneDeletionEach /\ BetweenClicks /\ AloneClick
  BY DEF StarInv
<1>1. /\ \A k \in Clicks \ {c} : clicks'[k].step = clicks[k].step /\ ~clicks'[k].alone
      /\ clicks'[c].step = "sent" /\ clicks'[c].want = shownCover'
      /\ clicks'[c].prev = shownCover
      /\ clicks'[c].alone => ClicksUnderWay = {} /\ deleting = {}
      /\ shownCover' \in {p, NoPhoto}
  BY <1>0, ClickCoverType
<1>2. /\ UNCHANGED <<rows, cover, grid, doubt>> /\ p \in grid
      /\ deleting' = {[d EXCEPT !.alone = FALSE] : d \in deleting}
  BY DEF ClickCover
<1>3. ClicksUnderWay' = ClicksUnderWay \cup {c}
  BY <1>1 DEF ClicksUnderWay
<1>4. OneDeletionEach'
  <2>1. \A d \in deleting : [d EXCEPT !.alone = FALSE].photo = d.photo
    BY <1>0 DEF Deletion
  <2>2. ASSUME NEW d \in deleting', NEW e \in deleting', d.photo = e.photo PROVE d = e
    <3>1. PICK f \in deleting, g \in deleting :
            d = [f EXCEPT !.alone = FALSE] /\ e = [g EXCEPT !.alone = FALSE]
      BY <1>2
    <3>2. f = g
      BY <1>i, <2>1, <2>2, <3>1 DEF OneDeletionEach
    <3> QED BY <3>1, <3>2
  <2> QED BY <2>2 DEF OneDeletionEach
<1>5. BetweenClicks'
  BY <1>3 DEF BetweenClicks
<1>6. AloneClick'
  <2> SUFFICES ASSUME clicks'[c].alone PROVE RunsAlone(c)'
    BY <1>1, <1>3 DEF AloneClick, ClicksUnderWay
  <2>1. ClicksUnderWay = {} /\ deleting = {} /\ deleting' = {}
    BY <1>1, <1>2
  <2>2. Gone' = Gone
    BY <2>1 DEF Gone
  <2>3. ~doubt => Settled(shownCover)
    BY <1>i, <2>1 DEF BetweenClicks
  <2>4. ~doubt' => Settled(clicks[c].prev)'
    BY <1>1, <1>2, <2>2, <2>3 DEF Settled, StarAmong
  <2> QED
    BY <1>1, <1>2, <1>3, <2>1, <2>4 DEF RunsAlone
<1> QED BY <1>4, <1>5, <1>6 DEF StarInv

LEMMA AnswerKeepsStar ==
    ASSUME StoreInv, StarInv, NEW c \in Clicks,
           \/ CoverFound(c) \/ CoverRefused(c) \/ CoverWritten(c)
           \/ CoverAnswered(c) \/ CoverFails(c) \/ CoverLost(c)
    PROVE  StarInv'
<1> USE DEF server, panel, tiles, star
<1>0. clicks \in [Clicks -> Change]
  BY TypeParts DEF StoreInv, StarType
<1>i. OneDeletionEach /\ BetweenClicks /\ AloneClick
  BY DEF StarInv
<1>u. UNCHANGED <<rows, grid, deleting, Gone>>
  BY DEF CoverFound, CoverRefused, CoverWritten, CoverAnswered, CoverFails, CoverLost, Gone
<1>1. c \in ClicksUnderWay
  BY DEF CoverFound, CoverRefused, CoverWritten, CoverAnswered, CoverFails, CoverLost,
         ClicksUnderWay
<1>2. \A k \in ClicksUnderWay \ {c} : ~clicks[k].alone
  BY <1>i, <1>1 DEF AloneClick, RunsAlone
<1>3. clicks[c].alone => RunsAlone(c)
  BY <1>i, <1>1 DEF AloneClick
<1>4. OneDeletionEach'
  BY <1>i, <1>u DEF OneDeletionEach
<1>5. CASE CoverFound(c) \/ CoverRefused(c) \/ CoverWritten(c)
  <2>1. PICK step \in {"found", "refused", "written"} : clicks' = [clicks EXCEPT ![c].step = step]
    BY <1>5 DEF CoverFound, CoverRefused, CoverWritten
  <2>2. /\ \A k \in Clicks \ {c} : clicks'[k] = clicks[k]
        /\ clicks'[c].step = step /\ clicks'[c].want = clicks[c].want
        /\ clicks'[c].prev = clicks[c].prev /\ clicks'[c].alone = clicks[c].alone
    BY <1>0, <2>1, ClickStepType
  <2>3. ClicksUnderWay' = ClicksUnderWay
    BY <1>1, <2>2 DEF ClicksUnderWay
  <2>4. UNCHANGED <<shownCover, doubt>>
    BY <1>5 DEF CoverFound, CoverRefused, CoverWritten
  <2>5. BetweenClicks'
    BY <1>1, <2>3 DEF BetweenClicks
  <2>6. ASSUME clicks[c].alone PROVE RunsAlone(c)'
    <3>1. /\ ClicksUnderWay = {c} /\ deleting = {}
          /\ shownCover = clicks[c].want /\ shownCover \in grid \cup {NoPhoto}
          /\ clicks[c].step \in {"found", "written"} => clicks[c].want \in rows \cup {NoPhoto}
          /\ clicks[c].step # "written" /\ ~doubt => Settled(clicks[c].prev)
      BY <1>3, <2>6 DEF RunsAlone
    <3>2. CASE CoverFound(c) \/ CoverRefused(c)
      <4>1. /\ step \in {"found", "refused"} /\ cover' = cover /\ clicks[c].step = "sent"
            /\ step = "found" => clicks[c].want \in rows \cup {NoPhoto}
        BY <1>0, <2>2, <3>2 DEF CoverFound, CoverRefused, Change
      <4>2. ~doubt' => Settled(clicks[c].prev)'
        BY <1>u, <2>2, <2>4, <3>1, <4>1 DEF Settled, StarAmong
      <4> QED BY <1>u, <2>2, <2>3, <2>4, <3>1, <4>1, <4>2 DEF RunsAlone
    <3>3. CASE CoverWritten(c)
      <4>1. step = "written" /\ cover' = clicks[c].want /\ clicks[c].step = "found"
        BY <1>0, <2>2, <3>3 DEF CoverWritten, Change
      <4> QED BY <1>u, <2>2, <2>3, <2>4, <3>1, <4>1 DEF RunsAlone
    <3> QED BY <1>5, <3>2, <3>3
  <2>7. AloneClick'
    BY <1>2, <2>2, <2>3, <2>6 DEF AloneClick, ClicksUnderWay
  <2> QED BY <1>4, <2>5, <2>7 DEF StarInv
<1>6. CASE CoverAnswered(c) \/ CoverFails(c) \/ CoverLost(c)
  <2>1. /\ \A k \in Clicks \ {c} : clicks'[k] = clicks[k]
        /\ clicks'[c].step = "none"
    BY <1>0, <1>6, ClickEndType DEF CoverAnswered, CoverFails, CoverLost
  <2>2. ClicksUnderWay' = ClicksUnderWay \ {c} /\ cover' = cover
    BY <1>6, <2>1 DEF ClicksUnderWay, CoverAnswered, CoverFails, CoverLost
  <2>3. AloneClick'
    BY <1>2, <2>1, <2>2 DEF AloneClick, ClicksUnderWay
  <2>4. ASSUME ~doubt' PROVE Settled(shownCover)' /\ deleting' = {}
    <3>1. clicks[c].alone /\ RunsAlone(c)
      BY <1>3, <1>6, <2>4 DEF CoverAnswered, CoverFails, CoverLost
    <3>2. deleting = {} /\ Gone = {}
      BY <3>1 DEF RunsAlone, Gone
    <3>3. CASE CoverAnswered(c)
      <4>1. /\ shownCover' = shownCover /\ shownCover \in grid \cup {NoPhoto}
            /\ cover = shownCover /\ cover \in rows \cup {NoPhoto}
        BY <3>1, <3>3 DEF CoverAnswered, RunsAlone
      <4> QED BY <1>u, <2>2, <3>2, <4>1 DEF Settled, StarAmong
    <3>4. CASE CoverFails(c)
      <4>1. shownCover' = clicks[c].prev /\ Settled(clicks[c].prev)
        BY <2>4, <3>1, <3>4 DEF CoverFails, RunsAlone
      <4> QED BY <1>u, <2>2, <3>2, <4>1 DEF Settled, StarAmong
    <3>5. CASE CoverLost(c)
      BY <2>4, <3>5 DEF CoverLost
    <3> QED BY <1>6, <3>3, <3>4, <3>5
  <2>5. BetweenClicks'
    BY <2>4 DEF BetweenClicks
  <2> QED BY <1>4, <2>3, <2>5 DEF StarInv
<1> QED BY <1>5, <1>6

\* Whatever takes a photo or the cover from elsewhere, and a new deletion,
\* leaves no click alone.
LEMMA NobodyIsAlone ==
    ASSUME clicks \in [Clicks -> Change], clicks' = NotAlone(clicks)
    PROVE  AloneClick' /\ ClicksUnderWay' = ClicksUnderWay
BY NotAloneType DEF AloneClick, ClicksUnderWay

LEMMA StarInit == Init => StarInv
BY DEF Init, StarInv, OneDeletionEach, BetweenClicks, AloneClick, ClicksUnderWay, NoClick,
       Settled, StarAmong

LEMMA StarStep == StoreInv /\ StarInv /\ [Next]_vars => StarInv'
<1> SUFFICES ASSUME StoreInv, StarInv, [Next]_vars PROVE StarInv'
  OBVIOUS
<1> USE DEF server, panel, tiles, star, vars
<1>0. /\ clicks \in [Clicks -> Change] /\ deleting \in SUBSET Deletion
      /\ StarType /\ ServerType /\ NoPhoto \notin Photos
  BY DashboardConstants, TypeParts DEF StoreInv, StarType
<1>i. OneDeletionEach /\ BetweenClicks /\ AloneClick
  BY DEF StarInv
<1>1. CASE PanelStep
  BY <1>1, PanelKeepsStar
<1>2. ASSUME NEW p \in Photos, ClickDelete(p) PROVE StarInv'
  <2> DEFINE d == [photo |-> p, closed |-> shownCover, step |-> "sent",
                   alone |-> ClicksUnderWay = {}]
  <2>1. /\ deleting' = deleting \cup {d} /\ clicks' = NotAlone(clicks)
        /\ UNCHANGED <<rows, cover, grid, shownCover, doubt>>
        /\ \A e \in deleting : e.photo # p
    BY <1>2 DEF ClickDelete
  <2>2. d.photo = p /\ d.closed = shownCover /\ d.step # "gone"
    OBVIOUS
  <2> HIDE DEF d
  <2>3. AloneClick' /\ ClicksUnderWay' = ClicksUnderWay
    BY <1>0, <2>1, NobodyIsAlone
  <2>4. Gone' = Gone
    BY <2>1, <2>2 DEF Gone
  <2>5. BetweenClicks'
    BY <1>i, <2>1, <2>2, <2>3, <2>4 DEF BetweenClicks, Settled, StarAmong
  <2>6. OneDeletionEach'
    BY <1>i, <2>1, <2>2 DEF OneDeletionEach
  <2> QED BY <2>3, <2>5, <2>6 DEF StarInv
<1>3. ASSUME NEW p \in Photos, UploadedElsewhere(p) PROVE StarInv'
  <2>1. /\ UNCHANGED <<cover, star, deleting, grid>>
        /\ rows' = rows \cup {p} /\ p \notin born
    BY <1>3 DEF UploadedElsewhere
  <2> QED BY <1>0, <2>1, GrowthKeepsStar DEF ServerType
<1>4. ASSUME NEW p \in Photos, DeletedElsewhere(p) PROVE StarInv'
  <2>1. /\ UNCHANGED <<cover, grid, shownCover, deleting, Gone>> /\ clicks' = NotAlone(clicks)
        /\ rows' = rows \ {p} /\ doubt' = (doubt \/ p \in {cover, shownCover})
    BY <1>4 DEF DeletedElsewhere, Gone
  <2>2. AloneClick' /\ ClicksUnderWay' = ClicksUnderWay
    BY <1>0, <2>1, NobodyIsAlone
  <2>3. BetweenClicks'
    BY <1>i, <2>1, <2>2 DEF BetweenClicks, Settled, StarAmong
  <2>4. OneDeletionEach'
    BY <1>i, <2>1 DEF OneDeletionEach
  <2> QED BY <2>2, <2>3, <2>4 DEF StarInv
<1>5. ASSUME NEW p \in Photos \cup {NoPhoto}, CoveredElsewhere(p) PROVE StarInv'
  <2>1. UNCHANGED deleting /\ clicks' = NotAlone(clicks) /\ doubt' = TRUE
    BY <1>5 DEF CoveredElsewhere
  <2>2. AloneClick' /\ OneDeletionEach'
    BY <1>0, <1>i, <2>1, NobodyIsAlone DEF OneDeletionEach
  <2> QED BY <2>1, <2>2 DEF StarInv, BetweenClicks
<1>6. CASE UNCHANGED vars
  <2>1. UNCHANGED <<cover, star, deleting, grid, rows>>
    BY <1>6
  <2> QED BY <1>0, <2>1, GrowthKeepsStar DEF ServerType
<1> QED
  BY <1>1, <1>2, <1>3, <1>4, <1>5, <1>6, DeletionKeepsStar, ClickKeepsStar, AnswerKeepsStar
  DEF Next, PanelStep

\* Once everything is answered the star is where the event's cover is, unless
\* changes overlapped or an answer was lost since the last that ran alone.
THEOREM StarIsWhereTheCoverIs == Spec => []ShownCoverIsStored
<1>1. StoreInv /\ StarInv => ShownCoverIsStored
  <2> SUFFICES ASSUME StarInv, ClicksUnderWay = {}, deleting = {}, ~doubt
               PROVE  (IF shownCover \in grid THEN shownCover ELSE NoPhoto)
                        = (IF cover \in rows THEN cover ELSE NoPhoto)
    BY DEF ShownCoverIsStored
  <2>1. Settled(shownCover) /\ Gone = {}
    BY DEF StarInv, BetweenClicks, Gone
  <2> QED BY <2>1 DEF Settled, StarAmong
<1> QED BY <1>1, StoreInit, StoreStep, StarInit, StarStep, PTL DEF Spec
=============================================================================
