-------------------------- MODULE RetentionProofs --------------------------
(***************************************************************************)
(* The retention sweep, proved for any set of workspaces and photos, any   *)
(* number of days and crashes, with and without billing.                   *)
(***************************************************************************)
EXTENDS Retention, TLAPS

(***************************************************************************)
(* The two clocks, for every row and every choice of the durations: what   *)
(* they return, and how they relate to each other and to the gate.         *)
(***************************************************************************)
\* The retention clock answers a day or NULL.
LEMMA ClockType ==
    ASSUME NEW ws \in Workspace, NEW day \in Day
    PROVE  /\ AccessEndedAt(ws, day) \in Stamp
           /\ PurgeDueAt(ws, day) \in Stamp
<1>1. AccessEndedAt(ws, day) \in Stamp
  BY DEF AccessEndedAt, Coalesce, PaidTermRanOut, Workspace, Stamp, Day, Null
<1>2. PurgeDueAt(ws, day) \in Stamp
  BY <1>1, DurationsAssumption DEF PurgeDueAt, Stamp, Day, Null
<1> QED BY <1>1, <1>2

\* Being due for deletion means that access ended, and a full grace ago.
LEMMA DueMeansEnded ==
    ASSUME NEW ws \in Workspace, NEW day \in Day, PurgeDue(ws, day)
    PROVE  /\ AccessEnded(ws, day)
           /\ AccessEndedAt(ws, day) + Grace <= day
<1>1. AccessEndedAt(ws, day) \in Stamp
  BY ClockType
<1>2. AccessEndedAt(ws, day) # Null /\ AccessEndedAt(ws, day) + Grace <= day
  BY <1>1 DEF PurgeDue, PurgeDueAt, Null
<1> QED
  BY <1>1, <1>2, DurationsAssumption DEF AccessEnded, Stamp, Day, Null

\* Whoever's photos are counting down cannot upload: whenever the retention
\* clock (packages/db/src/retention.ts) says access has ended, the write gate
\* (subscriptionBlock in apps/web/src/lib/storage.ts) refuses - for every row a
\* workspace can have, however it came about.
THEOREM EndedImpliesBlocked ==
    ASSUME NEW ws \in Workspace, NEW day \in Day, AccessEnded(ws, day)
    PROVE  SubscriptionBlock(ws, day) # "none"
<1>1. CASE ws.subscriptionStatus \in {"past_due", "canceled"}
  BY <1>1 DEF SubscriptionBlock
<1>2. CASE /\ ws.subscriptionStatus \notin {"past_due", "canceled"}
           /\ PaidTermRanOut(ws, day)
  BY <1>2 DEF SubscriptionBlock
<1>3. CASE /\ ws.subscriptionStatus \notin {"past_due", "canceled"}
           /\ ~PaidTermRanOut(ws, day)
  <2>1. /\ ws.plan = "free"
        /\ AccessEndedAt(ws, day) = ws.trialEndsAt
    BY <1>3 DEF AccessEnded, AccessEndedAt
  <2>2. ws.trialEndsAt # Null /\ ws.trialEndsAt <= day
    BY <2>1 DEF AccessEnded
  <2> QED
    BY <1>3, <2>1, <2>2 DEF SubscriptionBlock
<1> QED BY <1>1, <1>2, <1>3

\* A recoverable payment failure never counts as access ending
\* (packages/db/src/retention.ts:26-27), whatever else the row says.
THEOREM PastDueIsNeverDue ==
    ASSUME NEW ws \in Workspace, NEW day \in Day,
           ws.subscriptionStatus = "past_due"
    PROVE  ~AccessEnded(ws, day) /\ ~PurgeDue(ws, day)
BY DEF AccessEnded, PurgeDue, PurgeDueAt, AccessEndedAt

\* The writers write rows.
LEMMA NewWorkspaceType ==
    ASSUME NEW day \in Day, NEW until \in Day
    PROVE  /\ NewTrialWorkspace(day) \in Workspace
           /\ NewProvisionedWorkspace(until, day) \in Workspace
<1>1. NewTrialWorkspace(day) \in Workspace
  BY DurationsAssumption
  DEF NewTrialWorkspace, Workspace, Plans, SubscriptionStatuses, Stamp, Day, Null
<1>2. NewProvisionedWorkspace(until, day) \in Workspace
  BY <1>1
  DEF NewProvisionedWorkspace, Workspace, Plans, SubscriptionStatuses, Stamp, Day, Null
<1> QED BY <1>1, <1>2

LEMMA WriterType ==
    ASSUME NEW ws \in Workspace, NEW day \in Day,
           NEW status \in CashfreeStatuses, NEW next \in Stamp
    PROVE  /\ Renewed(ws, day) \in Workspace
           /\ CanceledByAdmin(ws, day) \in Workspace
           /\ SubscriptionApplied(ws, status, next, day) \in Workspace
           /\ DroppedToFree(ws, day) \in Workspace
           /\ Touched(ws, day) \in Workspace
<1>1. Renewed(ws, day) \in Workspace
  <2>1. day + Term \in Day /\ day + Term # Null
    BY DurationsAssumption DEF Day, Null
  <2>2. day + Term \in Stamp
    BY <2>1 DEF Stamp
  <2> QED
    BY <2>2 DEF Renewed, Workspace, SubscriptionStatuses
<1>2. CanceledByAdmin(ws, day) \in Workspace
  BY DEF CanceledByAdmin, Workspace, Plans, SubscriptionStatuses, Stamp, Day, Null
<1>3. SubscriptionApplied(ws, status, next, day) \in Workspace
  <2>1. MapSubscriptionStatus(status) \in SubscriptionStatuses
    BY DEF MapSubscriptionStatus, SubscriptionStatuses, CashfreeStatuses
  <2>2. (ws.cancelAtPeriodEnd /\ MapSubscriptionStatus(status) # "active") \in BOOLEAN
    OBVIOUS
  <2> QED
    BY <2>1, <2>2 DEF SubscriptionApplied, Workspace, Plans, Stamp, Day, Null
<1>4. DroppedToFree(ws, day) \in Workspace
  BY DEF DroppedToFree, Workspace, Plans, SubscriptionStatuses, Stamp, Day, Null
<1>5. Touched(ws, day) \in Workspace
  BY DEF Touched, Workspace, Plans, SubscriptionStatuses, Stamp, Day, Null
<1> QED BY <1>1, <1>2, <1>3, <1>4, <1>5

-----------------------------------------------------------------------------
(***************************************************************************)
(* Type correctness.                                                       *)
(***************************************************************************)
LEMMA DueRowType ==
    ASSUME TypeOK, NEW w \in Workspaces
    PROVE  DueRowOf(w) \in DueRow
<1>1. workspace[w] \in Workspace /\ today \in Day
  BY DEF TypeOK
<1>2. PurgeDueAt(workspace[w], today) \in Stamp
  BY <1>1, ClockType
<1> QED
  BY <1>2 DEF DueRowOf, DueRow

LEMMA BeginType ==
    ASSUME TypeOK, NEW next \in Phases, NEW candidates \in SUBSET Workspaces,
           Begin(next, candidates)
    PROVE  TypeOK'
<1>1. todo' \subseteq DueRow
  BY DueRowType DEF Begin
<1> QED
  BY <1>1 DEF Begin, TypeOK, store, derivation, history

LEMMA RowWrittenType ==
    ASSUME TypeOK, NEW w \in Workspaces, NEW ws \in Workspace,
           RowWritten(w, ws), dropping' \subseteq Workspaces, backdated' \subseteq Workspaces
    PROVE  TypeOK'
<1>1. workspace' \in [Workspaces -> Workspace]
  BY DEF RowWritten, TypeOK
<1>2. promised' \in [Workspaces -> Stamp]
  BY DEF RowWritten, TypeOK, Stamp
<1> QED
  BY <1>1, <1>2 DEF RowWritten, TypeOK, store, derivation, worker

LEMMA SweepType == TypeOK /\ Sweep => TypeOK'
<1> SUFFICES ASSUME TypeOK, Sweep PROVE TypeOK'
  OBVIOUS
<1>1. CASE StartSweep
  <2>1. FindNeedingFirstWarning \in SUBSET Workspaces
    BY DEF FindNeedingFirstWarning
  <2> QED BY <1>1, <2>1, BeginType DEF StartSweep, Phases
<1>2. CASE StartFinalWarnings
  <2>1. FindNeedingFinalWarning \in SUBSET Workspaces
    BY DEF FindNeedingFinalWarning
  <2> QED BY <1>2, <2>1, BeginType DEF StartFinalWarnings, Phases
<1>3. CASE StartPurge
  <2>1. FindDueForPurge \in SUBSET Workspaces
    BY DEF FindDueForPurge
  <2> QED BY <1>3, <2>1, BeginType DEF StartPurge, Phases
<1>4. CASE EndSweep
  BY <1>4 DEF EndSweep, TypeOK, Phases, store, derivation, history
<1>5. CASE SendWarning
  <2>1. PICK due \in todo :
          /\ todo' = todo \ {due}
          /\ row' = due.id
          /\ promised' = [promised EXCEPT ![due.id] = due.deleteOn]
          /\ notified' = notified \cup {due.id}
    BY <1>5 DEF SendWarning
  <2>2. due.id \in Workspaces /\ due.deleteOn \in Stamp
    BY DEF TypeOK, DueRow
  <2>3. promised' \in [Workspaces -> Stamp]
    BY <2>1, <2>2 DEF TypeOK
  <2> QED
    BY <1>5, <2>1, <2>2, <2>3 DEF SendWarning, TypeOK, Steps, store, derivation
<1>6. CASE SendFails
  BY <1>6 DEF SendFails, TypeOK, store, derivation, history
<1>7. CASE StampWarning
  <2>1. \A w \in Workspaces : Stamped(workspace[w]) \in Workspace
    BY DEF TypeOK, Stamped, Workspace
  <2>2. workspace' \in [Workspaces -> Workspace]
    BY <1>7, <2>1 DEF StampWarning, TypeOK
  <2> QED
    BY <1>7, <2>2 DEF StampWarning, TypeOK, Steps, store, derivation, history
<1>8. CASE StampFails
  BY <1>8 DEF StampFails, TypeOK, Steps, store, derivation, history
<1>9. CASE ListAssets
  <2>1. PICK due \in todo :
          /\ todo' = todo \ {due}
          /\ picked' = assets[due.id]
          /\ IF assets[due.id] = {}
             THEN UNCHANGED <<row, step>>
             ELSE row' = due.id /\ step' = "variants"
    BY <1>9 DEF ListAssets
  <2>2. due.id \in Workspaces
    BY DEF TypeOK, DueRow
  <2>3. row' \in Workspaces \cup {NoRow} /\ step' \in Steps /\ picked' \subseteq Photos
    BY <2>1, <2>2 DEF TypeOK, Steps
  <2> QED
    BY <1>9, <2>1, <2>3 DEF ListAssets, TypeOK, store, derivation, history
<1>10. CASE DeleteObjects
  <2>1. row' \in Workspaces \cup {NoRow} /\ step' \in Steps
        /\ picked' \subseteq Photos /\ objects' \subseteq Photos
        /\ listed' \subseteq Photos /\ derived' \subseteq Photos
    BY <1>10 DEF DeleteObjects, AbandonWorkspace, TypeOK, Steps
  <2> QED
    BY <1>10, <2>1 DEF DeleteObjects, TypeOK, history
<1>11. CASE DeleteRows
  <2>1. assets' \in [Workspaces -> SUBSET Photos]
    BY <1>11 DEF DeleteRows, TypeOK
  <2>2. \A w \in Workspaces : Purged(workspace[w], today) \in Workspace
    BY DEF Purged, TypeOK, Workspace
  <2>3. workspace' \in [Workspaces -> Workspace]
    BY <1>11, <2>2 DEF DeleteRows, TypeOK
  <2> QED
    BY <1>11, <2>1, <2>3 DEF DeleteRows, AbandonWorkspace, TypeOK, Steps, history
<1>12. CASE PurgeFails
  BY <1>12 DEF PurgeFails, AbandonWorkspace, TypeOK, Steps, store, derivation, history
<1>13. CASE ListVariants
  BY <1>13 DEF ListVariants, TypeOK, Steps, history
<1> QED
  BY <1>1, <1>2, <1>3, <1>4, <1>5, <1>6, <1>7, <1>8, <1>9, <1>10, <1>11, <1>12, <1>13
  DEF Sweep

LEMMA WriterStepType ==
    ASSUME TypeOK, NEW w \in Workspaces, Writers(w)
    PROVE  TypeOK'
<1> workspace[w] \in Workspace /\ today \in Day
  BY DEF TypeOK
<1> Null \in Stamp
  BY DEF Stamp
<1>1. ASSUME NEW p \in Photos, GrantUpload(w, p) PROVE TypeOK'
  BY <1>1 DEF GrantUpload, TypeOK, derivation, worker, history
<1>2. ASSUME NEW p \in Photos, RegisterUpload(w, p) PROVE TypeOK'
  <2>1. Touched(workspace[w], today) \in Workspace
    BY DEF Touched, Workspace, Stamp
  <2> QED BY <1>2, <2>1 DEF RegisterUpload, TypeOK, derivation, worker, history
<1>3. ASSUME NEW p \in Photos, DeleteAsset(w, p) PROVE TypeOK'
  <2>1. Touched(workspace[w], today) \in Workspace
    BY DEF Touched, Workspace, Stamp
  <2> QED BY <1>3, <2>1 DEF DeleteAsset, TypeOK, worker, history
<1>4. CASE UpdateWorkspace(w)
  <2>1. Touched(workspace[w], today) \in Workspace
    BY DEF Touched, Workspace, Stamp
  <2> QED BY <1>4, <2>1 DEF UpdateWorkspace, TypeOK, store, derivation, worker, history
<1>5. CASE ExtendAccount(w)
  BY <1>5, WriterType, RowWrittenType DEF ExtendAccount, TypeOK, CashfreeStatuses
<1>6. CASE CancelAccount(w)
  BY <1>6, WriterType, RowWrittenType DEF CancelAccount, TypeOK, CashfreeStatuses
<1>7. CASE Subscribe(w)
  <2>1. [Touched(workspace[w], today) EXCEPT !.hasSubscription = TRUE] \in Workspace
    BY DEF Touched, Workspace, Stamp
  <2> QED BY <1>7, <2>1, RowWrittenType DEF Subscribe, TypeOK
<1>8. CASE ApplySubscription(w)
  <2>1. PICK status \in CashfreeStatuses, next \in NextScheduleDates :
          RowWritten(w, SubscriptionApplied(workspace[w], status, next, today))
    BY <1>8 DEF ApplySubscription
  <2>2. next \in Stamp
    BY DEF NextScheduleDates, Stamp, Day
  <2>3. backdated' \subseteq Workspaces /\ dropping' \subseteq Workspaces
    BY <1>8 DEF ApplySubscription, TypeOK
  <2> QED
    BY <2>1, <2>2, <2>3, WriterType, RowWrittenType
<1>9. CASE ScheduleCancel(w)
  <2>1. [Touched(workspace[w], today) EXCEPT !.cancelAtPeriodEnd = TRUE] \in Workspace
    BY DEF Touched, Workspace, Stamp
  <2> QED BY <1>9, <2>1, RowWrittenType DEF ScheduleCancel, TypeOK
<1>10. CASE DropToFree(w)
  <2>1. DroppedToFree(workspace[w], today) \in Workspace
    BY WriterType DEF CashfreeStatuses
  <2>2. dropping' \subseteq Workspaces /\ backdated' \subseteq Workspaces
    BY <1>10 DEF DropToFree, TypeOK
  <2> QED BY <1>10, <2>1, <2>2, RowWrittenType DEF DropToFree
<1>11. CASE DropFails(w)
  BY <1>11 DEF DropFails, TypeOK, store, derivation, worker, history
<1> QED
  BY <1>1, <1>2, <1>3, <1>4, <1>5, <1>6, <1>7, <1>8, <1>9, <1>10, <1>11 DEF Writers

LEMMA InitType == Init => TypeOK
<1> SUFFICES ASSUME Init PROVE TypeOK
  OBVIOUS
<1>1. 0 \in Day /\ Term \in Day /\ Null \in Stamp
  BY DurationsAssumption DEF Day, Stamp
<1>2. workspace \in [Workspaces -> Workspace]
  BY <1>1, NewWorkspaceType DEF Init
<1> QED
  BY <1>1, <1>2 DEF Init, TypeOK, Phases, Steps, JobSteps

LEMMA EmbedJobType ==
    ASSUME TypeOK, NEW p \in Photos, EmbedJob(p)
    PROVE  TypeOK'
<1>1. CASE StartJob(p)
  BY <1>1 DEF StartJob, TypeOK, JobSteps, worker, history
<1>2. CASE DropVariants(p)
  BY <1>2 DEF DropVariants, TypeOK, JobSteps, worker, history
<1>3. CASE PutVariant(p)
  BY <1>3 DEF PutVariant, Later, TypeOK, JobSteps, worker, history
<1>4. CASE RecordVariant(p)
  <2>1. variants' \subseteq Photos /\ late' \subseteq Photos
    BY <1>4 DEF RecordVariant, Later, TypeOK
  <2> QED BY <1>4, <2>1 DEF RecordVariant, TypeOK, JobSteps, worker, history
<1>5. CASE JobFails(p)
  BY <1>5 DEF JobFails, TypeOK, JobSteps, worker, history
<1> QED BY <1>1, <1>2, <1>3, <1>4, <1>5 DEF EmbedJob

LEMMA NextType == TypeOK /\ [Next]_vars => TypeOK'
<1> SUFFICES ASSUME TypeOK, [Next]_vars PROVE TypeOK'
  OBVIOUS
<1>1. CASE Sweep
  BY <1>1, SweepType
<1>2. ASSUME NEW w \in Workspaces, Writers(w) PROVE TypeOK'
  BY <1>2, WriterStepType
<1>3. CASE StartBillingSweep
  BY <1>3 DEF StartBillingSweep, FindDueCancellations, TypeOK, store, derivation, worker, history
<1>4. CASE Crash
  BY <1>4 DEF Crash, AbandonWorkspace, TypeOK, Phases, Steps, JobSteps, history
<1>5. CASE Tick
  BY <1>5 DEF Tick, TypeOK, Day, store, derivation, worker, history
<1>6. CASE UNCHANGED vars
  BY <1>6 DEF vars, TypeOK, store, derivation, worker, history
<1>7. ASSUME NEW p \in Photos, EmbedJob(p) PROVE TypeOK'
  BY <1>7, EmbedJobType
<1> QED BY <1>1, <1>2, <1>3, <1>4, <1>5, <1>6, <1>7 DEF Next

\* Every reachable state is a state of the database, the bucket and the worker.
THEOREM TypeCorrect == Spec => []TypeOK
<1>1. Init => TypeOK
  BY InitType
<1>2. TypeOK /\ [Next]_vars => TypeOK'
  BY NextType
<1> QED BY <1>1, <1>2, PTL DEF Spec

\* The write gate refuses whoever's retention clock is running, in every
\* reachable state (EndedImpliesBlocked, for the rows the writers produce).
THEOREM GateCoversClock == Spec => []EndedIsBlocked
<1>1. TypeOK => EndedIsBlocked
  BY EndedImpliesBlocked DEF TypeOK, EndedIsBlocked
<1> QED BY <1>1, TypeCorrect, PTL

-----------------------------------------------------------------------------
(***************************************************************************)
(* Objects before rows, and no silent purge: the inductive invariant.      *)
(* Asset ids are drawn once, so an id on the purge's list can never be     *)
(* registered again; and the warned mark the purge looks for is only ever  *)
(* written after a mail, and read before it can be lost.                   *)
(***************************************************************************)
IdsDisjoint ==
    /\ \A w \in Workspaces : fresh \cap granted[w] = {} /\ fresh \cap assets[w] = {}
    /\ \A v, w \in Workspaces : granted[v] \cap assets[w] = {}
    /\ \A v, w \in Workspaces : v # w => granted[v] \cap granted[w] = {}
    /\ fresh \cap picked = {}
    /\ \A w \in Workspaces : granted[w] \cap picked = {}

StepFitsPhase ==
    /\ step = "stamp" => phase \in {"first", "final"}
    /\ step \in {"variants", "delete", "commit"} => phase = "purge"
    /\ step # "next" => row \in Workspaces

WarnedWasNotified ==
    /\ \A w \in Workspaces : workspace[w].retentionWarned => w \in notified
    /\ phase = "purge" => \A due \in todo : due.id \in notified
    /\ step # "next" => row \in notified

OriginalsGone == step = "commit" => picked \cap objects = {}

SweepInv == IdsDisjoint /\ StepFitsPhase /\ WarnedWasNotified /\ OriginalsGone

LEMMA InitSweepInv == Init => SweepInv
<1> SUFFICES ASSUME Init PROVE SweepInv
  OBVIOUS
<1>1. /\ NewTrialWorkspace(0).retentionWarned = FALSE
      /\ NewProvisionedWorkspace(Term, 0).retentionWarned = FALSE
  BY DEF NewTrialWorkspace, NewProvisionedWorkspace
<1>2. \A w \in Workspaces : workspace[w].retentionWarned = FALSE
  BY <1>1 DEF Init
<1> QED
  BY <1>2 DEF Init, SweepInv, IdsDisjoint, StepFitsPhase, WarnedWasNotified,
              OriginalsGone

LEMMA SweepKeepsInv == TypeOK /\ SweepInv /\ Sweep => SweepInv'
<1> SUFFICES ASSUME TypeOK, SweepInv, Sweep PROVE SweepInv'
  OBVIOUS
<1> USE DEF SweepInv
<1>1. ASSUME NEW next \in {"first", "final"}, NEW candidates, Begin(next, candidates),
             step = "next"
      PROVE  SweepInv'
  BY <1>1 DEF Begin, IdsDisjoint, StepFitsPhase, WarnedWasNotified,
              OriginalsGone, store, history
<1>2. CASE StartSweep
  <2>1. step = "next"
    BY <1>2 DEF StartSweep, StepFitsPhase, TypeOK, Steps
  <2> QED BY <1>1, <1>2, <2>1 DEF StartSweep
<1>3. CASE StartFinalWarnings
  BY <1>1, <1>3 DEF StartFinalWarnings
<1>4. CASE StartPurge
  <2>1. \A due \in todo' : due.id \in notified
    BY <1>4 DEF StartPurge, Begin, FindDueForPurge, DueRowOf, WarnedWasNotified
  <2> QED
    BY <1>4, <2>1 DEF StartPurge, Begin, IdsDisjoint, StepFitsPhase, WarnedWasNotified,
                      OriginalsGone, store, history
<1>5. CASE EndSweep
  BY <1>5 DEF EndSweep, IdsDisjoint, StepFitsPhase, WarnedWasNotified,
              OriginalsGone, store, history
<1>6. CASE SendWarning
  <2>1. PICK due \in todo :
          row' = due.id /\ notified' = notified \cup {due.id}
    BY <1>6 DEF SendWarning
  <2>2. due.id \in Workspaces
    BY DEF TypeOK, DueRow
  <2> QED
    BY <1>6, <2>1, <2>2 DEF SendWarning, IdsDisjoint, StepFitsPhase, WarnedWasNotified,
                            OriginalsGone, store
<1>7. CASE SendFails
  BY <1>7 DEF SendFails, IdsDisjoint, StepFitsPhase, WarnedWasNotified,
              OriginalsGone, store, history
<1>8. CASE StampWarning
  <2>1. row \in notified /\ row \in Workspaces
    BY <1>8 DEF StampWarning, WarnedWasNotified, StepFitsPhase
  <2>2. \A w \in Workspaces : workspace'[w].retentionWarned => w \in notified
    <3> TAKE w \in Workspaces
    <3>1. CASE w = row
      BY <2>1, <3>1
    <3>2. CASE w # row
      BY <1>8, <3>2 DEF StampWarning, WarnedWasNotified, TypeOK
    <3> QED BY <3>1, <3>2
  <2> QED
    BY <1>8, <2>2 DEF StampWarning, IdsDisjoint, StepFitsPhase, WarnedWasNotified,
                      OriginalsGone, store, history
<1>9. CASE StampFails
  BY <1>9 DEF StampFails, IdsDisjoint, StepFitsPhase, WarnedWasNotified,
              OriginalsGone, store, history
<1>10. CASE ListAssets
  <2>1. PICK due \in todo :
          /\ todo' = todo \ {due}
          /\ picked' = assets[due.id]
          /\ IF assets[due.id] = {}
             THEN UNCHANGED <<row, step>>
             ELSE row' = due.id /\ step' = "variants"
    BY <1>10 DEF ListAssets
  <2>2. due.id \in Workspaces /\ due.id \in notified
    BY <1>10 DEF TypeOK, DueRow, ListAssets, WarnedWasNotified
  <2>3. IdsDisjoint'
    BY <1>10, <2>1, <2>2 DEF ListAssets, IdsDisjoint, store
  <2>4. StepFitsPhase' /\ WarnedWasNotified' /\ OriginalsGone'
    BY <1>10, <2>1, <2>2 DEF ListAssets, StepFitsPhase, WarnedWasNotified,
                             OriginalsGone, store, history
  <2> QED BY <2>3, <2>4
<1>11. CASE DeleteObjects
  BY <1>11 DEF DeleteObjects, AbandonWorkspace, IdsDisjoint, StepFitsPhase, WarnedWasNotified,
               OriginalsGone, history
<1>12. CASE DeleteRows
  <2>1. IdsDisjoint'
    BY <1>12 DEF DeleteRows, AbandonWorkspace, IdsDisjoint, TypeOK
  <2>2. \A w \in Workspaces : workspace'[w].retentionWarned = workspace[w].retentionWarned
    BY <1>12 DEF DeleteRows, Purged, TypeOK, Workspace
  <2> QED
    BY <1>12, <2>1, <2>2 DEF DeleteRows, AbandonWorkspace, StepFitsPhase, WarnedWasNotified,
                             OriginalsGone, history
<1>13. CASE PurgeFails
  BY <1>13 DEF PurgeFails, AbandonWorkspace, IdsDisjoint, StepFitsPhase, WarnedWasNotified,
               OriginalsGone, store, history
<1>14. CASE ListVariants
  BY <1>14 DEF ListVariants, IdsDisjoint, StepFitsPhase, WarnedWasNotified,
               OriginalsGone, history
<1> QED
  BY <1>2, <1>3, <1>4, <1>5, <1>6, <1>7, <1>8, <1>9, <1>10, <1>11, <1>12, <1>13, <1>14
  DEF Sweep

\* A writer of the row never sets the warned mark.
LEMMA WritersNeverWarn ==
    ASSUME NEW ws \in Workspace, NEW day, NEW status, NEW next
    PROVE  /\ Renewed(ws, day).retentionWarned => ws.retentionWarned
           /\ CanceledByAdmin(ws, day).retentionWarned = ws.retentionWarned
           /\ SubscriptionApplied(ws, status, next, day).retentionWarned = ws.retentionWarned
           /\ DroppedToFree(ws, day).retentionWarned = ws.retentionWarned
           /\ Touched(ws, day).retentionWarned = ws.retentionWarned
BY DEF Renewed, CanceledByAdmin, SubscriptionApplied, DroppedToFree, Touched, Workspace

\* A row written while the sweep runs, without a new warned mark, is harmless.
LEMMA RowWrittenKeepsInv ==
    ASSUME TypeOK, SweepInv, NEW w \in Workspaces, NEW ws, RowWritten(w, ws),
           ws.retentionWarned => workspace[w].retentionWarned
    PROVE  SweepInv'
<1>1. \A v \in Workspaces : workspace'[v].retentionWarned => v \in notified
  <2> TAKE v \in Workspaces
  <2>1. CASE v = w
    BY <2>1 DEF RowWritten, SweepInv, WarnedWasNotified, TypeOK
  <2>2. CASE v # w
    BY <2>2 DEF RowWritten, SweepInv, WarnedWasNotified, TypeOK
  <2> QED BY <2>1, <2>2
<1> QED
  BY <1>1 DEF RowWritten, SweepInv, IdsDisjoint, StepFitsPhase, WarnedWasNotified,
              OriginalsGone, store, worker

LEMMA WritersKeepInv ==
    ASSUME TypeOK, SweepInv, NEW w \in Workspaces, Writers(w)
    PROVE  SweepInv'
<1> USE DEF SweepInv
<1>0. workspace[w] \in Workspace
  BY DEF TypeOK
<1>1. ASSUME NEW p \in Photos, GrantUpload(w, p) PROVE SweepInv'
  <2>1. IdsDisjoint'
    BY <1>1 DEF GrantUpload, IdsDisjoint, TypeOK, worker
  <2> QED
    BY <1>1, <2>1 DEF GrantUpload, StepFitsPhase, WarnedWasNotified,
                      OriginalsGone, worker, history
<1>2. ASSUME NEW p \in Photos, RegisterUpload(w, p) PROVE SweepInv'
  <2>1. IdsDisjoint'
    BY <1>2 DEF RegisterUpload, IdsDisjoint, TypeOK, worker
  <2>2. \A v \in Workspaces : workspace'[v].retentionWarned = workspace[v].retentionWarned
    BY <1>2, <1>0, WritersNeverWarn DEF RegisterUpload, TypeOK
  <2>3. OriginalsGone'
    BY <1>2 DEF RegisterUpload, OriginalsGone, IdsDisjoint, worker
  <2> QED
    BY <1>2, <2>1, <2>2, <2>3 DEF RegisterUpload, StepFitsPhase, WarnedWasNotified,
                                  worker, history
<1>3. ASSUME NEW p \in Photos, DeleteAsset(w, p) PROVE SweepInv'
  <2>1. IdsDisjoint'
    BY <1>3 DEF DeleteAsset, IdsDisjoint, TypeOK, worker
  <2>2. \A v \in Workspaces : workspace'[v].retentionWarned = workspace[v].retentionWarned
    BY <1>3, <1>0, WritersNeverWarn DEF DeleteAsset, TypeOK
  <2> QED
    BY <1>3, <2>1, <2>2 DEF DeleteAsset, StepFitsPhase, WarnedWasNotified,
                            OriginalsGone, worker, history
<1>4. CASE UpdateWorkspace(w)
  <2>1. \A v \in Workspaces : workspace'[v].retentionWarned = workspace[v].retentionWarned
    BY <1>4, <1>0, WritersNeverWarn DEF UpdateWorkspace, TypeOK
  <2> QED
    BY <1>4, <2>1 DEF UpdateWorkspace, IdsDisjoint, StepFitsPhase, WarnedWasNotified,
                      OriginalsGone, store, worker, history
<1>5. CASE ExtendAccount(w)
  BY <1>0, <1>5, WritersNeverWarn, RowWrittenKeepsInv DEF ExtendAccount
<1>6. CASE CancelAccount(w)
  BY <1>0, <1>6, WritersNeverWarn, RowWrittenKeepsInv DEF CancelAccount
<1>7. CASE Subscribe(w)
  <2>1. [Touched(workspace[w], today) EXCEPT !.hasSubscription = TRUE].retentionWarned
          = workspace[w].retentionWarned
    BY <1>0 DEF Touched, Workspace
  <2> QED BY <1>7, <2>1, RowWrittenKeepsInv DEF Subscribe
<1>8. CASE ApplySubscription(w)
  BY <1>0, <1>8, WritersNeverWarn, RowWrittenKeepsInv DEF ApplySubscription
<1>9. CASE ScheduleCancel(w)
  <2>1. [Touched(workspace[w], today) EXCEPT !.cancelAtPeriodEnd = TRUE].retentionWarned
          = workspace[w].retentionWarned
    BY <1>0 DEF Touched, Workspace
  <2> QED BY <1>9, <2>1, RowWrittenKeepsInv DEF ScheduleCancel
<1>10. CASE DropToFree(w)
  BY <1>0, <1>10, WritersNeverWarn, RowWrittenKeepsInv DEF DropToFree
<1>11. CASE DropFails(w)
  BY <1>11 DEF DropFails, IdsDisjoint, StepFitsPhase, WarnedWasNotified,
               OriginalsGone, store, worker, history
<1> QED
  BY <1>1, <1>2, <1>3, <1>4, <1>5, <1>6, <1>7, <1>8, <1>9, <1>10, <1>11 DEF Writers

\* An embed job touches variants, which these four say nothing of.
LEMMA EmbedJobQuiet ==
    ASSUME NEW p \in Photos, EmbedJob(p)
    PROVE  UNCHANGED <<today, workspace, fresh, granted, assets, objects,
                       worker, dropping, crashes, history>>
BY DEF EmbedJob, StartJob, DropVariants, PutVariant, RecordVariant, JobFails

LEMMA NextKeepsInv == TypeOK /\ SweepInv /\ [Next]_vars => SweepInv'
<1> SUFFICES ASSUME TypeOK, SweepInv, [Next]_vars PROVE SweepInv'
  OBVIOUS
<1> USE DEF SweepInv, IdsDisjoint, StepFitsPhase, WarnedWasNotified, OriginalsGone
<1>1. CASE Sweep
  BY <1>1, SweepKeepsInv
<1>2. ASSUME NEW w \in Workspaces, Writers(w) PROVE SweepInv'
  BY <1>2, WritersKeepInv
<1>3. CASE StartBillingSweep
  BY <1>3 DEF StartBillingSweep, store, worker, history
<1>4. CASE Crash
  BY <1>4 DEF Crash, AbandonWorkspace, history
<1>5. CASE Tick
  BY <1>5 DEF Tick, store, worker, history
<1>6. CASE UNCHANGED vars
  BY <1>6 DEF vars, store, worker, history
<1>7. ASSUME NEW p \in Photos, EmbedJob(p) PROVE SweepInv'
  BY <1>7, EmbedJobQuiet DEF worker, history
<1> QED BY <1>1, <1>2, <1>3, <1>4, <1>5, <1>6, <1>7 DEF Next

LEMMA SweepInvariant == Spec => [](TypeOK /\ SweepInv)
<1>1. Init => TypeOK /\ SweepInv
  BY InitType, InitSweepInv
<1>2. TypeOK /\ SweepInv /\ [Next]_vars => (TypeOK /\ SweepInv)'
  BY NextType, NextKeepsInv
<1> QED BY <1>1, <1>2, PTL DEF Spec

(***************************************************************************)
(* The variants: from the second query on, every variant row of a photo on *)
(* the list is on the list of variants as well, or came later; and once    *)
(* the objects are gone, a variant on the list has its object only if it   *)
(* came later.                                                             *)
(***************************************************************************)
VariantsAccounted ==
    /\ step \in {"delete", "commit"} => picked \cap variants \subseteq listed \cup late
    /\ step = "commit" => listed \cap derived \subseteq late

\* Steps beside the purge, which drop rows and objects or note what they add.
LEMMA BesidePurge ==
    ASSUME VariantsAccounted, UNCHANGED <<step, picked, listed>>,
           variants' \subseteq variants \cup late', derived' \subseteq derived \cup late',
           late \subseteq late'
    PROVE  VariantsAccounted'
BY DEF VariantsAccounted

LEMMA VariantsStep == TypeOK /\ SweepInv /\ VariantsAccounted /\ [Next]_vars
                        => VariantsAccounted'
<1> SUFFICES ASSUME TypeOK, SweepInv, VariantsAccounted, [Next]_vars
             PROVE  VariantsAccounted'
  OBVIOUS
<1>1. ASSUME step' \notin {"delete", "commit"} PROVE VariantsAccounted'
  BY <1>1 DEF VariantsAccounted
<1>2. ASSUME UNCHANGED <<step, picked, listed, variants, derived, late>>
      PROVE  VariantsAccounted'
  BY <1>2 DEF VariantsAccounted
<1>3. CASE Sweep
  <2>1. CASE StartSweep \/ StartFinalWarnings \/ StartPurge \/ EndSweep \/ SendFails
    BY <1>2, <2>1 DEF StartSweep, StartFinalWarnings, StartPurge, Begin, EndSweep, SendFails,
                      store, derivation
  <2>2. CASE SendWarning \/ StampWarning \/ StampFails
    BY <1>1, <2>2 DEF SendWarning, StampWarning, StampFails
  <2>3. CASE ListAssets
    BY <1>1, <2>3 DEF ListAssets
  <2>4. CASE ListVariants
    BY <2>4 DEF ListVariants, VariantsAccounted
  <2>5. CASE DeleteObjects
    <3>1. PICK originals \in SUBSET picked, copies \in SUBSET listed :
            /\ derived' = derived \ copies
            /\ IF originals = picked /\ copies = listed
               THEN step' = "commit" /\ UNCHANGED <<row, picked, listed>>
               ELSE AbandonWorkspace
      BY <2>5 DEF DeleteObjects
    <3>2. step = "delete" /\ UNCHANGED <<variants, late>>
      BY <2>5 DEF DeleteObjects
    <3>3. CASE originals = picked /\ copies = listed
      BY <3>1, <3>2, <3>3 DEF VariantsAccounted
    <3>4. CASE ~(originals = picked /\ copies = listed)
      BY <1>1, <3>1, <3>4 DEF AbandonWorkspace
    <3> QED BY <3>3, <3>4
  <2>6. CASE DeleteRows \/ PurgeFails
    BY <1>1, <2>6 DEF DeleteRows, PurgeFails, AbandonWorkspace
  <2> QED BY <1>3, <2>1, <2>2, <2>3, <2>4, <2>5, <2>6 DEF Sweep
<1>4. ASSUME NEW w \in Workspaces, Writers(w) PROVE VariantsAccounted'
  <2>1. ASSUME NEW p \in Photos, DeleteAsset(w, p) PROVE VariantsAccounted'
    BY <2>1, BesidePurge DEF DeleteAsset, worker
  <2>2. ASSUME NEW p \in Photos, GrantUpload(w, p) \/ RegisterUpload(w, p)
        PROVE  VariantsAccounted'
    BY <1>2, <2>2 DEF GrantUpload, RegisterUpload, worker, derivation
  <2>3. CASE UpdateWorkspace(w) \/ DropFails(w)
    BY <1>2, <2>3 DEF UpdateWorkspace, DropFails, worker, store, derivation
  <2>4. ASSUME NEW ws, RowWritten(w, ws) PROVE VariantsAccounted'
    BY <1>2, <2>4 DEF RowWritten, worker, store, derivation
  <2> QED
    BY <1>4, <2>1, <2>2, <2>3, <2>4
    DEF Writers, ExtendAccount, CancelAccount, Subscribe, ApplySubscription, ScheduleCancel,
        DropToFree
<1>5. ASSUME NEW p \in Photos, EmbedJob(p) PROVE VariantsAccounted'
  <2>1. CASE StartJob(p) \/ JobFails(p)
    BY <1>2, <2>1 DEF StartJob, JobFails, worker
  <2>2. CASE DropVariants(p)
    BY <2>2, BesidePurge DEF DropVariants, worker
  <2>3. CASE PutVariant(p)
    <3>1. CASE step \in {"delete", "commit"}
      BY <2>3, <3>1, BesidePurge DEF PutVariant, Later, worker
    <3>2. CASE step \notin {"delete", "commit"}
      BY <1>1, <2>3, <3>2 DEF PutVariant, worker
    <3> QED BY <3>1, <3>2
  <2>4. CASE RecordVariant(p)
    <3>1. CASE step \in {"delete", "commit"}
      BY <2>4, <3>1, BesidePurge DEF RecordVariant, Later, worker
    <3>2. CASE step \notin {"delete", "commit"}
      BY <1>1, <2>4, <3>2 DEF RecordVariant, worker
    <3> QED BY <3>1, <3>2
  <2> QED BY <1>5, <2>1, <2>2, <2>3, <2>4 DEF EmbedJob
<1>6. CASE StartBillingSweep \/ Tick
  BY <1>2, <1>6 DEF StartBillingSweep, Tick, worker, store, derivation
<1>7. CASE Crash
  BY <1>1, <1>7 DEF Crash, AbandonWorkspace
<1>8. CASE UNCHANGED vars
  BY <1>2, <1>8 DEF vars, worker, store, derivation
<1> QED BY <1>3, <1>4, <1>5, <1>6, <1>7, <1>8 DEF Next

\* The purge (purgeWorkspacePhotos) deletes no asset row whose original is still
\* in the bucket, and no variant row whose object is - but for a variant an
\* embed job stored or recorded after the purge's query for the variants.
THEOREM ObjectsBeforeRows == Spec => []PurgeOrphansNothing
<1>1. Init => VariantsAccounted
  BY DEF Init, VariantsAccounted
<1>2. TypeOK /\ SweepInv /\ VariantsAccounted /\ [Next]_vars => VariantsAccounted'
  BY VariantsStep
<1>3. SweepInv /\ VariantsAccounted => PurgeOrphansNothing
  BY DEF SweepInv, OriginalsGone, VariantsAccounted, PurgeOrphansNothing
<1> QED BY <1>1, <1>2, <1>3, SweepInvariant, PTL DEF Spec

\* Nobody's photos are deleted by the sweep who was never sent a warning.
THEOREM NeverSilent == Spec => NoSilentPurge
<1>1. SweepInv /\ [Next]_vars
        => [\A w \in Workspaces : Purges(w) => w \in notified]_vars
  BY DEF SweepInv, WarnedWasNotified, Purges
<1> QED BY <1>1, SweepInvariant, PTL DEF Spec, NoSilentPurge

-----------------------------------------------------------------------------
(***************************************************************************)
(* The paid period is respected: the branch that reads trial_ends_at is    *)
(* only reached by rows that never had a paid period.                      *)
(***************************************************************************)
NeverPaid(ws) ==
    ws.plan = "free" /\ ws.subscriptionStatus \in {"trialing", "incomplete"}
        => ws.currentPeriodEnd = Null

TrialsNeverPaid == \A w \in Workspaces : NeverPaid(workspace[w])

LEMMA DueRespectsPeriod ==
    ASSUME NEW ws \in Workspace, NEW day \in Day, NeverPaid(ws), PurgeDue(ws, day),
           ws.currentPeriodEnd # Null
    PROVE  ws.currentPeriodEnd + Grace <= day
<1>1. AccessEndedAt(ws, day) # Null /\ AccessEndedAt(ws, day) + Grace <= day
  BY DueMeansEnded DEF AccessEnded
<1>2. AccessEndedAt(ws, day) = ws.currentPeriodEnd
  BY <1>1 DEF AccessEndedAt, NeverPaid, Coalesce, PaidTermRanOut
<1> QED BY <1>1, <1>2

LEMMA WritersKeepNeverPaid ==
    ASSUME NEW ws \in Workspace, NeverPaid(ws), NEW day, NEW status, NEW next
    PROVE  /\ NeverPaid(Renewed(ws, day))
           /\ NeverPaid(CanceledByAdmin(ws, day))
           /\ NeverPaid(SubscriptionApplied(ws, status, next, day))
           /\ NeverPaid(DroppedToFree(ws, day))
           /\ NeverPaid(Touched(ws, day))
           /\ NeverPaid(Purged(ws, day))
           /\ NeverPaid([Touched(ws, day) EXCEPT !.hasSubscription = TRUE])
           /\ NeverPaid([Touched(ws, day) EXCEPT !.cancelAtPeriodEnd = TRUE])
BY DEF NeverPaid, Renewed, CanceledByAdmin, SubscriptionApplied, DroppedToFree,
       Touched, Purged, Workspace

LEMMA PaidStep == TypeOK /\ TrialsNeverPaid /\ [Next]_vars => TrialsNeverPaid'
<1> SUFFICES ASSUME TypeOK, TrialsNeverPaid, [Next]_vars PROVE TrialsNeverPaid'
  OBVIOUS
<1>0. \A w \in Workspaces : workspace[w] \in Workspace /\ NeverPaid(workspace[w])
  BY DEF TypeOK, TrialsNeverPaid
<1>1. ASSUME UNCHANGED workspace PROVE TrialsNeverPaid'
  BY <1>1, <1>0 DEF TrialsNeverPaid
<1>2. ASSUME NEW w, NEW ws, workspace' = [workspace EXCEPT ![w] = ws],
             w \in Workspaces => NeverPaid(ws)
      PROVE  TrialsNeverPaid'
  <2> SUFFICES ASSUME NEW v \in Workspaces PROVE NeverPaid(workspace'[v])
    BY DEF TrialsNeverPaid
  <2>1. CASE v = w
    BY <1>2, <2>1 DEF TypeOK
  <2>2. CASE v # w
    BY <1>0, <1>2, <2>2 DEF TypeOK
  <2> QED BY <2>1, <2>2
<1>3. CASE Sweep
  <2>1. CASE StampWarning
    <3>1. row \in Workspaces => NeverPaid(Stamped(workspace[row]))
      BY <1>0 DEF Stamped, NeverPaid, Workspace
    <3> QED BY <1>2, <2>1, <3>1 DEF StampWarning
  <2>2. CASE DeleteRows
    BY <1>0, <1>2, <2>2, WritersKeepNeverPaid DEF DeleteRows
  <2>3. CASE ~StampWarning /\ ~DeleteRows
    BY <1>1, <1>3, <2>3
    DEF Sweep, StartSweep, StartFinalWarnings, StartPurge, Begin, EndSweep, SendWarning,
        SendFails, StampFails, ListAssets, ListVariants, DeleteObjects, PurgeFails
  <2> QED BY <2>1, <2>2, <2>3
<1>4. ASSUME NEW w \in Workspaces, Writers(w) PROVE TrialsNeverPaid'
  <2>1. ASSUME NEW p \in Photos, GrantUpload(w, p) \/ RegisterUpload(w, p) \/ DeleteAsset(w, p)
        PROVE  TrialsNeverPaid'
    BY <1>0, <1>1, <1>2, <2>1, WritersKeepNeverPaid
    DEF GrantUpload, RegisterUpload, DeleteAsset
  <2>2. CASE UpdateWorkspace(w)
    BY <1>0, <1>2, <2>2, WritersKeepNeverPaid DEF UpdateWorkspace
  <2>3. CASE ExtendAccount(w) \/ CancelAccount(w)
    BY <1>0, <1>2, <2>3, WritersKeepNeverPaid DEF ExtendAccount, CancelAccount, RowWritten
  <2>4. CASE Subscribe(w) \/ ScheduleCancel(w)
    BY <1>0, <1>2, <2>4, WritersKeepNeverPaid DEF Subscribe, ScheduleCancel, RowWritten
  <2>5. CASE ApplySubscription(w)
    <3>1. PICK status \in CashfreeStatuses, next \in NextScheduleDates :
            workspace' = [workspace EXCEPT
                ![w] = SubscriptionApplied(workspace[w], status, next, today)]
      BY <2>5 DEF ApplySubscription, RowWritten
    <3>2. NeverPaid(SubscriptionApplied(workspace[w], status, next, today))
      BY <1>0, WritersKeepNeverPaid
    <3> QED BY <1>2, <3>1, <3>2
  <2>6. CASE DropToFree(w)
    <3>1. NeverPaid(DroppedToFree(workspace[w], today))
      BY <1>0, WritersKeepNeverPaid
    <3> QED BY <1>2, <2>6, <3>1 DEF DropToFree, RowWritten
  <2>7. CASE DropFails(w)
    BY <1>1, <2>7 DEF DropFails
  <2> QED BY <1>4, <2>1, <2>2, <2>3, <2>4, <2>5, <2>6, <2>7 DEF Writers
<1>5. CASE StartBillingSweep \/ Crash \/ Tick
  BY <1>1, <1>5 DEF StartBillingSweep, Crash, Tick
<1>6. CASE UNCHANGED vars
  BY <1>1, <1>6 DEF vars
<1>7. ASSUME NEW p \in Photos, EmbedJob(p) PROVE TrialsNeverPaid'
  BY <1>1, <1>7, EmbedJobQuiet
<1> QED BY <1>3, <1>4, <1>5, <1>6, <1>7 DEF Next

LEMMA PaidInvariant == Spec => [](TypeOK /\ TrialsNeverPaid)
<1>1. Init => TrialsNeverPaid
  <2>1. NeverPaid(NewTrialWorkspace(0)) /\ NeverPaid(NewProvisionedWorkspace(Term, 0))
    BY DEF NeverPaid, NewTrialWorkspace, NewProvisionedWorkspace
  <2> QED BY <2>1 DEF Init, TrialsNeverPaid
<1>2. TypeOK /\ TrialsNeverPaid /\ [Next]_vars => TrialsNeverPaid'
  BY PaidStep
<1> QED BY <1>1, <1>2, TypeCorrect, PTL DEF Spec

\* A workspace that ever paid is not due before its paid period and the grace
\* are over, whatever sequence of writers produced its row.
THEOREM PeriodRespected == Spec => []PaidPeriodIsRespected
<1>1. TypeOK /\ TrialsNeverPaid => PaidPeriodIsRespected
  BY DueRespectsPeriod DEF TypeOK, TrialsNeverPaid, PaidPeriodIsRespected
<1> QED BY <1>1, PaidInvariant, PTL

-----------------------------------------------------------------------------
(***************************************************************************)
(* The promise is kept: no writer brings a due date forward but a snapshot *)
(* whose schedule date has passed, which history notes.  A date named      *)
(* in a mail - or on the list of a sweep that has yet to send it, to a row *)
(* that may have been renewed since - is not later than the date the row   *)
(* can ever be due at: each of the columns the clock may be read from is   *)
(* either at least that late, or written anew with a later day before it   *)
(* is read.                                                                *)
(***************************************************************************)
Outlasts(ws, day, date) ==
    date # Null =>
        /\ date <= day + Grace
        /\ ws.currentPeriodEnd # Null => date <= ws.currentPeriodEnd + Grace
        /\ ws.subscriptionStatus = "canceled" /\ ws.currentPeriodEnd = Null
             => date <= ws.updatedAt + Grace
        /\ ws.plan = "free" /\ ws.subscriptionStatus \in {"trialing", "incomplete"}
           /\ ws.trialEndsAt # Null
             => date <= ws.trialEndsAt + Grace

MayPurge(w) == promised[w] # Null /\ w \notin backdated => promised[w] <= today

PurgeSteps == {"variants", "delete", "commit"}

PromiseInv ==
    /\ \A w \in Workspaces \ backdated : Outlasts(workspace[w], today, promised[w])
    /\ \A due \in todo :
         due.id \notin backdated => Outlasts(workspace[due.id], today, due.deleteOn)
    /\ phase = "purge" => \A due \in todo : MayPurge(due.id)
    /\ step \in PurgeSteps => MayPurge(row)

\* The date the query computes for a row whose access has ended.
LEMMA NamedOutlasts ==
    ASSUME NEW ws \in Workspace, NEW day \in Day, NeverPaid(ws),
           AccessEndedAt(ws, day) # Null => AccessEndedAt(ws, day) <= day
    PROVE  Outlasts(ws, day, PurgeDueAt(ws, day))
<1> SUFFICES ASSUME PurgeDueAt(ws, day) # Null PROVE Outlasts(ws, day, PurgeDueAt(ws, day))
  BY DEF Outlasts
<1> DEFINE ended == AccessEndedAt(ws, day)
<1>1. /\ ended # Null /\ ended <= day
      /\ PurgeDueAt(ws, day) = ended + Grace
  BY DEF PurgeDueAt
<1>2. /\ ws.currentPeriodEnd # Null => ended = ws.currentPeriodEnd
      /\ ws.subscriptionStatus = "canceled" /\ ws.currentPeriodEnd = Null
           => ended = ws.updatedAt
      /\ ws.plan = "free" /\ ws.subscriptionStatus \in {"trialing", "incomplete"}
           => ended = ws.trialEndsAt
  BY <1>1 DEF AccessEndedAt, Coalesce, PaidTermRanOut, NeverPaid
<1>3. ended \in Stamp
  BY ClockType
<1> HIDE DEF ended
<1>4. ended + Grace <= day + Grace
  BY <1>1, <1>3, DurationsAssumption DEF Stamp, Day, Null
<1> QED BY <1>1, <1>2, <1>3, <1>4, DurationsAssumption DEF Outlasts, Stamp, Day, Null

\* A row that is due is due no earlier than it says in the mail.
LEMMA DueOutlasts ==
    ASSUME NEW ws \in Workspace, NEW day \in Day, NEW date \in Stamp,
           Outlasts(ws, day, date), PurgeDue(ws, day), date # Null
    PROVE  date <= day
<1> DEFINE ended == AccessEndedAt(ws, day)
<1>1. ended # Null /\ ended \in Stamp /\ ended + Grace <= day
  BY DueMeansEnded, ClockType DEF AccessEnded
<1>2. date <= ended + Grace
  BY <1>1 DEF AccessEndedAt, Coalesce, PaidTermRanOut, Outlasts
<1> HIDE DEF ended
<1> QED BY <1>1, <1>2, DurationsAssumption DEF Stamp, Day, Null

\* No writer brings the due date of a row before a date already named, if a
\* snapshot's schedule date is not over when it is written.
LEMMA WritersOutlast ==
    ASSUME NEW ws \in Workspace, NEW day \in Day, NEW date \in Stamp, Outlasts(ws, day, date)
    PROVE  /\ Outlasts(Renewed(ws, day), day, date)
           /\ Outlasts(CanceledByAdmin(ws, day), day, date)
           /\ \A status \in CashfreeStatuses, next \in Stamp :
                next = Null \/ day <= next =>
                Outlasts(SubscriptionApplied(ws, status, next, day), day, date)
           /\ Outlasts(DroppedToFree(ws, day), day, date)
           /\ Outlasts(Touched(ws, day), day, date)
           /\ Outlasts(Purged(ws, day), day, date)
           /\ Outlasts([Touched(ws, day) EXCEPT !.hasSubscription = TRUE], day, date)
           /\ Outlasts([Touched(ws, day) EXCEPT !.cancelAtPeriodEnd = TRUE], day, date)
<1>1. date # Null => date <= day + Term + Grace
  BY DurationsAssumption DEF Outlasts, Stamp, Day, Null
<1>2. Outlasts(Renewed(ws, day), day, date)
  BY <1>1 DEF Outlasts, Renewed, Workspace
<1>3. Outlasts(CanceledByAdmin(ws, day), day, date)
  BY DEF Outlasts, CanceledByAdmin, Workspace
<1>4. ASSUME NEW status \in CashfreeStatuses, NEW next \in Stamp, next = Null \/ day <= next
      PROVE  Outlasts(SubscriptionApplied(ws, status, next, day), day, date)
  <2> DEFINE applied == SubscriptionApplied(ws, status, next, day)
  <2>1. /\ applied.currentPeriodEnd = next /\ applied.updatedAt = day
        /\ applied.subscriptionStatus = MapSubscriptionStatus(status)
        /\ applied.plan = IF MapSubscriptionStatus(status) = "canceled" THEN "free" ELSE "paid"
    BY DEF SubscriptionApplied, Workspace
  <2>2. ~(applied.plan = "free" /\ applied.subscriptionStatus \in {"trialing", "incomplete"})
    BY <2>1
  <2> HIDE DEF applied
  <2>3. date # Null /\ next # Null => date <= next + Grace
    BY <1>4, DurationsAssumption DEF Outlasts, Stamp, Day, Null
  <2>4. Outlasts(applied, day, date)
    BY <2>1, <2>2, <2>3 DEF Outlasts
  <2> QED BY <2>4 DEF applied
<1>5. Outlasts(DroppedToFree(ws, day), day, date)
  BY DEF Outlasts, DroppedToFree, Workspace
<1>6. Outlasts(Touched(ws, day), day, date) /\ Outlasts(Purged(ws, day), day, date)
  BY DEF Outlasts, Touched, Purged, Workspace
<1>7. /\ Outlasts([Touched(ws, day) EXCEPT !.hasSubscription = TRUE], day, date)
      /\ Outlasts([Touched(ws, day) EXCEPT !.cancelAtPeriodEnd = TRUE], day, date)
  BY DEF Outlasts, Touched, Workspace
<1> QED BY <1>2, <1>3, <1>4, <1>5, <1>6, <1>7

\* Steps that name no date and start on no row.
LEMMA NothingNamedKeeps ==
    ASSUME TypeOK, PromiseInv,
           backdated \subseteq backdated',
           \A w \in Workspaces \ backdated' : \A date \in Stamp :
             Outlasts(workspace[w], today, date) => Outlasts(workspace'[w], today', date),
           today' \in Day, today <= today',
           todo' \subseteq todo,
           phase' = "purge" => phase = "purge" \/ todo' = {},
           step' \in PurgeSteps => step \in PurgeSteps /\ row' = row,
           row \in Workspaces \/ step' \notin PurgeSteps,
           \A w \in Workspaces : promised'[w] = promised[w] \/ promised'[w] = Null
    PROVE  PromiseInv'
<1>1. today \in Day /\ \A w \in Workspaces : promised[w] \in Stamp
  BY DEF TypeOK
<1>2. \A due \in todo : due.id \in Workspaces /\ due.deleteOn \in Stamp
  BY DEF TypeOK, DueRow
<1>3. \A w \in Workspaces \ backdated' : Outlasts(workspace'[w], today', promised'[w])
  <2> TAKE w \in Workspaces \ backdated'
  <2>1. CASE promised'[w] = promised[w]
    BY <1>1, <2>1 DEF PromiseInv
  <2>2. CASE promised'[w] = Null
    BY <2>2 DEF Outlasts
  <2> QED BY <2>1, <2>2
<1>4. \A due \in todo' :
        due.id \notin backdated' => Outlasts(workspace'[due.id], today', due.deleteOn)
  BY <1>2 DEF PromiseInv
<1>5. \A w \in Workspaces : MayPurge(w) => MayPurge(w)'
  <2> SUFFICES ASSUME NEW w \in Workspaces, MayPurge(w), promised'[w] # Null,
                      w \notin backdated'
               PROVE  promised'[w] <= today'
    BY DEF MayPurge
  <2> QED BY <1>1 DEF MayPurge, Stamp, Day, Null
<1>6. phase' = "purge" => \A due \in todo' : MayPurge(due.id)'
  BY <1>2, <1>5 DEF PromiseInv
<1>7. step' \in PurgeSteps => MayPurge(row)'
  <2> SUFFICES ASSUME step' \in PurgeSteps PROVE MayPurge(row)'
    OBVIOUS
  <2>1. row \in Workspaces /\ row' = row /\ MayPurge(row)
    BY DEF PromiseInv
  <2>2. promised'[row] # Null /\ row \notin backdated' => promised'[row] <= today'
    BY <1>5, <2>1 DEF MayPurge
  <2> QED BY <2>1, <2>2 DEF MayPurge
<1> QED BY <1>3, <1>4, <1>6, <1>7 DEF PromiseInv

\* A phase begins with the dates its query read; a purge, with rows due today.
LEMMA BeginKeepsPromise ==
    ASSUME TypeOK, TrialsNeverPaid, PromiseInv, step = "next",
           NEW next \in Phases, NEW candidates \in SUBSET Workspaces, Begin(next, candidates),
           \A w \in candidates : /\ AccessEndedAt(workspace[w], today) # Null
                                 /\ AccessEndedAt(workspace[w], today) <= today,
           next = "purge" => \A w \in candidates : PurgeDue(workspace[w], today)
    PROVE  PromiseInv'
<1>0. /\ today \in Day
      /\ \A w \in Workspaces : workspace[w] \in Workspace /\ promised[w] \in Stamp
                               /\ NeverPaid(workspace[w])
  BY DEF TypeOK, TrialsNeverPaid
<1>1. /\ UNCHANGED <<today, workspace, promised, backdated, step, row>> /\ phase' = next
      /\ todo' \in {{DueRowOf(w) : w \in candidates}, {}}
  BY DEF Begin, history
<1>2. ASSUME NEW due \in todo'
      PROVE  \E w \in candidates : due.id = w /\ due.deleteOn = PurgeDueAt(workspace[w], today)
  <2>1. PICK w \in candidates : due = DueRowOf(w)
    BY <1>1, <1>2
  <2> QED BY <2>1 DEF DueRowOf
<1>3. ASSUME NEW due \in todo' PROVE Outlasts(workspace[due.id], today, due.deleteOn)
  <2>1. PICK w \in candidates : due.id = w /\ due.deleteOn = PurgeDueAt(workspace[w], today)
    BY <1>2
  <2>2. Outlasts(workspace[w], today, PurgeDueAt(workspace[w], today))
    BY <1>0, NamedOutlasts
  <2> QED BY <2>1, <2>2
<1>4. ASSUME next = "purge", NEW due \in todo' PROVE MayPurge(due.id)
  <2>1. PICK w \in candidates : due.id = w /\ due.deleteOn = PurgeDueAt(workspace[w], today)
    BY <1>2, <1>4
  <2>2. /\ w \notin backdated => Outlasts(workspace[w], today, promised[w])
        /\ PurgeDue(workspace[w], today)
    BY <1>4 DEF PromiseInv
  <2>3. promised[w] # Null /\ w \notin backdated => promised[w] <= today
    BY <1>0, <2>2, DueOutlasts
  <2> QED BY <2>1, <2>3 DEF MayPurge
<1> QED BY <1>1, <1>3, <1>4 DEF PromiseInv, MayPurge, PurgeSteps

LEMMA StampedOutlasts ==
    ASSUME NEW ws \in Workspace, NEW date \in Stamp, today \in Day, Outlasts(ws, today, date)
    PROVE  Outlasts(Stamped(ws), today, date)
BY DEF Outlasts, Stamped, Workspace

\* A step that writes one row, as any of the writers would.
LEMMA RowStepKeepsPromise ==
    ASSUME TypeOK, SweepInv, PromiseInv, NEW w \in Workspaces, NEW ws,
           workspace' = [workspace EXCEPT ![w] = ws],
           backdated \subseteq backdated',
           w \notin backdated' =>
             \A date \in Stamp : Outlasts(workspace[w], today, date) => Outlasts(ws, today, date),
           UNCHANGED <<today, phase, todo>>,
           UNCHANGED <<row, step>> \/ step' = "next",
           \A v \in Workspaces : promised'[v] = promised[v] \/ promised'[v] = Null
    PROVE  PromiseInv'
<1>1. \A v \in Workspaces \ backdated' : \A date \in Stamp :
        Outlasts(workspace[v], today, date) => Outlasts(workspace'[v], today', date)
  <2> TAKE v \in Workspaces \ backdated'
  <2>1. CASE v = w
    BY <2>1 DEF TypeOK
  <2>2. CASE v # w
    <3>1. workspace'[v] = workspace[v] /\ today' = today
      BY <2>2 DEF TypeOK
    <3> QED BY <3>1
  <2> QED BY <2>1, <2>2
<1>2. today' \in Day /\ today <= today'
  BY DEF TypeOK, Day
<1>3. row \in Workspaces \/ step' \notin PurgeSteps
  BY DEF SweepInv, StepFitsPhase, PurgeSteps
<1> QED BY <1>1, <1>2, <1>3, NothingNamedKeeps DEF PurgeSteps

\* A step of the sweep, of the billing sweep or of the worker's death that
\* writes no row, names no date and starts on no row.
LEMMA QuietStepKeepsPromise ==
    ASSUME TypeOK, SweepInv, PromiseInv, UNCHANGED <<today, workspace, promised, backdated>>,
           todo' \subseteq todo,
           phase' = "purge" => phase = "purge" \/ todo' = {},
           step' \in PurgeSteps => step \in PurgeSteps /\ row' = row
    PROVE  PromiseInv'
<1>1. \A w \in Workspaces \ backdated' : \A date \in Stamp :
        Outlasts(workspace[w], today, date) => Outlasts(workspace'[w], today', date)
  OBVIOUS
<1>4. /\ backdated \subseteq backdated'
      /\ \A w \in Workspaces : promised'[w] = promised[w] \/ promised'[w] = Null
  OBVIOUS
<1>2. today' \in Day /\ today <= today'
  BY DEF TypeOK, Day
<1>3. row \in Workspaces \/ step' \notin PurgeSteps
  BY DEF SweepInv, StepFitsPhase, PurgeSteps
<1> QED BY <1>1, <1>2, <1>3, <1>4, NothingNamedKeeps

LEMMA SweepKeepsPromise ==
    ASSUME TypeOK, SweepInv, TrialsNeverPaid, PromiseInv, Sweep
    PROVE  PromiseInv'
<1>0. /\ today \in Day
      /\ \A w \in Workspaces : workspace[w] \in Workspace
  BY DEF TypeOK
<1>s. step \notin PurgeSteps \/ phase = "purge"
  BY DEF SweepInv, StepFitsPhase, PurgeSteps
<1>1. CASE StartSweep
  <2>1. \A w \in FindNeedingFirstWarning :
          /\ AccessEndedAt(workspace[w], today) # Null
          /\ AccessEndedAt(workspace[w], today) <= today
    BY DEF FindNeedingFirstWarning, AccessEnded
  <2>2. FindNeedingFirstWarning \in SUBSET Workspaces /\ "first" \in Phases /\ "first" # "purge"
    BY DEF FindNeedingFirstWarning, Phases
  <2>3. step = "next"
    BY <1>1 DEF StartSweep, SweepInv, StepFitsPhase, TypeOK, Steps
  <2> QED BY <1>1, <2>1, <2>2, <2>3, BeginKeepsPromise DEF StartSweep
<1>2. CASE StartFinalWarnings
  <2>1. ASSUME NEW w \in FindNeedingFinalWarning
        PROVE  /\ AccessEndedAt(workspace[w], today) # Null
               /\ AccessEndedAt(workspace[w], today) <= today
    <3>1. w \in Workspaces /\ PurgeDueAt(workspace[w], today) # Null
          /\ PurgeDueAt(workspace[w], today) <= today + FinalWindow
      BY <2>1 DEF FindNeedingFinalWarning
    <3>2. AccessEndedAt(workspace[w], today) \in Stamp
      BY <1>0, <3>1, ClockType
    <3>3. /\ AccessEndedAt(workspace[w], today) # Null
          /\ AccessEndedAt(workspace[w], today) + Grace <= today + FinalWindow
      BY <3>1 DEF PurgeDueAt
    <3> QED BY <1>0, <3>2, <3>3, DurationsAssumption DEF Stamp, Day, Null
  <2>2. FindNeedingFinalWarning \in SUBSET Workspaces /\ "final" \in Phases /\ "final" # "purge"
    BY DEF FindNeedingFinalWarning, Phases
  <2> QED BY <1>2, <2>1, <2>2, BeginKeepsPromise DEF StartFinalWarnings
<1>3. CASE StartPurge
  <2>1. ASSUME NEW w \in FindDueForPurge
        PROVE  /\ AccessEndedAt(workspace[w], today) # Null
               /\ AccessEndedAt(workspace[w], today) <= today
               /\ PurgeDue(workspace[w], today)
    <3>1. w \in Workspaces /\ PurgeDue(workspace[w], today)
      BY <2>1 DEF FindDueForPurge
    <3> QED BY <1>0, <3>1, DueMeansEnded DEF AccessEnded
  <2>2. FindDueForPurge \in SUBSET Workspaces /\ "purge" \in Phases
    BY DEF FindDueForPurge, Phases
  <2> QED BY <1>3, <2>1, <2>2, BeginKeepsPromise DEF StartPurge
<1>4. CASE \/ EndSweep \/ SendFails \/ StampFails
           \/ ListVariants \/ DeleteObjects \/ PurgeFails
  BY <1>4, QuietStepKeepsPromise
  DEF EndSweep, SendFails, StampFails, ListVariants, DeleteObjects, PurgeFails,
      AbandonWorkspace, PurgeSteps, history
<1>5. CASE SendWarning
  <2>1. PICK due \in todo :
          /\ todo' = todo \ {due}
          /\ row' = due.id
          /\ promised' = [promised EXCEPT ![due.id] = due.deleteOn]
          /\ notified' = notified \cup {due.id}
    BY <1>5 DEF SendWarning
  <2>2. /\ UNCHANGED <<today, workspace, phase, backdated>>
        /\ phase # "purge" /\ step' = "stamp"
    BY <1>5 DEF SendWarning
  <2>3. \A w \in Workspaces \ backdated : Outlasts(workspace[w], today, promised'[w])
    <3> TAKE w \in Workspaces \ backdated
    <3>1. CASE w = due.id
      <4>1. promised'[w] = due.deleteOn
        BY <2>1, <3>1 DEF TypeOK
      <4> QED BY <3>1, <4>1 DEF PromiseInv
    <3>2. CASE w # due.id
      <4>1. promised'[w] = promised[w]
        BY <2>1, <3>2 DEF TypeOK
      <4> QED BY <4>1 DEF PromiseInv
    <3> QED BY <3>1, <3>2
  <2> QED BY <2>1, <2>2, <2>3 DEF PromiseInv, PurgeSteps
<1>6. CASE StampWarning
  <2>1. row \in Workspaces
    BY <1>6 DEF StampWarning, SweepInv, StepFitsPhase
  <2>2. \A date \in Stamp : Outlasts(workspace[row], today, date)
                              => Outlasts(Stamped(workspace[row]), today, date)
    BY <1>0, <2>1, StampedOutlasts
  <2>3. workspace' = [workspace EXCEPT ![row] = Stamped(workspace[row])]
    BY <1>6 DEF StampWarning
  <2> QED BY <1>6, <2>1, <2>2, <2>3, RowStepKeepsPromise DEF StampWarning, history
<1>7. CASE ListAssets
  <2>1. PICK due \in todo :
          /\ todo' = todo \ {due}
          /\ picked' = assets[due.id]
          /\ IF assets[due.id] = {}
             THEN UNCHANGED <<row, step>>
             ELSE row' = due.id /\ step' = "variants"
    BY <1>7 DEF ListAssets
  <2>2. /\ phase = "purge" /\ step = "next"
        /\ UNCHANGED <<today, workspace, phase, promised, backdated>>
    BY <1>7 DEF ListAssets, history
  <2>3. step' \in PurgeSteps => row' = due.id
    BY <2>1, <2>2 DEF PurgeSteps
  <2> QED BY <2>1, <2>2, <2>3 DEF PromiseInv, MayPurge
<1>8. CASE DeleteRows
  <2>1. row \in Workspaces
    BY <1>8 DEF DeleteRows, SweepInv, StepFitsPhase
  <2>2. \A date \in Stamp : Outlasts(workspace[row], today, date)
                              => Outlasts(Purged(workspace[row], today), today, date)
    BY <1>0, <2>1, WritersOutlast
  <2>3. workspace' = [workspace EXCEPT ![row] = Purged(workspace[row], today)]
    BY <1>8 DEF DeleteRows
  <2> QED BY <1>8, <2>1, <2>2, <2>3, RowStepKeepsPromise DEF DeleteRows, AbandonWorkspace, history
<1> QED
  BY <1>1, <1>2, <1>3, <1>4, <1>5, <1>6, <1>7, <1>8 DEF Sweep

\* A row written through RowWritten: a promise is kept or, the lapse being
\* over, forgotten.
LEMMA RowWrittenKeepsPromise ==
    ASSUME TypeOK, SweepInv, PromiseInv, NEW w \in Workspaces, NEW ws, RowWritten(w, ws),
           backdated \subseteq backdated',
           w \notin backdated' =>
             \A date \in Stamp : Outlasts(workspace[w], today, date) => Outlasts(ws, today, date)
    PROVE  PromiseInv'
<1>1. /\ workspace' = [workspace EXCEPT ![w] = ws]
      /\ UNCHANGED <<today, phase, todo, row, step>>
  BY DEF RowWritten, worker
<1>2. \A v \in Workspaces : promised'[v] = promised[v] \/ promised'[v] = Null
  BY DEF RowWritten, TypeOK
<1> QED BY <1>1, <1>2, RowStepKeepsPromise

LEMMA WritersKeepPromise ==
    ASSUME TypeOK, SweepInv, PromiseInv, NEW w \in Workspaces, Writers(w)
    PROVE  PromiseInv'
<1>0. workspace[w] \in Workspace /\ today \in Day
  BY DEF TypeOK
<1>1. ASSUME NEW p \in Photos, GrantUpload(w, p) PROVE PromiseInv'
  BY <1>1, QuietStepKeepsPromise DEF GrantUpload, worker, history
<1>2. ASSUME NEW p \in Photos, RegisterUpload(w, p) \/ DeleteAsset(w, p) PROVE PromiseInv'
  <2>1. workspace' = [workspace EXCEPT ![w] = Touched(workspace[w], today)]
    BY <1>2 DEF RegisterUpload, DeleteAsset
  <2>2. \A date \in Stamp : Outlasts(workspace[w], today, date)
                              => Outlasts(Touched(workspace[w], today), today, date)
    BY <1>0, WritersOutlast
  <2>3. UNCHANGED <<today, phase, todo, row, step, promised, backdated>>
    BY <1>2 DEF RegisterUpload, DeleteAsset, worker, history
  <2> QED BY <2>1, <2>2, <2>3, RowStepKeepsPromise
<1>3. CASE UpdateWorkspace(w)
  <2>1. workspace' = [workspace EXCEPT ![w] = Touched(workspace[w], today)]
    BY <1>3 DEF UpdateWorkspace
  <2>2. \A date \in Stamp : Outlasts(workspace[w], today, date)
                              => Outlasts(Touched(workspace[w], today), today, date)
    BY <1>0, WritersOutlast
  <2>3. UNCHANGED <<today, phase, todo, row, step, promised, backdated>>
    BY <1>3 DEF UpdateWorkspace, worker, history
  <2> QED BY <2>1, <2>2, <2>3, RowStepKeepsPromise
<1>4. CASE ExtendAccount(w)
  BY <1>0, <1>4, WritersOutlast, RowWrittenKeepsPromise DEF ExtendAccount
<1>5. CASE CancelAccount(w)
  BY <1>0, <1>5, WritersOutlast, RowWrittenKeepsPromise DEF CancelAccount
<1>6. CASE Subscribe(w)
  BY <1>0, <1>6, WritersOutlast, RowWrittenKeepsPromise DEF Subscribe
<1>7. CASE ApplySubscription(w)
  <2>1. PICK status \in CashfreeStatuses, next \in NextScheduleDates :
          /\ RowWritten(w, SubscriptionApplied(workspace[w], status, next, today))
          /\ backdated' = IF next # Null /\ next < today THEN backdated \cup {w} ELSE backdated
    BY <1>7 DEF ApplySubscription
  <2>2. next \in Stamp
    BY DEF NextScheduleDates, Stamp, Day
  <2>3. w \notin backdated' => next = Null \/ today <= next
    BY <1>0, <2>1, <2>2 DEF Stamp, Day, Null
  <2>4. w \notin backdated' =>
          \A date \in Stamp : Outlasts(workspace[w], today, date)
            => Outlasts(SubscriptionApplied(workspace[w], status, next, today), today, date)
    BY <1>0, <2>2, <2>3, WritersOutlast
  <2>5. backdated \subseteq backdated'
    BY <2>1
  <2> QED BY <2>1, <2>4, <2>5, RowWrittenKeepsPromise
<1>8. CASE ScheduleCancel(w)
  BY <1>0, <1>8, WritersOutlast, RowWrittenKeepsPromise DEF ScheduleCancel
<1>9. CASE DropToFree(w)
  BY <1>0, <1>9, WritersOutlast, RowWrittenKeepsPromise DEF DropToFree
<1>10. CASE DropFails(w)
  BY <1>10, QuietStepKeepsPromise DEF DropFails, worker, history
<1> QED BY <1>1, <1>2, <1>3, <1>4, <1>5, <1>6, <1>7, <1>8, <1>9, <1>10 DEF Writers

\* Another day only makes a promise older.
LEMMA TickKeepsPromise == ASSUME TypeOK, SweepInv, PromiseInv, Tick PROVE PromiseInv'
<1>1. /\ today \in Day /\ today' = today + 1
      /\ UNCHANGED <<workspace, promised, backdated, phase, todo, row, step>>
  BY DEF Tick, TypeOK, worker, history
<1>2. today' \in Day /\ today <= today'
  BY <1>1 DEF Day
<1>3. \A w \in Workspaces \ backdated' : \A date \in Stamp :
        Outlasts(workspace[w], today, date) => Outlasts(workspace'[w], today', date)
  <2> TAKE w \in Workspaces \ backdated'
  <2> TAKE date \in Stamp
  <2>1. date <= today + Grace => date <= today' + Grace
    BY <1>1, DurationsAssumption DEF Stamp, Day, Null
  <2> QED BY <1>1, <2>1 DEF Outlasts
<1>4. row \in Workspaces \/ step' \notin PurgeSteps
  BY <1>1 DEF SweepInv, StepFitsPhase, PurgeSteps
<1> QED BY <1>1, <1>2, <1>3, <1>4, NothingNamedKeeps

LEMMA PromiseStep ==
    TypeOK /\ SweepInv /\ TrialsNeverPaid /\ PromiseInv /\ [Next]_vars => PromiseInv'
<1> SUFFICES ASSUME TypeOK, SweepInv, TrialsNeverPaid, PromiseInv, [Next]_vars
             PROVE  PromiseInv'
  OBVIOUS
<1>1. CASE Sweep
  BY <1>1, SweepKeepsPromise
<1>2. ASSUME NEW w \in Workspaces, Writers(w) PROVE PromiseInv'
  BY <1>2, WritersKeepPromise
<1>3. CASE StartBillingSweep \/ Crash \/ UNCHANGED vars
  BY <1>3, QuietStepKeepsPromise DEF StartBillingSweep, Crash, AbandonWorkspace, PurgeSteps,
      vars, worker, history
<1>4. CASE Tick
  BY <1>4, TickKeepsPromise
<1>5. ASSUME NEW p \in Photos, EmbedJob(p) PROVE PromiseInv'
  BY <1>5, EmbedJobQuiet, QuietStepKeepsPromise DEF worker, history
<1> QED BY <1>1, <1>2, <1>3, <1>4, <1>5 DEF Next

\* The mails name a date ("your photos are kept until ..."), and the purge,
\* which computes it again from columns that were written in between, deletes
\* no photo of the announced lapse before it, unless a snapshot of the gateway
\* gave the row a period that was already over: for any durations with the final
\* notice inside the grace, any number of workspaces, days, crashes and stalls.
THEOREM PromiseKept == Spec => KeptUntilPromised
<1>1. Init => PromiseInv
  BY DEF Init, PromiseInv, Outlasts, PurgeSteps
<1>2. TypeOK /\ SweepInv /\ TrialsNeverPaid /\ PromiseInv /\ [Next]_vars => PromiseInv'
  BY PromiseStep
<1>3. ASSUME TypeOK, PromiseInv, NEW w \in Workspaces, Purges(w), promised[w] # Null,
             w \notin backdated
      PROVE  today >= promised[w]
  <2>1. promised[w] <= today
    BY <1>3 DEF PromiseInv, MayPurge, Purges, PurgeSteps
  <2> QED BY <2>1 DEF TypeOK, Stamp, Day, Null
<1>4. TypeOK /\ PromiseInv /\ [Next]_vars
        => [\A w \in Workspaces :
              Purges(w) /\ promised[w] # Null /\ w \notin backdated
                => today >= promised[w]]_vars
  BY <1>3
<1> QED BY <1>1, <1>2, <1>4, SweepInvariant, PaidInvariant, PTL DEF Spec, KeptUntilPromised
=============================================================================
