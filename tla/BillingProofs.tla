---------------------------- MODULE BillingProofs ----------------------------
(***************************************************************************)
(* What Billing keeps for any number of subscriptions and snapshots, any   *)
(* durations, and every order of checkouts, confirms, webhooks and sweeps. *)
(***************************************************************************)
EXTENDS Billing, TLAPS

-----------------------------------------------------------------------------
\* The rows that a workspace opens with, and those that billing writes.
LEMMA OpeningRows ==
    ASSUME NEW now \in Day, NEW until \in Day
    PROVE  /\ NewTrialWorkspace(now) \in Workspace
           /\ NewProvisionedWorkspace(until, now) \in Workspace
<1>1. NewTrialWorkspace(now) \in Workspace
  BY DurationsAssumption
  DEF NewTrialWorkspace, Workspace, Plans, SubscriptionStatuses, Stamp, Day, Null
<1> QED
  BY <1>1 DEF NewProvisionedWorkspace, Workspace, Plans, SubscriptionStatuses, Stamp, Day, Null

LEMMA BillingRows ==
    ASSUME NEW ws \in Workspace, NEW now \in Day,
           NEW status \in CashfreeStatuses, NEW next \in Stamp
    PROVE  /\ SubscriptionApplied(ws, status, next, now) \in Workspace
           /\ DroppedToFree(ws, now) \in Workspace
<1>1. MapSubscriptionStatus(status) \in SubscriptionStatuses
  BY DEF MapSubscriptionStatus, SubscriptionStatuses, CashfreeStatuses
<1>2. SubscriptionApplied(ws, status, next, now) \in Workspace
  BY <1>1 DEF SubscriptionApplied, Workspace, Plans, Stamp, Day, Null
<1>3. DroppedToFree(ws, now) \in Workspace
  BY DEF DroppedToFree, Workspace, Plans, SubscriptionStatuses, Stamp, Day, Null
<1> QED BY <1>2, <1>3

-----------------------------------------------------------------------------
(***************************************************************************)
(* The inductive invariant: what waits to be written was true at the       *)
(* gateway once, and what the sweep is about to write is true there now    *)
(* unless it took a refusal for it.                                        *)
(***************************************************************************)
\* A subscription nobody has created has no date either.
UnbornIsBlank == \A s \in Subs : gateway[s].status = "none" => gateway[s] = Unborn

\* A mandate is active only after its customer approved it.
ActiveIsAuthorised == \A s \in Subs : gateway[s].status = "ACTIVE" => s \in authorised

\* A snapshot may be old, but never ahead: a mandate it calls active was
\* approved, and one it calls over is over for good.
SnapshotsHappened ==
    \A m \in inflight :
        /\ m.status = "ACTIVE" => m.sub \in authorised
        /\ m.status \in Ended => gateway[m.sub].status \in Ended

\* A cancellation is scheduled of a workspace that has a subscription.
ScheduledHasId == workspace.cancelAtPeriodEnd => subscription # NoSub

\* The sweep works on a subscription, and drops a row only after its end, or
\* after a refusal that it took for the end.
SweptHasEnded ==
    /\ sweep.step # "idle" => sweep.sub \in Subs
    /\ sweep.step = "drop" /\ ~sweep.presumed => gateway[sweep.sub].status \in Ended

BillingInv ==
    /\ TypeOK
    /\ UnbornIsBlank
    /\ ActiveIsAuthorised
    /\ SnapshotsHappened
    /\ ScheduledHasId
    /\ SweptHasEnded

-----------------------------------------------------------------------------
(***************************************************************************)
(* What the building blocks of the actions do.                             *)
(***************************************************************************)
SweepType == [step : {"idle", "cancel", "drop"}, sub : Subs \cup {NoSub}, presumed : BOOLEAN]
GatewayType == [Subs -> [status : CashfreeStatuses \cup {"none"}, next : Stamp]]

\* The columns a route or the sweep writes by hand leave a row a row, and one
\* with the flag and the status it had, or is given.
LEMMA HandWrittenType ==
    ASSUME NEW ws \in Workspace, NEW day \in Day
    PROVE  /\ [Touched(ws, day) EXCEPT !.hasSubscription = TRUE] \in Workspace
           /\ [Touched(ws, day) EXCEPT !.cancelAtPeriodEnd = TRUE] \in Workspace
BY DEF Touched, Workspace, Plans, SubscriptionStatuses, Stamp, Day, Null

\* The gateway moves one subscription, and tells of nothing else.
LEMMA GatewayGoesEffect ==
    ASSUME gateway \in GatewayType, inflight \subseteq Snapshot,
           NEW s \in Subs, NEW status \in CashfreeStatuses, NEW next \in Stamp,
           GatewayGoes(s, status, next)
    PROVE  /\ gateway' \in GatewayType
           /\ gateway'[s] = [status |-> status, next |-> next]
           /\ \A t \in Subs \ {s} : gateway'[t] = gateway[t]
           /\ inflight' \subseteq Snapshot
           /\ \A m \in inflight' \ inflight : m.sub = s /\ m.status = status
BY DEF GatewayGoes, Carries, GatewayType, Snapshot

\* A subscription that is authorised, goes on or ends - and stays ended once it
\* has - makes no snapshot false, whatever the worker is about to write.
LEMMA GatewayKeeps ==
    ASSUME BillingInv, NEW s \in Subs, NEW status \in CashfreeStatuses, NEW next \in Stamp,
           GatewayGoes(s, status, next), authorised \subseteq authorised',
           status = "ACTIVE" => s \in authorised',
           gateway[s].status \in Ended => status \in Ended
    PROVE  /\ UnbornIsBlank' /\ ActiveIsAuthorised' /\ SnapshotsHappened'
           /\ \A t \in Subs : gateway[t].status \in Ended => gateway'[t].status \in Ended
           /\ gateway' \in GatewayType /\ inflight' \subseteq Snapshot
           /\ gateway'[s].status = status
<1>1. gateway \in GatewayType /\ inflight \subseteq Snapshot
  BY DEF BillingInv, TypeOK, GatewayType
<1>2. /\ gateway' \in GatewayType
      /\ gateway'[s] = [status |-> status, next |-> next]
      /\ \A t \in Subs \ {s} : gateway'[t] = gateway[t]
      /\ inflight' \subseteq Snapshot
      /\ \A m \in inflight' \ inflight : m.sub = s /\ m.status = status
  BY <1>1, GatewayGoesEffect
<1>3. status # "none"
  BY DEF CashfreeStatuses
<1>4. UnbornIsBlank'
  BY <1>2, <1>3 DEF BillingInv, UnbornIsBlank, Unborn
<1>5. \A t \in Subs : gateway[t].status \in Ended => gateway'[t].status \in Ended
  BY <1>2
<1>6. ActiveIsAuthorised'
  BY <1>2 DEF BillingInv, ActiveIsAuthorised
<1>7. SnapshotsHappened'
  <2> SUFFICES ASSUME NEW m \in inflight'
               PROVE  /\ m.status = "ACTIVE" => m.sub \in authorised'
                      /\ m.status \in Ended => gateway'[m.sub].status \in Ended
    BY DEF SnapshotsHappened
  <2>1. m.sub \in Subs
    BY <1>2 DEF Snapshot
  <2>2. CASE m \in inflight
    BY <2>1, <2>2, <1>5 DEF BillingInv, SnapshotsHappened
  <2>3. CASE m \notin inflight
    BY <2>3, <1>2
  <2> QED BY <2>2, <2>3
<1> QED BY <1>2, <1>4, <1>5, <1>6, <1>7

-----------------------------------------------------------------------------
\* It holds when the workspace opens.
LEMMA BillingInit == Init => BillingInv
<1> SUFFICES ASSUME Init PROVE BillingInv
  OBVIOUS
<1>1. 0 \in Day /\ Term \in Day /\ Null \in Stamp
  BY DurationsAssumption DEF Day, Stamp
<1>2. workspace \in Workspace
  BY <1>1, OpeningRows DEF Init
<1>3. TypeOK
  BY <1>1, <1>2 DEF Init, TypeOK, Unborn, Idle
<1>4. workspace.cancelAtPeriodEnd = FALSE
  <2>1. NewTrialWorkspace(0).cancelAtPeriodEnd = FALSE
    BY DEF NewTrialWorkspace
  <2>2. NewProvisionedWorkspace(Term, 0).cancelAtPeriodEnd = FALSE
    BY <2>1, Zenon DEF NewProvisionedWorkspace, NewTrialWorkspace
  <2> QED BY <2>1, <2>2 DEF Init
<1>5. UnbornIsBlank /\ ActiveIsAuthorised /\ SnapshotsHappened /\ ScheduledHasId /\ SweptHasEnded
  BY <1>4
  DEF Init, UnbornIsBlank, ActiveIsAuthorised, SnapshotsHappened, ScheduledHasId,
      SweptHasEnded, Idle, Unborn
<1> QED BY <1>3, <1>5 DEF BillingInv

\* The routes and the late answers keep it.
LEMMA RoutesKeep ==
    ASSUME BillingInv,
           \/ \E s \in Subs : Create(s) \/ Record(s) \/ Fetch(s)
           \/ \E m \in inflight : Apply(m) \/ Lose(m)
           \/ ScheduleCancel
    PROVE  BillingInv'
<1>t. /\ today \in Day /\ workspace \in Workspace /\ subscription \in Subs \cup {NoSub}
      /\ gateway \in GatewayType /\ inflight \subseteq Snapshot
  BY DEF BillingInv, TypeOK, GatewayType
<1>1. ASSUME NEW s \in Subs, Create(s) PROVE BillingInv'
  <2>1. /\ gateway' \in GatewayType
        /\ gateway[s].status = "none"
        /\ gateway'[s].status = "INITIALIZED"
        /\ \A t \in Subs \ {s} : gateway'[t] = gateway[t]
        /\ UNCHANGED <<today, workspace, subscription, inflight, sweep, authorised>>
    BY <1>1, <1>t DEF Create, GatewayType, Unborn, CashfreeStatuses
  <2>2. TypeOK'
    BY <1>1, <2>1 DEF BillingInv, TypeOK, Create, GatewayType
  <2>3. UnbornIsBlank' /\ ActiveIsAuthorised'
    BY <2>1 DEF BillingInv, UnbornIsBlank, ActiveIsAuthorised, Unborn
  <2>4. SnapshotsHappened'
    <3> SUFFICES ASSUME NEW m \in inflight
                 PROVE  /\ m.status = "ACTIVE" => m.sub \in authorised
                        /\ m.status \in Ended => gateway'[m.sub].status \in Ended
      BY <2>1 DEF SnapshotsHappened
    <3>1. m.sub \in Subs
      BY <1>t DEF Snapshot
    <3>2. CASE m.sub = s
      BY <3>2, <2>1 DEF BillingInv, SnapshotsHappened, Ended
    <3>3. CASE m.sub # s
      BY <3>1, <3>3, <2>1 DEF BillingInv, SnapshotsHappened
    <3> QED BY <3>2, <3>3
  <2>5. ScheduledHasId' /\ SweptHasEnded'
    BY <2>1 DEF BillingInv, ScheduledHasId, SweptHasEnded, Ended
  <2> QED BY <2>2, <2>3, <2>4, <2>5 DEF BillingInv
<1>2. ASSUME NEW s \in Subs, Record(s) PROVE BillingInv'
  <2>1. workspace' \in Workspace
    BY <1>2, <1>t, HandWrittenType DEF Record
  <2>2. s # NoSub
    BY BillingAssumption
  <2> QED
    BY <1>2, <2>1, <2>2
    DEF Record, BillingInv, TypeOK, UnbornIsBlank, ActiveIsAuthorised, SnapshotsHappened,
        ScheduledHasId, SweptHasEnded
<1>3. ASSUME NEW s \in Subs, Fetch(s) PROVE BillingInv'
  <2>1. gateway[s].status # "none"
    BY <1>3 DEF Fetch, BillingInv, UnbornIsBlank
  <2>2. /\ SnapshotOf(s) \in Snapshot
        /\ SnapshotOf(s).sub = s /\ SnapshotOf(s).status = gateway[s].status
    BY <2>1, <1>t DEF SnapshotOf, Snapshot, GatewayType
  <2>3. inflight' = inflight \cup {SnapshotOf(s)}
    BY <1>3 DEF Fetch, Carries
  <2>4. TypeOK'
    BY <1>3, <2>2, <2>3 DEF Fetch, BillingInv, TypeOK
  <2>5. SnapshotsHappened'
    BY <1>3, <2>2, <2>3 DEF Fetch, BillingInv, ActiveIsAuthorised, SnapshotsHappened
  <2> QED
    BY <1>3, <2>4, <2>5
    DEF Fetch, BillingInv, UnbornIsBlank, ActiveIsAuthorised, ScheduledHasId, SweptHasEnded
<1>4. ASSUME NEW m \in inflight, Apply(m) PROVE BillingInv'
  <2>1. m.sub \in Subs /\ m.status \in CashfreeStatuses /\ m.next \in Stamp
    BY <1>t DEF Snapshot
  <2>2. workspace' \in Workspace
    BY <1>4, <1>t, <2>1, BillingRows DEF Apply
  <2>3. subscription' # NoSub /\ subscription' \in Subs
    BY <1>4, <2>1, BillingAssumption DEF Apply
  <2>4. inflight' \subseteq inflight
    BY <1>4 DEF Apply
  <2> QED
    BY <1>4, <2>2, <2>3, <2>4
    DEF Apply, BillingInv, TypeOK, UnbornIsBlank, ActiveIsAuthorised, SnapshotsHappened,
        ScheduledHasId, SweptHasEnded
<1>5. ASSUME NEW m \in inflight, Lose(m) PROVE BillingInv'
  BY <1>5
  DEF Lose, BillingInv, TypeOK, UnbornIsBlank, ActiveIsAuthorised, SnapshotsHappened,
      ScheduledHasId, SweptHasEnded
<1>6. CASE ScheduleCancel
  <2>1. workspace' \in Workspace
    BY <1>6, <1>t, HandWrittenType DEF ScheduleCancel
  <2> QED
    BY <1>6, <2>1
    DEF ScheduleCancel, BillingInv, TypeOK, UnbornIsBlank, ActiveIsAuthorised, SnapshotsHappened,
        ScheduledHasId, SweptHasEnded
<1> QED BY <1>1, <1>2, <1>3, <1>4, <1>5, <1>6

\* The worker's sweep keeps it.
LEMMA SweepKeeps ==
    ASSUME BillingInv, SweepList \/ SweepCancel \/ SweepDrop \/ SweepFails
    PROVE  BillingInv'
<1>t. /\ today \in Day /\ workspace \in Workspace /\ gateway \in GatewayType
      /\ inflight \subseteq Snapshot
      /\ sweep \in SweepType
  BY DEF BillingInv, TypeOK, GatewayType, SweepType
<1>1. CASE SweepList
  <2>1. subscription \in Subs
    BY <1>1 DEF SweepList, Due, BillingInv, ScheduledHasId, TypeOK
  <2>2. sweep' = [step |-> "cancel", sub |-> subscription, presumed |-> FALSE]
    BY <1>1 DEF SweepList
  <2> QED
    BY <1>1, <2>1, <2>2
    DEF SweepList, BillingInv, TypeOK, UnbornIsBlank, ActiveIsAuthorised, SnapshotsHappened,
        ScheduledHasId, SweptHasEnded
<1>2. CASE SweepCancel
  <2>1. /\ sweep.sub \in Subs
        /\ UNCHANGED <<today, workspace, subscription, opening, authorised>>
    BY <1>2 DEF SweepCancel, BillingInv, SweptHasEnded
  <2>2. \E accepted \in BOOLEAN :
          /\ sweep' = [sweep EXCEPT !.step = "drop", !.presumed = IF accepted THEN @ ELSE TRUE]
          /\ \/ accepted /\ gateway[sweep.sub].status \notin Ended
                /\ GatewayGoes(sweep.sub, "CANCELLED", gateway[sweep.sub].next)
             \/ accepted /\ gateway[sweep.sub].status \in Ended /\ UNCHANGED <<gateway, inflight>>
             \/ ~accepted /\ UNCHANGED <<gateway, inflight>>
    <3>1. CASE sweep' = [sweep EXCEPT !.step = "drop", !.presumed = TRUE]
               /\ UNCHANGED <<gateway, inflight>>
      BY <3>1
    <3>2. CASE ~(sweep' = [sweep EXCEPT !.step = "drop", !.presumed = TRUE]
                 /\ UNCHANGED <<gateway, inflight>>)
      BY <1>2, <1>t, <3>2 DEF SweepCancel, SweepType
    <3> QED BY <3>1, <3>2
  <2>3. PICK accepted \in BOOLEAN :
          /\ sweep' = [sweep EXCEPT !.step = "drop", !.presumed = IF accepted THEN @ ELSE TRUE]
          /\ \/ accepted /\ gateway[sweep.sub].status \notin Ended
                /\ GatewayGoes(sweep.sub, "CANCELLED", gateway[sweep.sub].next)
             \/ accepted /\ gateway[sweep.sub].status \in Ended /\ UNCHANGED <<gateway, inflight>>
             \/ ~accepted /\ UNCHANGED <<gateway, inflight>>
    BY <2>2
  <2>4. sweep' \in SweepType /\ sweep'.sub = sweep.sub /\ (~accepted => sweep'.presumed)
    BY <2>3, <1>t DEF SweepType
  <2>5. /\ UnbornIsBlank' /\ ActiveIsAuthorised' /\ SnapshotsHappened'
        /\ gateway' \in GatewayType /\ inflight' \subseteq Snapshot
        /\ accepted => gateway'[sweep.sub].status \in Ended
    <3>1. CASE UNCHANGED <<gateway, inflight>>
          /\ (accepted => gateway[sweep.sub].status \in Ended)
      BY <2>1, <1>t, <3>1
      DEF BillingInv, UnbornIsBlank, ActiveIsAuthorised, SnapshotsHappened
    <3>2. CASE gateway[sweep.sub].status \notin Ended
               /\ GatewayGoes(sweep.sub, "CANCELLED", gateway[sweep.sub].next)
      <4>1. gateway[sweep.sub].next \in Stamp /\ "CANCELLED" \in CashfreeStatuses
            /\ "CANCELLED" \in Ended
        BY <1>t, <2>1 DEF GatewayType, CashfreeStatuses, Ended
      <4> QED BY <2>1, <3>2, <4>1, GatewayKeeps
    <3> QED BY <2>3, <3>1, <3>2
  <2>6. TypeOK'
    BY <2>1, <2>4, <2>5 DEF BillingInv, TypeOK, GatewayType, SweepType
  <2> QED BY <2>1, <2>4, <2>5, <2>6 DEF BillingInv, ScheduledHasId, SweptHasEnded
<1>3. CASE SweepDrop
  <2>1. workspace' \in Workspace /\ workspace'.cancelAtPeriodEnd = FALSE
    <3>1. "CANCELLED" \in CashfreeStatuses /\ Null \in Stamp
      BY DEF CashfreeStatuses, Stamp
    <3>2. workspace' \in Workspace
      BY <1>3, <1>t, <3>1, BillingRows DEF SweepDrop
    <3> QED BY <1>3, <1>t, <3>2 DEF SweepDrop, DroppedToFree, Workspace
  <2> QED
    BY <1>3, <2>1
    DEF SweepDrop, Idle, BillingInv, TypeOK, UnbornIsBlank, ActiveIsAuthorised, SnapshotsHappened,
        ScheduledHasId, SweptHasEnded
<1>4. CASE SweepFails
  BY <1>4
  DEF SweepFails, Idle, BillingInv, TypeOK, UnbornIsBlank, ActiveIsAuthorised, SnapshotsHappened,
      ScheduledHasId, SweptHasEnded
<1> QED BY <1>1, <1>2, <1>3, <1>4

\* Customers, banks and the gateway keep it.
LEMMA MandatesKeep ==
    ASSUME BillingInv, NEW s \in Subs, Gateway(s)
    PROVE  BillingInv'
<1>t. /\ today \in Day /\ gateway \in GatewayType
  BY DEF BillingInv, TypeOK, GatewayType
<1>1. /\ UNCHANGED <<today, workspace, subscription, opening, sweep>>
      /\ \E status \in CashfreeStatuses, next \in Stamp :
           /\ GatewayGoes(s, status, next)
           /\ gateway[s].status \notin Ended
           /\ authorised' = IF Authorise(s) THEN authorised \cup {s} ELSE authorised
           /\ status = "ACTIVE" => s \in authorised'
  <2>1. today + Term \in Stamp /\ Null \in Stamp /\ gateway[s].next \in Stamp
    BY <1>t, DurationsAssumption DEF Stamp, Day, GatewayType
  <2>2. CASE Authorise(s)
    BY <2>1, <2>2 DEF Authorise, CashfreeStatuses, Ended
  <2>3. CASE ~Authorise(s) /\ Charge(s)
    BY <2>1, <2>3 DEF Charge, CashfreeStatuses, Ended
  <2>4. CASE ~Authorise(s) /\ Falter(s)
    BY <2>1, <2>4 DEF Falter, CashfreeStatuses, Ended
  <2>5. CASE ~Authorise(s) /\ End(s)
    BY <2>1, <2>5 DEF End, CashfreeStatuses, Ended
  <2> QED BY <2>2, <2>3, <2>4, <2>5 DEF Gateway
<1>2. authorised \subseteq authorised' /\ authorised' \subseteq Subs
  BY <1>1 DEF BillingInv, TypeOK
<1>3. /\ UnbornIsBlank' /\ ActiveIsAuthorised' /\ SnapshotsHappened'
      /\ \A t \in Subs : gateway[t].status \in Ended => gateway'[t].status \in Ended
      /\ gateway' \in GatewayType /\ inflight' \subseteq Snapshot
  BY <1>1, <1>2, GatewayKeeps
<1>4. TypeOK'
  BY <1>1, <1>2, <1>3 DEF BillingInv, TypeOK, GatewayType
<1> QED BY <1>1, <1>3, <1>4 DEF BillingInv, ScheduledHasId, SweptHasEnded

LEMMA BillingNext == BillingInv /\ [Next]_vars => BillingInv'
<1> SUFFICES ASSUME BillingInv, [Next]_vars PROVE BillingInv'
  OBVIOUS
<1>1. ASSUME NEW s \in Subs, Gateway(s) PROVE BillingInv'
  BY <1>1, MandatesKeep
<1>2. CASE Tick
  BY <1>2
  DEF Tick, Day, BillingInv, TypeOK, UnbornIsBlank, ActiveIsAuthorised, SnapshotsHappened,
      ScheduledHasId, SweptHasEnded
<1>3. CASE UNCHANGED vars
  BY <1>3
  DEF vars, BillingInv, TypeOK, UnbornIsBlank, ActiveIsAuthorised, SnapshotsHappened,
      ScheduledHasId, SweptHasEnded
<1> QED BY <1>1, <1>2, <1>3, RoutesKeep, SweepKeeps DEF Next

LEMMA BillingInvariant == Spec => []BillingInv
<1>1. Init => BillingInv
  BY BillingInit
<1>2. BillingInv /\ [Next]_vars => BillingInv'
  BY BillingNext
<1> QED BY <1>1, <1>2, PTL DEF Spec

-----------------------------------------------------------------------------
(***************************************************************************)
(* The theorems.                                                           *)
(***************************************************************************)

\* Row, gateway, webhooks and sweep keep their types, and so the row stays one
\* the access clocks of packages/db/src/retention.ts are defined on.
THEOREM BillingTypeCorrect == Spec => []TypeOK
<1>1. BillingInv => TypeOK
  BY DEF BillingInv
<1> QED BY <1>1, BillingInvariant, PTL

\* A plan is never opened on an unpaid checkout: applySubscriptionToWorkspace
\* (web/src/lib/billing.ts) makes a workspace active only with the id of a mandate
\* that was approved, whichever answer it is late with.
THEOREM OnlyAuthorisedActivates == Spec => ActiveWasAuthorised
<1>1. ASSUME BillingInv, [Next]_vars,
             workspace.subscriptionStatus # "active",
             workspace'.subscriptionStatus = "active"
      PROVE  subscription' \in authorised
  <2>w. workspace \in Workspace
    BY <1>1 DEF BillingInv, TypeOK
  <2>1. \/ \E m \in inflight : Apply(m)
        \/ workspace'.subscriptionStatus \in {workspace.subscriptionStatus, "canceled"}
    BY <1>1, <2>w
    DEF Next, vars, Create, Record, Fetch, Gateway, Authorise, Charge, Falter, End, Lose,
        ScheduleCancel, SweepList, SweepCancel, SweepDrop, SweepFails, Tick,
        Touched, DroppedToFree, Workspace
  <2>2. PICK m \in inflight : Apply(m)
    BY <1>1, <2>1
  <2>3. /\ workspace'.subscriptionStatus = MapSubscriptionStatus(m.status)
        /\ subscription' = m.sub
    BY <2>2, <2>w DEF Apply, SubscriptionApplied, Workspace
  <2>4. m.status = "ACTIVE"
    BY <1>1, <2>3 DEF MapSubscriptionStatus, BillingInv, TypeOK, Snapshot
  <2> QED BY <1>1, <2>3, <2>4 DEF BillingInv, SnapshotsHappened
<1>2. BillingInv /\ [Next]_vars
        => [workspace.subscriptionStatus # "active" /\ workspace'.subscriptionStatus = "active"
             => subscription' \in authorised]_vars
  BY <1>1
<1> QED BY <1>2, BillingInvariant, PTL DEF Spec, ActiveWasAuthorised

\* A plan is only lost with the mandate that the row then names: neither a stale
\* webhook nor the sweep of worker/src/billing-sweep.ts frees a workspace whose
\* own mandate is not over, unless the sweep took a refusal for a cancellation or
\* the row was given another subscription after the sweep had read it.
THEOREM OnlyEndedFrees == Spec => OnlyAnEndedMandateFrees
<1>1. ASSUME BillingInv, [Next]_vars, LosesPlan
      PROVE  \/ gateway[subscription'].status \in Ended
             \/ Swept /\ (sweep.presumed \/ sweep.sub # subscription)
  <2>w. workspace \in Workspace
    BY <1>1 DEF BillingInv, TypeOK
  <2>1. \/ \E m \in inflight : Apply(m)
        \/ SweepDrop
        \/ workspace'.plan = workspace.plan
    BY <1>1, <2>w
    DEF Next, vars, Create, Record, Fetch, Gateway, Authorise, Charge, Falter, End, Lose,
        ScheduleCancel, SweepList, SweepCancel, SweepFails, Tick, Touched, Workspace
  <2>2. ASSUME NEW m \in inflight, Apply(m)
        PROVE  m.status \in Ended /\ subscription' = m.sub
    <3>1. workspace'.plan = IF MapSubscriptionStatus(m.status) = "canceled" THEN "free" ELSE "paid"
      BY <2>2, <2>w DEF Apply, SubscriptionApplied, Workspace
    <3> QED
      BY <1>1, <2>2, <3>1
      DEF LosesPlan, MapSubscriptionStatus, Ended, BillingInv, TypeOK, Snapshot, Apply
  <2>3. CASE SweepDrop
    <3>1. Swept /\ subscription' = subscription
      BY <2>3 DEF SweepDrop, Swept, Idle
    <3>2. ~sweep.presumed => gateway[sweep.sub].status \in Ended
      BY <1>1, <2>3 DEF SweepDrop, BillingInv, SweptHasEnded
    <3> QED BY <3>1, <3>2
  <2> QED BY <1>1, <2>1, <2>2, <2>3 DEF LosesPlan, BillingInv, SnapshotsHappened
<1>2. BillingInv /\ [Next]_vars
        => [LosesPlan => \/ gateway[subscription'].status \in Ended
                         \/ Swept /\ (sweep.presumed \/ sweep.sub # subscription)]_vars
  BY <1>1
<1> QED BY <1>2, BillingInvariant, PTL DEF Spec, OnlyAnEndedMandateFrees
=============================================================================
