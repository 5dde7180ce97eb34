------------------------------- MODULE Billing -------------------------------
(***************************************************************************)
(* One workspace, the payment gateway, and everything that carries the     *)
(* state of a subscription from one to the other.                          *)
(*                                                                         *)
(*   Create, Record     POST billing/subscribe: at the gateway, on the row *)
(*   Fetch, Apply       POST billing/confirm, and webhooks: a snapshot of  *)
(*                      the subscription, then the unconditional UPDATE    *)
(*   ScheduleCancel     POST billing/cancel: the intent only               *)
(*   Sweep...           the worker's sweepScheduledCancellationsOnce       *)
(*   Authorise ... End  what customers, banks and the gateway do           *)
(*                                                                         *)
(* A webhook that carries status and tags is applied as it is, any other   *)
(* makes the handler fetch.  Either way a snapshot waits in `inflight' to  *)
(* be written, and those are written in any order, and webhooks again.     *)
(***************************************************************************)
EXTENDS Access, FiniteSets

CONSTANTS
    Subs,           \* subscription ids (a random suffix: never drawn twice)
    NoSub,          \* billing_subscription_id IS NULL
    MaxDay,         \* bound: the last day of a behaviour
    MaxInflight     \* bound: how many different snapshots wait at once

ASSUME BillingAssumption ==
    /\ NoSub \notin Subs
    /\ MaxDay \in Nat
    /\ MaxInflight \in Nat \ {0}

VARIABLES
    today,
    workspace,      \* the row
    subscription,   \* its billing_subscription_id
    gateway,        \* the subscriptions as the gateway knows them
    opening,        \* created at the gateway and not recorded on the row
    inflight,       \* snapshots in webhooks and in handlers that fetched
    sweep,          \* the row the worker handles: its step, the id it listed, and
                    \* whether a refusal of CANCEL was taken for a cancellation
    authorised      \* history: the mandates a customer has ever approved

vars == <<today, workspace, subscription, gateway, opening, inflight, sweep, authorised>>

Ended == {"CANCELLED", "COMPLETED"}
Unborn == [status |-> "none", next |-> Null]
Snapshot == [sub : Subs, status : CashfreeStatuses, next : Stamp]
Idle == [step |-> "idle", sub |-> NoSub, presumed |-> FALSE]

TypeOK ==
    /\ today \in Day
    /\ workspace \in Workspace
    /\ subscription \in Subs \cup {NoSub}
    /\ gateway \in [Subs -> [status : CashfreeStatuses \cup {"none"}, next : Stamp]]
    /\ opening \subseteq Subs
    /\ inflight \subseteq Snapshot
    /\ sweep \in [step : {"idle", "cancel", "drop"}, sub : Subs \cup {NoSub},
                  presumed : BOOLEAN]
    /\ authorised \subseteq Subs

Init ==
    /\ today = 0
    /\ workspace \in {NewTrialWorkspace(0), NewProvisionedWorkspace(Term, 0)}
    /\ subscription = NoSub
    /\ gateway = [s \in Subs |-> Unborn]
    /\ opening = {} /\ inflight = {} /\ authorised = {}
    /\ sweep = Idle

SnapshotOf(s) == [sub |-> s, status |-> gateway[s].status, next |-> gateway[s].next]

(***************************************************************************)
(* The routes.                                                             *)
(***************************************************************************)
\* createSubscription: the gateway has it from here on, also when the answer
\* has no session id or the request dies before it records it.
Create(s) ==
    /\ gateway[s] = Unborn
    /\ gateway' = [gateway EXCEPT ![s].status = "INITIALIZED"]
    /\ opening' = opening \cup {s}
    /\ UNCHANGED <<today, workspace, subscription, inflight, sweep, authorised>>

\* A route that counts the plan as bought when checkout opens.
RecordAsActive(s) ==
    /\ s \in opening
    /\ opening' = opening \ {s}
    /\ subscription' = s
    /\ workspace' = [Touched(workspace, today) EXCEPT !.hasSubscription = TRUE,
                                                      !.subscriptionStatus = "active"]
    /\ UNCHANGED <<today, gateway, inflight, sweep, authorised>>

\* Before checkout opens: the id, over whatever id was there; no status.
Record(s) ==
    /\ s \in opening
    /\ opening' = opening \ {s}
    /\ subscription' = s
    /\ workspace' = [Touched(workspace, today) EXCEPT !.hasSubscription = TRUE]
    /\ UNCHANGED <<today, gateway, inflight, sweep, authorised>>

Carries(snapshots) ==
    /\ Cardinality(inflight \cup snapshots) <= MaxInflight
    /\ inflight' = inflight \cup snapshots

\* confirm fetches the subscription of the row it read, a webhook without a
\* complete payload that of the event.
Fetch(s) ==
    /\ gateway[s] # Unborn
    /\ s = subscription \/ s \notin opening
    /\ Carries({SnapshotOf(s)})
    /\ UNCHANGED <<today, workspace, subscription, gateway, opening, sweep, authorised>>

\* applySubscriptionToWorkspace, by the workspace tag alone.  A handler applies
\* once; a webhook may be delivered again.
Apply(m) ==
    /\ m \in inflight
    /\ workspace' = SubscriptionApplied(workspace, m.status, m.next, today)
    /\ subscription' = m.sub
    /\ inflight' \in {inflight, inflight \ {m}}
    /\ UNCHANGED <<today, gateway, opening, sweep, authorised>>

\* The webhook is never delivered, or its handler or the confirm fails.
Lose(m) ==
    /\ m \in inflight
    /\ inflight' = inflight \ {m}
    /\ UNCHANGED <<today, workspace, subscription, gateway, opening, sweep, authorised>>

ScheduleCancel ==
    /\ subscription # NoSub
    /\ ~workspace.cancelAtPeriodEnd     \* else: already scheduled
    /\ workspace' = [Touched(workspace, today) EXCEPT !.cancelAtPeriodEnd = TRUE]
    /\ UNCHANGED <<today, subscription, gateway, opening, inflight, sweep, authorised>>

(***************************************************************************)
(* The worker's sweep.                                                     *)
(***************************************************************************)
Due ==
    /\ workspace.cancelAtPeriodEnd
    /\ workspace.currentPeriodEnd # Null
    /\ workspace.currentPeriodEnd <= today

\* The query: the id it returns is what the rest of the row's turn works with.
SweepList ==
    /\ sweep = Idle
    /\ Due
    /\ sweep' = [step |-> "cancel", sub |-> subscription, presumed |-> FALSE]
    /\ UNCHANGED <<today, workspace, subscription, gateway, opening, inflight, authorised>>

\* A state the gateway comes to, with the webhook that tells of it, or none.
GatewayGoes(s, status, next) ==
    /\ gateway' = [gateway EXCEPT ![s] = [status |-> status, next |-> next]]
    /\ \/ Carries({[sub |-> s, status |-> status, next |-> next]})
       \/ UNCHANGED inflight

\* A sweep that takes any failure of the call for a cancellation.
SweepCancelUnchecked ==
    /\ sweep.step = "cancel"
    /\ sweep' = [sweep EXCEPT !.step = "drop"]
    /\ UNCHANGED <<today, workspace, subscription, gateway, opening, inflight, authorised>>

\* cancelAtCashfree.  The gateway accepts, or the mandate is over already; or
\* it refuses with a text that says `already', `cancel', `not active' or `invalid
\* status', which is taken for "already cancelled" whatever the mandate is.
SweepCancel ==
    /\ sweep.step = "cancel"
    /\ LET over == gateway[sweep.sub].status \in Ended IN
       \/ /\ IF over THEN UNCHANGED <<gateway, inflight>>
                       ELSE GatewayGoes(sweep.sub, "CANCELLED", gateway[sweep.sub].next)
          /\ sweep' = [sweep EXCEPT !.step = "drop"]
       \/ /\ ~over
          /\ sweep' = [sweep EXCEPT !.step = "drop", !.presumed = TRUE]
          /\ UNCHANGED <<gateway, inflight>>
    /\ UNCHANGED <<today, workspace, subscription, opening, authorised>>

\* A drop that leaves the flag that brought the row here.
SweepDropKeepsFlag ==
    /\ sweep.step = "drop"
    /\ workspace' = [DroppedToFree(workspace, today) EXCEPT !.cancelAtPeriodEnd = TRUE]
    /\ sweep' = Idle
    /\ UNCHANGED <<today, subscription, gateway, opening, inflight, authorised>>

\* The UPDATE by primary key alone, whatever the row says by now.
SweepDrop ==
    /\ sweep.step = "drop"
    /\ workspace' = DroppedToFree(workspace, today)
    /\ sweep' = Idle
    /\ UNCHANGED <<today, subscription, gateway, opening, inflight, authorised>>

\* CANCEL or the UPDATE fails, or the worker dies: the flag is still set.
SweepFails ==
    /\ sweep # Idle
    /\ sweep' = Idle
    /\ UNCHANGED <<today, workspace, subscription, gateway, opening, inflight, authorised>>

(***************************************************************************)
(* The gateway, as the code uses it.  A mandate is authorised in checkout, *)
(* and checkout needs what the answer to Record hands to the browser.      *)
(***************************************************************************)
Authorise(s) ==
    /\ gateway[s].status \in {"INITIALIZED", "FAILED"} /\ s \notin opening
    /\ GatewayGoes(s, "ACTIVE", today + Term)
    /\ authorised' = authorised \cup {s}
    /\ UNCHANGED <<today, workspace, subscription, opening, sweep>>

\* The yearly debit: the next date moves on.
Charge(s) ==
    /\ s \in authorised
    /\ gateway[s].status \in {"ACTIVE", "FAILED", "PAUSED"} /\ gateway[s].next <= today
    /\ GatewayGoes(s, "ACTIVE", today + Term)
    /\ UNCHANGED <<today, workspace, subscription, opening, sweep, authorised>>

\* A debit fails or the customer pauses it; or the mandate fails in checkout
\* ("mandate or charge failed; recoverable by re-authorizing").
Falter(s) ==
    /\ \E status \in {"FAILED", "PAUSED"} :
          /\ \/ gateway[s].status = "ACTIVE"
             \/ gateway[s].status = "INITIALIZED" /\ status = "FAILED"
          /\ GatewayGoes(s, status, gateway[s].next)
    /\ UNCHANGED <<today, workspace, subscription, opening, sweep, authorised>>

\* The customer revokes the mandate at the bank, it has run its course, or the
\* gateway gives up a checkout that nobody finished.
End(s) ==
    /\ gateway[s].status \in {"INITIALIZED", "ACTIVE", "FAILED", "PAUSED"}
    /\ \E status \in Ended : GatewayGoes(s, status, Null)
    /\ UNCHANGED <<today, workspace, subscription, opening, sweep, authorised>>

Tick ==
    /\ today < MaxDay
    /\ today' = today + 1
    /\ UNCHANGED <<workspace, subscription, gateway, opening, inflight, sweep, authorised>>

Gateway(s) == Authorise(s) \/ Charge(s) \/ Falter(s) \/ End(s)

Next ==
    \/ \E s \in Subs : Create(s) \/ Record(s) \/ Fetch(s) \/ Gateway(s)
    \/ \E m \in inflight : Apply(m) \/ Lose(m)
    \/ ScheduleCancel
    \/ SweepList \/ SweepCancel \/ SweepDrop \/ SweepFails
    \/ Tick

Spec == Init /\ [][Next]_vars

\* The sweep runs at boot and every day, and works its list off.  Snapshots
\* that wait are written or lost.  The gateway does not refuse CANCEL for ever.
Fairness ==
    /\ WF_vars(SweepList)
    /\ WF_vars(\E m \in inflight : Lose(m))
    /\ SF_vars(SweepCancel)
    /\ SF_vars(SweepDrop)

FairSpec == Spec /\ Fairness

-----------------------------------------------------------------------------
(***************************************************************************)
(* What billing keeps.                                                     *)
(***************************************************************************)

\* "The subscription is not considered paid here" (subscribe/route.ts:30-33):
\* a workspace becomes active only by a mandate that a customer did approve, and
\* with the id of that mandate, however checkouts, confirms and webhooks overlap
\* and repeat, and whatever became of other checkouts.
ActiveWasAuthorised ==
    [][workspace.subscriptionStatus # "active" /\ workspace'.subscriptionStatus = "active"
         => subscription' \in authorised]_vars

LosesPlan == workspace.plan = "paid" /\ workspace'.plan = "free"
Swept == sweep # Idle /\ sweep' = Idle

\* A failed or paused debit, an abandoned checkout or a failing CANCEL never
\* costs a workspace its plan: it drops to `free' only with the mandate that its
\* row then names, and when that one is over at the gateway.  The two ways in
\* which the sweep does otherwise, against billing-sweep.ts:120-122, are named: a
\* refusal it took for a cancellation, and a row that was given another
\* subscription after the sweep had read it.
\* (A webhook names the mandate it is about: the late end of an old one frees the
\* row, whatever other mandate is live.)
OnlyAnEndedMandateFrees ==
    [][LosesPlan => \/ gateway[subscription'].status \in Ended
                    \/ Swept /\ (sweep.presumed \/ sweep.sub # subscription)]_vars

\* "Without this, a scheduled cancellation would never take effect"
\* (billing-sweep.ts:16): a cancellation that is due does not stay due, across
\* refused CANCELs, failed updates and deaths of the worker.  (It may also stop
\* being due because a snapshot that says ACTIVE, old or new, clears the flag.)
CancellationTakesEffect == []<>~Due
=============================================================================
