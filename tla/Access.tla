------------------------------- MODULE Access -------------------------------
(***************************************************************************)
(* Who may write and whose photos may be deleted: the two clocks every     *)
(* part of PhotoDost reads off a workspace row, and what each writer does  *)
(* to the columns they are read from.                                      *)
(*                                                                         *)
(*   AccessEndedAt, PurgeDueAt   packages/db/src/retention.ts              *)
(*   SubscriptionBlock           apps/web/src/lib/storage.ts               *)
(*   New..., Renewed, ...        the statements that write the row         *)
(*                                                                         *)
(* Time is counted in days.  The three paid tiers differ in quota only, so *)
(* `plan' is "free" or "paid".  A warning timestamp is only ever compared  *)
(* with NULL, so it is a Boolean here ("it is set").                       *)
(***************************************************************************)
EXTENDS Integers

CONSTANTS
    Grace,          \* RETENTION_GRACE_DAYS
    FinalWindow,    \* RETENTION_FINAL_WARNING_DAYS
    Trial,          \* TRIAL_DAYS
    Term            \* PROVISIONED_DAYS

ASSUME DurationsAssumption ==
    /\ Grace \in Nat \ {0}
    /\ FinalWindow \in 1..Grace
    /\ Trial \in Nat \ {0}
    /\ Term \in Nat \ {0}

Null == -1                      \* a timestamp column that is NULL
Day == Nat
Stamp == Day \cup {Null}

Plans == {"free", "paid"}
SubscriptionStatuses == {"trialing", "active", "past_due", "canceled", "incomplete"}

Workspace ==
    [plan : Plans,
     subscriptionStatus : SubscriptionStatuses,
     currentPeriodEnd : Stamp,
     trialEndsAt : Stamp,
     cancelAtPeriodEnd : BOOLEAN,
     hasSubscription : BOOLEAN,         \* billing_subscription_id IS NOT NULL
     retentionWarned : BOOLEAN,         \* retention_warned_at IS NOT NULL
     retentionFinalWarned : BOOLEAN,    \* retention_final_warned_at IS NOT NULL
     photosPurged : BOOLEAN,            \* photos_purged_at IS NOT NULL
     updatedAt : Day]

(***************************************************************************)
(* The retention clock.  The SQL CASE takes the first branch that matches. *)
(***************************************************************************)
Coalesce(a, b) == IF a # Null THEN a ELSE b

PaidTermRanOut(ws, today) ==
    /\ ws.plan # "free"
    /\ ws.currentPeriodEnd # Null
    /\ ws.currentPeriodEnd <= today

\* The mistake the comment of accessEndedAtSql warns of: the trial branch first.
AccessEndedAtTrialFirst(ws, today) ==
    IF ws.plan = "free" /\ ws.trialEndsAt # Null THEN ws.trialEndsAt
    ELSE IF ws.subscriptionStatus = "past_due" THEN Null
    ELSE IF ws.subscriptionStatus = "canceled"
         THEN Coalesce(ws.currentPeriodEnd, ws.updatedAt)
    ELSE IF PaidTermRanOut(ws, today) THEN ws.currentPeriodEnd ELSE Null

AccessEndedAt(ws, today) ==
    IF ws.subscriptionStatus = "past_due" THEN Null
    ELSE IF ws.subscriptionStatus = "canceled"
         THEN Coalesce(ws.currentPeriodEnd, ws.updatedAt)
    ELSE IF PaidTermRanOut(ws, today) THEN ws.currentPeriodEnd
    ELSE IF ws.plan = "free" /\ ws.subscriptionStatus \in {"trialing", "incomplete"}
         THEN ws.trialEndsAt
    ELSE Null

PurgeDueAt(ws, today) ==
    IF AccessEndedAt(ws, today) = Null THEN Null
    ELSE AccessEndedAt(ws, today) + Grace

\* The two comparisons the sweep's queries make; NULL compares as false.
AccessEnded(ws, today) ==
    AccessEndedAt(ws, today) # Null /\ AccessEndedAt(ws, today) <= today

PurgeDue(ws, today) ==
    PurgeDueAt(ws, today) # Null /\ PurgeDueAt(ws, today) <= today

(***************************************************************************)
(* The write gate: "none" stands for the null the code returns.            *)
(***************************************************************************)
\* A gate that forgets the paid term.
SubscriptionBlockNoTerm(ws, today) ==
    IF ws.subscriptionStatus \in {"past_due", "canceled"} THEN ws.subscriptionStatus
    ELSE IF ws.plan = "free" /\ ws.trialEndsAt # Null /\ ws.trialEndsAt <= today
         THEN "trial_expired"
    ELSE "none"

SubscriptionBlock(ws, today) ==
    IF ws.subscriptionStatus \in {"past_due", "canceled"} THEN ws.subscriptionStatus
    ELSE IF PaidTermRanOut(ws, today) THEN "plan_expired"
    ELSE IF ws.plan = "free" /\ ws.trialEndsAt # Null /\ ws.trialEndsAt <= today
         THEN "trial_expired"
    ELSE "none"

(***************************************************************************)
(* The writers of the row.                                                 *)
(***************************************************************************)
\* createWorkspace: a self-serve sign-up gets the trial ...
NewTrialWorkspace(today) ==
    [plan |-> "free", subscriptionStatus |-> "trialing",
     currentPeriodEnd |-> Null, trialEndsAt |-> today + Trial,
     cancelAtPeriodEnd |-> FALSE, hasSubscription |-> FALSE,
     retentionWarned |-> FALSE, retentionFinalWarned |-> FALSE,
     photosPurged |-> FALSE, updatedAt |-> today]

\* ... and an account the admin sold gets the paid plan until the day sold.
NewProvisionedWorkspace(until, today) ==
    [NewTrialWorkspace(today) EXCEPT
        !.plan = "paid", !.subscriptionStatus = "active",
        !.currentPeriodEnd = until, !.trialEndsAt = Null]

\* extendAccountAction on a workspace that exists.
Renewed(ws, today) ==
    [ws EXCEPT !.currentPeriodEnd = today + Term,
               !.subscriptionStatus = "active",
               !.cancelAtPeriodEnd = FALSE,
               !.retentionWarned = FALSE,
               !.retentionFinalWarned = FALSE,
               !.updatedAt = today]

\* cancelAccountAction: the paid period is kept, so it stays the anchor.
CanceledByAdmin(ws, today) ==
    [ws EXCEPT !.subscriptionStatus = "canceled",
               !.cancelAtPeriodEnd = FALSE,
               !.updatedAt = today]

CashfreeStatuses == {"ACTIVE", "PAUSED", "FAILED", "CANCELLED", "COMPLETED", "INITIALIZED"}

\* The gateway's word stored as it is.
MapSubscriptionStatusAsSent(cashfreeStatus) == cashfreeStatus

MapSubscriptionStatus(cashfreeStatus) ==
    CASE cashfreeStatus = "ACTIVE" -> "active"
      [] cashfreeStatus \in {"PAUSED", "FAILED"} -> "past_due"
      [] cashfreeStatus \in {"CANCELLED", "COMPLETED"} -> "canceled"
      [] OTHER -> "incomplete"

\* applySubscriptionToWorkspace: what a webhook or a confirm writes.
SubscriptionApplied(ws, cashfreeStatus, nextScheduleDate, today) ==
    LET status == MapSubscriptionStatus(cashfreeStatus)
    IN  [ws EXCEPT !.plan = IF status = "canceled" THEN "free" ELSE "paid",
                   !.subscriptionStatus = status,
                   !.currentPeriodEnd = nextScheduleDate,
                   !.hasSubscription = TRUE,
                   !.cancelAtPeriodEnd = @ /\ status # "active",
                   !.updatedAt = today]

\* The update of sweepScheduledCancellationsOnce, after the gateway's CANCEL.
DroppedToFree(ws, today) ==
    [ws EXCEPT !.plan = "free",
               !.subscriptionStatus = "canceled",
               !.cancelAtPeriodEnd = FALSE,
               !.updatedAt = today]

\* purgeWorkspacePhotos marks the row in the transaction that deletes the assets.
Purged(ws, today) == [ws EXCEPT !.photosPurged = TRUE, !.updatedAt = today]

\* Every other statement that writes the row (a storage delta, a rename, the
\* nightly recount) refreshes updated_at and no column of the two clocks.
Touched(ws, today) == [ws EXCEPT !.updatedAt = today]
=============================================================================
