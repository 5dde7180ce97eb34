------------------------------ MODULE Accounts ------------------------------
(***************************************************************************)
(* How a customer gets, keeps and uses a studio.                           *)
(*                                                                         *)
(*   CreateUser, ParkPlan    createAccountAction: the plan paid for in     *)
(*                           person is parked on the user                  *)
(*   Submit ... Commit       onboarding: createWorkspace collects it       *)
(*   Extend, Cancel          the admin's buttons, on the rows of a page    *)
(*                           loaded some time ago                          *)
(*   CheckEvent, InsertEvent createEvent: gate and event quota, insert      *)
(*   Mirror, Drop            a webhook or a confirm, and the billing sweep  *)
(*   LogIn, Miss, Redeploy   the admin's own sign-in and its lockout       *)
(*                                                                         *)
(* A request is a slot that remembers what it has read.  The slug of a     *)
(* studio and its clash with another's are one reason for CommitFails.     *)
(***************************************************************************)
EXTENDS Access, FiniteSets, Sequences

CONSTANTS
    Customers,      \* users the admin creates
    SelfServe,      \* users who signed up with Google
    Submissions,    \* onboarding requests in flight at a time
    Creators,       \* createEvent requests in flight at a time
    Studios,        \* ids of workspaces
    NoStudio,
    FreeEvents,     \* the event quota of the free trial
    MaxEvents,      \* bound: events of a studio
    MaxDay,         \* bound: days
    MaxAttempts,    \* MAX_ATTEMPTS
    Lockout,        \* LOCKOUT_MS, in minutes
    MaxGuessDay,    \* bound: the last day on which sign-ins fail
    Gateway         \* is there a payment gateway whose word reaches the rows?

Users == Customers \cup SelfServe
NoUser == "nobody"

ASSUME AccountsAssumption ==
    /\ Customers \cap SelfServe = {}
    /\ NoUser \notin Users /\ NoStudio \notin Studios
    /\ IsFiniteSet(Submissions) /\ IsFiniteSet(Creators) /\ IsFiniteSet(Studios)
    /\ {MaxEvents, MaxDay, MaxGuessDay} \subseteq Nat
    /\ {FreeEvents, MaxAttempts, Lockout} \subseteq Nat \ {0}
    /\ Gateway \in BOOLEAN

VARIABLES
    today,
    user,       \* the user rows: how far created, the plan parked, until when
    owner,      \* the membership: whose studio it is, NoUser if there is none
    ws,         \* the workspace rows
    events,     \* how many events each studio has
    submit,     \* each onboarding request
    create,     \* the studio each createEvent request was let through for
    page,       \* the rows of the admin's page as last loaded
    signedIn,   \* does the admin's cookie still count?
    attempts,   \* failed sign-ins of one address: how many, how old the first
    misses,     \* history: the ages of the failures since a success or a
                \* redeploy that are no older than the lockout, oldest first
    sold,       \* history: until when each customer has paid
    raced       \* history: users whose requests or renewals overlapped, or whose
                \* studio the gateway has written

accounts == <<user, owner, ws>>
requests == <<submit, create>>
login == <<signedIn, attempts, misses>>
history == <<sold, raced>>
vars == <<today, accounts, events, requests, page, login, history>>

Idle == [phase |-> "idle", user |-> NoUser, plan |-> "free", until |-> Null]
NoAttempts == [count |-> 0, age |-> 0]

Row == [user : Users, studio : Studios \cup {NoStudio}, canceled : BOOLEAN]

TypeOK ==
    /\ today \in 0..MaxDay
    /\ user \in [Users -> [state : {"absent", "creating", "orphaned", "ready"},
                           provisionedPlan : Plans, provisionedUntil : Stamp]]
    /\ owner \in [Studios -> Users \cup {NoUser}]
    /\ DOMAIN ws = {w \in Studios : owner[w] # NoUser}
    /\ \A w \in DOMAIN ws : ws[w] \in Workspace
    /\ events \in [Studios -> 0..MaxEvents]
    /\ submit \in [Submissions -> [phase : {"idle", "checked", "read"},
                                   user : Users \cup {NoUser},
                                   plan : Plans, until : Stamp]]
    /\ create \in [Creators -> Studios \cup {NoStudio}]
    /\ page \subseteq Row
    /\ signedIn \in BOOLEAN
    /\ attempts \in [count : 0..MaxAttempts, age : 0 .. Lockout + 1]
    /\ misses \in Seq(0..Lockout)
    /\ sold \in [Customers -> Stamp]
    /\ raced \subseteq Users

Init ==
    /\ today = 0
    /\ user = [u \in Users |->
                 [state |-> IF u \in SelfServe THEN "ready" ELSE "absent",
                  provisionedPlan |-> "free", provisionedUntil |-> Null]]
    /\ owner = [w \in Studios |-> NoUser]
    /\ ws = [w \in {} |-> NoStudio]
    /\ events = [w \in Studios |-> 0]
    /\ submit = [s \in Submissions |-> Idle]
    /\ create = [r \in Creators |-> NoStudio]
    /\ page = {}
    /\ signedIn = FALSE
    /\ attempts = NoAttempts /\ misses = <<>>
    /\ sold = [u \in Customers |-> Null] /\ raced = {}

\* getWorkspaceForUser takes one of these, in no stated order.
StudiosOf(u) == {w \in Studios : owner[w] = u}

(***************************************************************************)
(* The admin's page.                                                       *)
(***************************************************************************)
\* A trial told by its status, which a renewal changes.
IsTrialByStatus(row) == row.subscriptionStatus = "trialing"

IsTrial(row) == row.plan = "free"

\* A term that is on no row yet is the one parked on the user.
EndsAt(w) ==
    IF IsTrial(ws[w]) THEN ws[w].trialEndsAt
    ELSE Coalesce(ws[w].currentPeriodEnd, user[owner[w]].provisionedUntil)

\* The pill of an account that is set up; it and the gate never meet on another.
StatusPill(w) ==
    LET left == EndsAt(w) - today
    IN  IF ws[w].subscriptionStatus = "canceled" THEN "Cancelled"
        ELSE IF EndsAt(w) # Null /\ left <= 0 THEN "Expired"
        ELSE IF IsTrial(ws[w]) THEN "Trial"
        ELSE IF EndsAt(w) # Null /\ left <= 30 THEN "Expiring"
        ELSE "Active"

\* What summarize counts the studio as.
CountedAs(w) ==
    IF ws[w].subscriptionStatus = "canceled" \/ EndsAt(w) \in 0..today THEN "neither"
    ELSE IF IsTrial(ws[w]) THEN "trial" ELSE "active"

\* listAdminAccounts: a LEFT JOIN, so a user without a studio is a row too.
Listed ==
    {[user |-> owner[w], studio |-> w,
      canceled |-> ws[w].subscriptionStatus = "canceled"] : w \in DOMAIN ws}
    \cup {[user |-> u, studio |-> NoStudio, canceled |-> FALSE] :
            u \in {x \in Users : user[x].state # "absent" /\ StudiosOf(x) = {}}}

\* The browser sends one server action at a time.
Provisioning == \E u \in Customers : user[u].state = "creating"

LoadPage ==
    /\ signedIn /\ ~Provisioning
    /\ page' = Listed
    /\ UNCHANGED <<today, accounts, events, requests, login, history>>

\* Every admin action checks the cookie first and reloads the page after.
AdminActs(row) == signedIn /\ ~Provisioning /\ row \in page

Collecting(u) == \E s \in Submissions : submit[s].user = u /\ submit[s].phase = "read"

\* The renewal of someone whose row had a studio on the page; the columns are
\* written whatever the row is by now.
ExtendStudio(row) ==
    /\ AdminActs(row) /\ row.studio # NoStudio
    /\ ws' = [ws EXCEPT ![row.studio] = Renewed(@, today)]
    /\ sold' = [sold EXCEPT ![row.user] = today + Term]
    /\ UNCHANGED <<today, user, owner, events, requests, login, raced>>
    /\ page' = Listed'

\* "Not onboarded yet" is what the page said: the parked record is extended,
\* also when a studio has been opened since, which then never hears of it.
ExtendParked(row) ==
    /\ AdminActs(row) /\ row.studio = NoStudio
    /\ user' = [user EXCEPT ![row.user].provisionedUntil = today + Term]
    /\ sold' = [sold EXCEPT ![row.user] = today + Term]
    /\ raced' = IF StudiosOf(row.user) # {} \/ Collecting(row.user)
                THEN raced \cup {row.user} ELSE raced
    /\ UNCHANGED <<today, owner, ws, events, requests, login>>
    /\ page' = Listed'

CancelAccount(row) ==
    /\ AdminActs(row) /\ row.studio # NoStudio /\ ~row.canceled
    /\ ws' = [ws EXCEPT ![row.studio] = CanceledByAdmin(@, today)]
    /\ UNCHANGED <<today, user, owner, events, requests, login, history>>
    /\ page' = Listed'

(***************************************************************************)
(* createAccountAction.  The library's insert may or may not carry the     *)
(* plan through, so a second statement writes it before the credentials    *)
(* are shown.  If that one fails the form says so, but the account is there *)
(* and has the password that the admin has just typed.                     *)
(***************************************************************************)
CreateUser(u) ==
    /\ signedIn /\ ~Provisioning /\ user[u].state = "absent"
    /\ \E carried \in BOOLEAN :
         user' = [user EXCEPT ![u] =
                    [state |-> "creating",
                     provisionedPlan |-> IF carried THEN "paid" ELSE "free",
                     provisionedUntil |-> IF carried THEN today + Term ELSE Null]]
    /\ sold' = [sold EXCEPT ![u] = today + Term]
    /\ UNCHANGED <<today, owner, ws, events, requests, page, login, raced>>

\* The adapter trusted with the plan.
ParkNothing(u) ==
    /\ user[u].state = "creating"
    /\ user' = [user EXCEPT ![u].state = "ready"]
    /\ UNCHANGED <<today, owner, ws, events, requests, login, history>>
    /\ page' = Listed'

ParkPlan(u) ==
    /\ user[u].state = "creating"
    /\ user' = [user EXCEPT ![u] = [state |-> "ready", provisionedPlan |-> "paid",
                                    provisionedUntil |-> sold[u]]]
    /\ UNCHANGED <<today, owner, ws, events, requests, login, history>>
    /\ page' = Listed'

ParkFails(u) ==
    /\ user[u].state = "creating"
    /\ user' = [user EXCEPT ![u].state = "orphaned"]
    /\ UNCHANGED <<today, owner, ws, events, requests, page, login, history>>

(***************************************************************************)
(* createWorkspaceAction.                                                  *)
(***************************************************************************)
\* "Idempotent: if they already have a workspace, just go to the app."
Submit(s, u) ==
    /\ submit[s].phase = "idle"
    /\ user[u].state \in {"ready", "orphaned"} /\ StudiosOf(u) = {}
    /\ submit' = [submit EXCEPT ![s] = [Idle EXCEPT !.phase = "checked", !.user = u]]
    /\ raced' = IF \E other \in Submissions : submit[other].user = u
                THEN raced \cup {u} ELSE raced
    /\ UNCHANGED <<today, accounts, events, create, page, login, sold>>

\* The transaction, READ COMMITTED: what was parked is read without a lock ...
ReadOwner(s) ==
    /\ submit[s].phase = "checked"
    /\ LET u == submit[s].user
       IN  submit' = [submit EXCEPT ![s] =
                        [phase |-> "read", user |-> u,
                         plan |-> user[u].provisionedPlan,
                         until |-> user[u].provisionedUntil]]
    /\ UNCHANGED <<today, accounts, events, create, page, login, history>>

NewWorkspace(parked) ==
    IF parked.plan = "free" THEN NewTrialWorkspace(today)
    ELSE NewProvisionedWorkspace(Coalesce(parked.until, today + Term), today)

Open(s, w) ==
    /\ submit[s].phase = "read" /\ owner[w] = NoUser
    /\ owner' = [owner EXCEPT ![w] = submit[s].user]
    /\ ws' = [v \in DOMAIN ws \cup {w} |->
                IF v = w THEN NewWorkspace(submit[s]) ELSE ws[v]]
    /\ submit' = [submit EXCEPT ![s] = Idle]

\* The record left behind by whoever collects it.
CommitKeepingRecord(s, w) ==
    /\ Open(s, w)
    /\ UNCHANGED <<today, user, events, create, page, login, history>>

\* ... and cleared with the insert of the studio and of the membership.
Commit(s, w) ==
    /\ Open(s, w)
    /\ user' = IF submit[s].plan = "free" THEN user
               ELSE [user EXCEPT ![submit[s].user].provisionedPlan = "free",
                                 ![submit[s].user].provisionedUntil = Null]
    /\ UNCHANGED <<today, events, create, page, login, history>>

\* The transaction rolls back: the slug was taken meanwhile, or the database
\* is away.  "Please try again."
CommitFails(s) ==
    /\ submit[s].phase = "read"
    /\ submit' = [submit EXCEPT ![s] = Idle]
    /\ UNCHANGED <<today, accounts, events, create, page, login, history>>

(***************************************************************************)
(* createEvent.                                                            *)
(***************************************************************************)
\* event_quota is NULL, unlimited, on every paid plan.
Unlimited(w) == ws[w].plan # "free"

\* The cap reached and not refused.
WithinQuotaOrAt(w) == Unlimited(w) \/ events[w] <= FreeEvents

WithinQuota(w) == Unlimited(w) \/ events[w] < FreeEvents

\* The gate, then the count; the refusals leave nothing behind.
CheckEvent(r, w) ==
    /\ create[r] = NoStudio /\ w \in DOMAIN ws
    /\ SubscriptionBlock(ws[w], today) = "none"
    /\ WithinQuota(w)
    /\ create' = [create EXCEPT ![r] = w]
    /\ UNCHANGED <<today, accounts, events, submit, page, login, history>>

InsertEvent(r) ==
    /\ create[r] # NoStudio /\ events[create[r]] < MaxEvents
    /\ events' = [events EXCEPT ![create[r]] = @ + 1]
    /\ create' = [create EXCEPT ![r] = NoStudio]
    /\ UNCHANGED <<today, accounts, submit, page, login, history>>

(***************************************************************************)
(* The gateway's word, which may be of any status and any date, and late.  *)
(***************************************************************************)
\* applySubscriptionToWorkspace, from a webhook or from a confirm.
Mirror(w) ==
    /\ Gateway /\ w \in DOMAIN ws
    /\ \E status \in CashfreeStatuses, next \in {Null} \cup 0 .. today + Term :
         ws' = [ws EXCEPT ![w] = SubscriptionApplied(@, status, next, today)]
    /\ raced' = raced \cup {owner[w]}
    /\ UNCHANGED <<today, user, owner, events, requests, page, login, sold>>

\* The billing sweep writes by primary key: a row it listed when a cancellation
\* was due, whatever has been written to it since.
Drop(w) ==
    /\ Gateway /\ w \in DOMAIN ws /\ ws[w].hasSubscription
    /\ ws' = [ws EXCEPT ![w] = DroppedToFree(@, today)]
    /\ raced' = raced \cup {owner[w]}
    /\ UNCHANGED <<today, user, owner, events, requests, page, login, sold>>

(***************************************************************************)
(* The admin's sign-in.  adminLogin checks and records without yielding in *)
(* between, so each attempt is one step; the counter lives in the process. *)
(* Bound: attempts fail on the first days, and while nobody is signed in.  *)
(***************************************************************************)
Expired == attempts.age > Lockout

\* One attempt too many.
IsLockedOutOneLater == ~Expired /\ attempts.count > MaxAttempts

IsLockedOut == ~Expired /\ attempts.count >= MaxAttempts

LogIn ==
    /\ ~IsLockedOut
    /\ signedIn' = TRUE
    /\ attempts' = NoAttempts /\ misses' = <<>>
    /\ UNCHANGED <<today, accounts, events, requests, history>>
    /\ page' = Listed

Miss ==
    /\ ~signedIn /\ today <= MaxGuessDay
    /\ ~IsLockedOut
    /\ attempts' = IF attempts.count = 0 \/ Expired THEN [count |-> 1, age |-> 0]
                   ELSE [attempts EXCEPT !.count = @ + 1]
    /\ misses' = Append(misses, 0)
    /\ UNCHANGED <<today, accounts, events, requests, page, signedIn, history>>

\* "reset by deploys"
Redeploy ==
    /\ attempts' = NoAttempts /\ misses' = <<>>
    /\ UNCHANGED <<today, accounts, events, requests, page, signedIn, history>>

\* logoutAction, or the cookie's eight hours are over.
LogOut ==
    /\ signedIn /\ signedIn' = FALSE
    /\ UNCHANGED <<today, accounts, events, requests, page, attempts, misses, history>>

\* An entry past the lockout does not age further, nor does the absence of one.
Minute ==
    /\ attempts' = [attempts EXCEPT !.age = IF attempts.count = 0 \/ Expired THEN @ ELSE @ + 1]
    /\ \E old \in 0 .. Len(misses) :
         /\ \A i \in DOMAIN misses : i <= old <=> misses[i] = Lockout
         /\ misses' = [i \in 1 .. Len(misses) - old |-> misses[i + old] + 1]
    /\ UNCHANGED <<today, accounts, events, requests, page, signedIn, history>>

\* A day is longer than the lockout and than the cookie.
Tick ==
    /\ today < MaxDay /\ today' = today + 1
    /\ signedIn' = FALSE
    /\ attempts' = NoAttempts /\ misses' = <<>>
    /\ UNCHANGED <<accounts, events, requests, page, history>>

Next ==
    \/ LoadPage \/ LogIn \/ LogOut \/ Miss \/ Redeploy \/ Minute \/ Tick
    \/ \E row \in page : ExtendStudio(row) \/ ExtendParked(row) \/ CancelAccount(row)
    \/ \E u \in Customers : CreateUser(u) \/ ParkPlan(u) \/ ParkFails(u)
    \/ \E s \in Submissions :
         \/ \E u \in Users : Submit(s, u)
         \/ ReadOwner(s) \/ CommitFails(s)
         \/ \E w \in Studios : Commit(s, w)
    \/ \E r \in Creators :
         InsertEvent(r) \/ \E w \in Studios : CheckEvent(r, w)
    \/ \E w \in DOMAIN ws : Mirror(w) \/ Drop(w)

Spec == Init /\ [][Next]_vars

(***************************************************************************)
(* Properties                                                              *)
(***************************************************************************)
\* The term a customer paid for is on record in one place, until the day sold:
\* parked on the user before onboarding, and after it on the one studio, with
\* nothing left to collect a second time.  Excepted are
\*   - customers whose own onboarding requests overlapped;
\*   - renewals that landed on the parked record while it was being collected or
\*     after (a page the admin loaded before onboarding);
\*   - studios that the gateway has written, which owes the sold term nothing;
\*   - accounts whose second statement failed ("orphaned"): they can sign in and
\*     onboard, onto the trial if the first statement carried no plan.
SoldTermIsKept ==
    \A u \in Customers \ raced : user[u].state = "ready" =>
        \/ /\ StudiosOf(u) = {}
           /\ user[u].provisionedPlan = "paid" /\ user[u].provisionedUntil = sold[u]
        \/ /\ user[u].provisionedPlan = "free"
           /\ \E w \in Studios :
                /\ StudiosOf(u) = {w}
                /\ ws[w].plan = "paid" /\ ws[w].currentPeriodEnd = sold[u]

\* What the admin reads off the page is what the customer meets: the pill says
\* that an account is over, and the summary stops counting it, exactly when
\* createEvent and the uploads refuse it.  Three pieces of code compute this
\* from the row, each in its own way.  Of a studio the gateway never wrote this
\* holds without exception.  Of one it did, two kinds of row are excepted, and on
\* both the page is wrong: past_due, which the gate refuses and the page does not
\* know; and a paid plan without a period end, which the gate lets through and
\* whose pill falls back to a date that may still be parked on the user.
PillTellsTheGate ==
    \A w \in DOMAIN ws :
        LET open == SubscriptionBlock(ws[w], today) = "none"
        IN  (ws[w].hasSubscription =>
                /\ ws[w].subscriptionStatus # "past_due"
                /\ ws[w].plan = "free" \/ ws[w].currentPeriodEnd # Null)
            => /\ StatusPill(w) \notin {"Cancelled", "Expired"} <=> open
               /\ CountedAs(w) # "neither" <=> open

\* A trial goes over its event quota by no more than the requests that raced
\* the last one admitted ("a concurrent create could momentarily exceed").  A
\* studio the gateway dropped to `free' keeps the events of its paid days.
EventsWithinQuota ==
    \A w \in DOMAIN ws : ws[w].plan = "free" /\ ~ws[w].hasSubscription =>
        events[w] <= FreeEvents + Cardinality(Creators) - 1

\* Wrong guesses between a success or a deploy and the next: the window is
\* counted from its first failure and not from the last, so a stretch as long
\* as the lockout may straddle two windows, never more.
GuessesAreFew == Len(misses) <= 2 * MaxAttempts - 1

\* Both caps hold up to their slack: events up to the requests that race the last
\* one admitted, wrong guesses up to two windows less one.
CapsHold == EventsWithinQuota /\ GuessesAreFew
=============================================================================
