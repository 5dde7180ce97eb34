--------------------------- MODULE AccountsProofs ---------------------------
(***************************************************************************)
(* What Accounts keeps for any number of customers, studios and requests   *)
(* in flight, any term, quota and lockout.                                 *)
(***************************************************************************)
EXTENDS Accounts, FiniteSetTheorems, SequenceTheorems, TLAPS

-----------------------------------------------------------------------------
\* The rows that onboarding, the admin and the gateway write.
LEMMA AccountRows ==
    ASSUME NEW now \in Day
    PROVE  /\ NewTrialWorkspace(now) \in Workspace
           /\ \A until \in Day : NewProvisionedWorkspace(until, now) \in Workspace
           /\ \A row \in Workspace : /\ Renewed(row, now) \in Workspace
                                     /\ CanceledByAdmin(row, now) \in Workspace
                                     /\ DroppedToFree(row, now) \in Workspace
           /\ \A row \in Workspace, status \in CashfreeStatuses, next \in Stamp :
                SubscriptionApplied(row, status, next, now) \in Workspace
<1>1. NewTrialWorkspace(now) \in Workspace
  BY DurationsAssumption
  DEF NewTrialWorkspace, Workspace, Plans, SubscriptionStatuses, Stamp, Day, Null
<1>2. ASSUME NEW until \in Day PROVE NewProvisionedWorkspace(until, now) \in Workspace
  BY <1>1 DEF NewProvisionedWorkspace, Workspace, Plans, SubscriptionStatuses, Stamp, Day, Null
<1>3. ASSUME NEW row \in Workspace PROVE Renewed(row, now) \in Workspace
  <2>1. now + Term \in Stamp
    BY DurationsAssumption DEF Day, Stamp
  <2> QED BY <2>1 DEF Renewed, Workspace, SubscriptionStatuses
<1>4. ASSUME NEW row \in Workspace PROVE CanceledByAdmin(row, now) \in Workspace
  BY DEF CanceledByAdmin, Workspace, Plans, SubscriptionStatuses, Stamp, Day, Null
<1>5. ASSUME NEW row \in Workspace PROVE DroppedToFree(row, now) \in Workspace
  BY DEF DroppedToFree, Workspace, Plans, SubscriptionStatuses, Stamp, Day, Null
<1>6. ASSUME NEW row \in Workspace, NEW status \in CashfreeStatuses, NEW next \in Stamp
      PROVE  SubscriptionApplied(row, status, next, now) \in Workspace
  <2>1. MapSubscriptionStatus(status) \in SubscriptionStatuses
    BY DEF MapSubscriptionStatus, SubscriptionStatuses, CashfreeStatuses
  <2> QED BY <2>1 DEF SubscriptionApplied, Workspace, Plans, Stamp, Day, Null
<1> QED BY <1>1, <1>2, <1>3, <1>4, <1>5, <1>6

-----------------------------------------------------------------------------
(***************************************************************************)
(* Types.                                                                  *)
(***************************************************************************)
\* A request that is under way is somebody's.
SubmissionsHaveUsers ==
  \A s \in Submissions : submit[s].phase = "idle" <=> submit[s].user = NoUser

\* However old the page is, a studio on it is still its user's.
RowsAreOwned ==
  \A row \in page : row.studio # NoStudio => owner[row.studio] = row.user

AccountsInv == TypeOK /\ SubmissionsHaveUsers /\ RowsAreOwned

\* Whatever the two tables hold, what the admin's page loads are rows, and
\* they name the owners of the studios there are.
LEMMA ListedRows ==
  ASSUME owner' \in [Studios -> Users \cup {NoUser}],
         (DOMAIN ws)' = {w \in Studios : owner'[w] # NoUser}
  PROVE  (Listed \subseteq Row /\ \A row \in Listed :
            row.studio # NoStudio => owner[row.studio] = row.user)'
<1>1. ASSUME NEW row \in Listed'
      PROVE  row \in Row /\ (row.studio # NoStudio => owner'[row.studio] = row.user)
  <2>1. CASE \E w \in (DOMAIN ws)' :
               row = [user |-> owner'[w], studio |-> w,
                      canceled |-> ws'[w].subscriptionStatus = "canceled"]
    BY <2>1 DEF Row
  <2>2. CASE \E u \in Users :
               row = [user |-> u, studio |-> NoStudio, canceled |-> FALSE]
    BY <2>2 DEF Row
  <2> QED BY <1>1, <2>1, <2>2 DEF Listed
<1> QED BY <1>1 DEF Row

\* A page loaded in a step that may have changed the two tables.
LEMMA PageIsListed ==
  ASSUME owner' \in [Studios -> Users \cup {NoUser}],
         (DOMAIN ws)' = {w \in Studios : owner'[w] # NoUser},
         page' = Listed'
  PROVE  page' \subseteq Row /\ RowsAreOwned'
<1>1. (Listed \subseteq Row /\ \A row \in Listed :
         row.studio # NoStudio => owner[row.studio] = row.user)'
  BY ListedRows
<1> QED BY <1>1 DEF RowsAreOwned

\* A row on the page with a studio: the studio is there.
LEMMA RowHasStudio ==
  ASSUME AccountsInv, NEW row \in page, row.studio # NoStudio
  PROVE  /\ row.user \in Users /\ row.studio \in Studios
         /\ row.studio \in DOMAIN ws /\ owner[row.studio] = row.user
         /\ ws[row.studio] \in Workspace
BY AccountsAssumption DEF AccountsInv, TypeOK, RowsAreOwned, Row

\* What the gateway or its sweep may do to the row of one studio.
GatewayRows(row, now) ==
  {DroppedToFree(row, now)} \cup
  {SubscriptionApplied(row, status, next, now) :
     status \in CashfreeStatuses, next \in {Null} \cup 0 .. now + Term}

LEMMA GatewayStep ==
  ASSUME AccountsInv, NEW w \in DOMAIN ws, Mirror(w) \/ Drop(w)
  PROVE  /\ w \in Studios /\ owner[w] \in Users
         /\ DOMAIN ws' = DOMAIN ws
         /\ ws'[w] \in GatewayRows(ws[w], today)
         /\ \A v \in DOMAIN ws \ {w} : ws'[v] = ws[v]
         /\ raced' = raced \cup {owner[w]}
         /\ UNCHANGED <<today, user, owner, events, requests, page, login, sold>>
<1>1. w \in Studios /\ owner[w] \in Users
  BY DEF AccountsInv, TypeOK
<1>2. CASE Mirror(w)
  BY <1>1, <1>2 DEF Mirror, GatewayRows
<1>3. CASE Drop(w)
  BY <1>1, <1>3 DEF Drop, GatewayRows
<1> QED BY <1>2, <1>3

\* They are rows, and their plan tells of a subscription.
LEMMA GatewayRowTypes ==
  ASSUME NEW old \in Workspace, NEW now \in Day, NEW new \in GatewayRows(old, now)
  PROVE  /\ new \in Workspace
         /\ new.hasSubscription \/ new = DroppedToFree(old, now)
<1>1. \A next \in {Null} \cup 0 .. now + Term : next \in Stamp
  BY DurationsAssumption DEF Stamp, Day
<1>2. CASE new = DroppedToFree(old, now)
  BY <1>2, AccountRows
<1>3. ASSUME NEW status \in CashfreeStatuses, NEW next \in {Null} \cup 0 .. now + Term,
             new = SubscriptionApplied(old, status, next, now)
      PROVE  new \in Workspace /\ new.hasSubscription
  <2>1. new \in Workspace
    BY <1>1, <1>3, AccountRows
  <2>2. SubscriptionApplied(old, status, next, now).hasSubscription
    BY DEF SubscriptionApplied, Workspace
  <2> QED BY <1>3, <2>1, <2>2
<1> QED BY <1>2, <1>3 DEF GatewayRows

LEMMA ClearedRecord ==
  ASSUME NEW r \in [state : {"absent", "creating", "orphaned", "ready"},
                    provisionedPlan : Plans, provisionedUntil : Stamp]
  PROVE  [[r EXCEPT !.provisionedPlan = "free"] EXCEPT !.provisionedUntil = Null]
           = [state |-> r.state, provisionedPlan |-> "free", provisionedUntil |-> Null]
<1> DEFINE half == [state |-> r.state, provisionedPlan |-> "free",
                    provisionedUntil |-> r.provisionedUntil]
<1>1. [r EXCEPT !.provisionedPlan = "free"] = half
  OBVIOUS
<1>2. [half EXCEPT !.provisionedUntil = Null]
        = [state |-> r.state, provisionedPlan |-> "free", provisionedUntil |-> Null]
  OBVIOUS
<1> HIDE DEF half
<1> QED BY <1>1, <1>2

\* Collecting what is parked clears it, or there was nothing to clear.
LEMMA Collected ==
  ASSUME TypeOK, NEW s \in Submissions, NEW w \in Studios, Commit(s, w),
         submit[s].user \in Users
  PROVE  /\ user' \in [Users -> [state : {"absent", "creating", "orphaned", "ready"},
                                provisionedPlan : Plans, provisionedUntil : Stamp]]
         /\ \A u \in Users :
              /\ user'[u].state = user[u].state
              /\ u # submit[s].user => user'[u] = user[u]
         /\ submit[s].plan # "free" =>
              user'[submit[s].user].provisionedPlan = "free"
<1> DEFINE parked(u) == [state |-> u.state, provisionedPlan |-> "free",
                         provisionedUntil |-> Null]
<1>1. CASE submit[s].plan = "free"
  BY <1>1 DEF Commit, TypeOK
<1>2. CASE submit[s].plan # "free"
  <2>1. user[submit[s].user] \in [state : {"absent", "creating", "orphaned", "ready"},
                                 provisionedPlan : Plans, provisionedUntil : Stamp]
    BY DEF TypeOK
  <2>2. user' = [user EXCEPT ![submit[s].user] = parked(user[submit[s].user])]
    <3>1. user' = [user EXCEPT ![submit[s].user] =
                     [[user[submit[s].user] EXCEPT !.provisionedPlan = "free"]
                        EXCEPT !.provisionedUntil = Null]]
      BY <1>2 DEF Commit, TypeOK
    <3>2. [[user[submit[s].user] EXCEPT !.provisionedPlan = "free"]
             EXCEPT !.provisionedUntil = Null] = parked(user[submit[s].user])
      BY <2>1, ClearedRecord
    <3> QED BY <3>1, <3>2
  <2>3. parked(user[submit[s].user])
          \in [state : {"absent", "creating", "orphaned", "ready"},
              provisionedPlan : Plans, provisionedUntil : Stamp]
    BY <2>1 DEF Plans, Stamp
  <2> HIDE DEF parked
  <2>4. user' \in [Users -> [state : {"absent", "creating", "orphaned", "ready"},
                            provisionedPlan : Plans, provisionedUntil : Stamp]]
    BY <2>2, <2>3 DEF TypeOK
  <2>5. \A u \in Users : user'[u] = IF u = submit[s].user THEN parked(user[u]) ELSE user[u]
    BY <2>2 DEF TypeOK
  <2> QED BY <1>2, <2>4, <2>5 DEF parked
<1> QED BY <1>1, <1>2

LEMMA TypeInit == Init => AccountsInv
<1> SUFFICES ASSUME Init PROVE AccountsInv
  OBVIOUS
<1>1. /\ owner \in [Studios -> Users \cup {NoUser}]
      /\ DOMAIN ws = {w \in Studios : owner[w] # NoUser}
      /\ \A w \in DOMAIN ws : ws[w] \in Workspace
  BY DEF Init
<1>2. user \in [Users -> [state : {"absent", "creating", "orphaned", "ready"},
                         provisionedPlan : Plans, provisionedUntil : Stamp]]
  BY DEF Init, Plans, Stamp
<1>3. /\ submit \in [Submissions -> [phase : {"idle", "checked", "read"},
                                     user : Users \cup {NoUser},
                                     plan : Plans, until : Stamp]]
      /\ SubmissionsHaveUsers
  BY DEF Init, SubmissionsHaveUsers, Idle, Plans, Stamp
<1>4. /\ attempts \in [count : 0..MaxAttempts, age : 0 .. Lockout + 1]
      /\ misses \in Seq(0..Lockout)
  BY AccountsAssumption DEF Init, NoAttempts
<1>5. today \in 0..MaxDay /\ events \in [Studios -> 0..MaxEvents]
  BY AccountsAssumption DEF Init
<1>6. /\ create \in [Creators -> Studios \cup {NoStudio}]
      /\ page \subseteq Row /\ RowsAreOwned /\ signedIn \in BOOLEAN
      /\ sold \in [Customers -> Stamp] /\ raced \subseteq Users
  BY DEF Init, RowsAreOwned, Stamp
<1> QED
  BY <1>1, <1>2, <1>3, <1>4, <1>5, <1>6 DEF AccountsInv, TypeOK

LEMMA TypeStep == AccountsInv /\ [Next]_vars => AccountsInv'
<1> SUFFICES ASSUME AccountsInv, [Next]_vars PROVE AccountsInv'
  OBVIOUS
<1> USE DEF AccountsInv
<1>0. /\ today \in Day /\ today + Term \in Day /\ today + Term \in Stamp
      /\ \A row \in page : row.user \in Users
  BY DurationsAssumption, AccountsAssumption DEF TypeOK, Stamp, Day, Row
<1>1. CASE UNCHANGED vars
  BY <1>1
  DEF vars, accounts, requests, login, history, TypeOK, SubmissionsHaveUsers,
      RowsAreOwned, Row
<1>2. CASE LoadPage
  <2>1. page' \subseteq Row /\ RowsAreOwned'
    <3>1. owner' = owner /\ ws' = ws /\ page' = Listed'
      BY <1>2 DEF LoadPage, accounts, Listed, StudiosOf
    <3> QED BY <3>1, PageIsListed DEF TypeOK
  <2> QED
    BY <1>2, <2>1
    DEF LoadPage, accounts, requests, login, history, TypeOK, SubmissionsHaveUsers
<1>3. CASE LogIn
  <2>1. page' \subseteq Row /\ RowsAreOwned'
    <3>1. owner' = owner /\ ws' = ws /\ page' = Listed'
      BY <1>3 DEF LogIn, accounts, Listed, StudiosOf
    <3> QED BY <3>1, PageIsListed DEF TypeOK
  <2> QED
    BY <1>3, <2>1, AccountsAssumption
    DEF LogIn, accounts, requests, history, NoAttempts, TypeOK, SubmissionsHaveUsers
<1>4. CASE LogOut
  BY <1>4
  DEF LogOut, accounts, requests, history, TypeOK, SubmissionsHaveUsers, RowsAreOwned
<1>5. CASE Miss
  <2>1. attempts' \in [count : 0..MaxAttempts, age : 0 .. Lockout + 1]
    <3>1. CASE attempts.count = 0 \/ Expired
      BY <1>5, <3>1, AccountsAssumption DEF Miss
    <3>2. CASE ~(attempts.count = 0 \/ Expired)
      <4>1. /\ attempts.count \in 0..MaxAttempts /\ attempts.count < MaxAttempts
            /\ attempts.age \in 0 .. Lockout + 1
        BY <1>5, <3>2, AccountsAssumption DEF Miss, IsLockedOut, TypeOK
      <4>2. attempts' = [count |-> attempts.count + 1, age |-> attempts.age]
        BY <1>5, <3>2 DEF Miss, TypeOK
      <4> QED BY <4>1, <4>2, AccountsAssumption
    <3> QED BY <3>1, <3>2
  <2>2. misses' \in Seq(0..Lockout)
    BY <1>5, AccountsAssumption DEF Miss, TypeOK
  <2> QED
    BY <1>5, <2>1, <2>2
    DEF Miss, accounts, requests, history, TypeOK, SubmissionsHaveUsers, RowsAreOwned
<1>6. CASE Redeploy
  BY <1>6, AccountsAssumption
  DEF Redeploy, accounts, requests, history, NoAttempts, TypeOK,
      SubmissionsHaveUsers, RowsAreOwned
<1>7. CASE Minute
  <2>1. attempts' \in [count : 0..MaxAttempts, age : 0 .. Lockout + 1]
    <3>1. /\ attempts.count \in 0..MaxAttempts
          /\ attempts.age \in 0 .. Lockout + 1
      BY DEF TypeOK
    <3>2. attempts' = [count |-> attempts.count,
                       age |-> IF attempts.count = 0 \/ Expired THEN attempts.age
                               ELSE attempts.age + 1]
      BY <1>7 DEF Minute, TypeOK
    <3> QED BY <3>1, <3>2, AccountsAssumption DEF Expired
  <2>2. misses' \in Seq(0..Lockout)
    <3>1. PICK old \in 0 .. Len(misses) :
            /\ \A i \in DOMAIN misses : i <= old <=> misses[i] = Lockout
            /\ misses' = [i \in 1 .. Len(misses) - old |-> misses[i + old] + 1]
      BY <1>7 DEF Minute
    <3>2. Len(misses) - old \in Nat
      BY DEF TypeOK
    <3>3. ASSUME NEW i \in 1 .. Len(misses) - old
          PROVE  misses[i + old] + 1 \in 0..Lockout
      <4>1. i + old \in DOMAIN misses /\ ~(i + old <= old)
        <5>1. misses \in Seq(0..Lockout)
          BY DEF TypeOK
        <5>2. Len(misses) \in Nat /\ DOMAIN misses = 1 .. Len(misses)
          BY <5>1
        <5> QED BY <5>2
      <4>2. misses[i + old] \in 0..Lockout /\ misses[i + old] # Lockout
        <5>1. misses[i + old] \in 0..Lockout
          <6>1. misses \in [1 .. Len(misses) -> 0..Lockout]
            BY LenProperties DEF TypeOK
          <6> QED BY <4>1, <6>1
        <5> QED BY <3>1, <4>1, <5>1
      <4> QED BY <4>2, AccountsAssumption
    <3> QED BY <3>1, <3>2, <3>3
  <2> QED
    BY <1>7, <2>1, <2>2
    DEF Minute, accounts, requests, history, TypeOK, SubmissionsHaveUsers, RowsAreOwned
<1>8. CASE Tick
  <2>1. /\ today' \in 0..MaxDay
        /\ attempts' \in [count : 0..MaxAttempts, age : 0 .. Lockout + 1]
        /\ misses' \in Seq(0..Lockout)
    BY <1>8, AccountsAssumption DEF Tick, NoAttempts, TypeOK
  <2> QED
    BY <1>8, <2>1
    DEF Tick, accounts, requests, history, TypeOK, SubmissionsHaveUsers, RowsAreOwned
<1>9. ASSUME NEW row \in page, ExtendStudio(row)
      PROVE  AccountsInv'
  <2>1. /\ row.studio \in Studios /\ row.studio \in DOMAIN ws
        /\ ws[row.studio] \in Workspace
    BY <1>9, RowHasStudio DEF ExtendStudio
  <2>2. Renewed(ws[row.studio], today) \in Workspace
    BY <1>0, <2>1, AccountRows
  <2>3. DOMAIN ws' = DOMAIN ws /\ \A w \in DOMAIN ws : ws'[w] \in Workspace
    BY <1>9, <2>1, <2>2 DEF ExtendStudio, TypeOK
  <2>4. page' \subseteq Row /\ RowsAreOwned'
    BY <1>9, <2>3, PageIsListed DEF ExtendStudio, TypeOK
  <2>5. sold' \in [Customers -> Stamp]
    BY <1>0, <1>9 DEF ExtendStudio, TypeOK
  <2> QED
    BY <1>9, <2>3, <2>4, <2>5
    DEF ExtendStudio, requests, login, TypeOK, SubmissionsHaveUsers
<1>10. ASSUME NEW row \in page, ExtendParked(row)
       PROVE  AccountsInv'
  <2>1. page' \subseteq Row /\ RowsAreOwned'
    BY <1>10, PageIsListed DEF ExtendParked, TypeOK
  <2>2. sold' \in [Customers -> Stamp]
    BY <1>0, <1>10 DEF ExtendParked, TypeOK
  <2>3. user' \in [Users -> [state : {"absent", "creating", "orphaned", "ready"},
                             provisionedPlan : Plans, provisionedUntil : Stamp]]
    BY <1>0, <1>10 DEF ExtendParked, TypeOK
  <2>4. raced' \subseteq Users
    BY <1>0, <1>10 DEF ExtendParked, TypeOK
  <2> QED
    BY <1>10, <2>1, <2>2, <2>3, <2>4
    DEF ExtendParked, requests, login, TypeOK, SubmissionsHaveUsers
<1>11. ASSUME NEW row \in page, CancelAccount(row)
       PROVE  AccountsInv'
  <2>1. /\ row.studio \in Studios /\ row.studio \in DOMAIN ws
        /\ ws[row.studio] \in Workspace
    BY <1>11, RowHasStudio DEF CancelAccount
  <2>2. CanceledByAdmin(ws[row.studio], today) \in Workspace
    BY <1>0, <2>1, AccountRows
  <2>3. DOMAIN ws' = DOMAIN ws /\ \A w \in DOMAIN ws : ws'[w] \in Workspace
    BY <1>11, <2>1, <2>2 DEF CancelAccount, TypeOK
  <2>4. page' \subseteq Row /\ RowsAreOwned'
    BY <1>11, <2>3, PageIsListed DEF CancelAccount, TypeOK
  <2> QED
    BY <1>11, <2>3, <2>4
    DEF CancelAccount, requests, login, history, TypeOK, SubmissionsHaveUsers
<1>12. ASSUME NEW u \in Customers, CreateUser(u)
       PROVE  AccountsInv'
  <2>1. user' \in [Users -> [state : {"absent", "creating", "orphaned", "ready"},
                             provisionedPlan : Plans, provisionedUntil : Stamp]]
    <3>1. PICK carried \in BOOLEAN :
            user' = [user EXCEPT ![u] =
                      [state |-> "creating",
                       provisionedPlan |-> IF carried THEN "paid" ELSE "free",
                       provisionedUntil |-> IF carried THEN today + Term ELSE Null]]
      BY <1>12 DEF CreateUser
    <3>2. (IF carried THEN today + Term ELSE Null) \in Stamp
      BY <1>0 DEF Stamp
    <3> QED BY <3>1, <3>2 DEF TypeOK, Plans
  <2>2. sold' \in [Customers -> Stamp]
    BY <1>0, <1>12 DEF CreateUser, TypeOK
  <2> QED
    BY <1>12, <2>1, <2>2
    DEF CreateUser, requests, login, TypeOK, SubmissionsHaveUsers, RowsAreOwned
<1>13. ASSUME NEW u \in Customers, ParkPlan(u)
       PROVE  AccountsInv'
  <2>1. user' \in [Users -> [state : {"absent", "creating", "orphaned", "ready"},
                             provisionedPlan : Plans, provisionedUntil : Stamp]]
    BY <1>13 DEF ParkPlan, TypeOK, Plans
  <2>2. page' \subseteq Row /\ RowsAreOwned'
    BY <1>13, PageIsListed DEF ParkPlan, TypeOK
  <2> QED
    BY <1>13, <2>1, <2>2
    DEF ParkPlan, requests, login, history, TypeOK, SubmissionsHaveUsers
<1>14. ASSUME NEW u \in Customers, ParkFails(u)
       PROVE  AccountsInv'
  <2>1. user' \in [Users -> [state : {"absent", "creating", "orphaned", "ready"},
                             provisionedPlan : Plans, provisionedUntil : Stamp]]
    BY <1>14 DEF ParkFails, TypeOK
  <2> QED
    BY <1>14, <2>1
    DEF ParkFails, requests, login, history, TypeOK, SubmissionsHaveUsers, RowsAreOwned
<1>15. ASSUME NEW s \in Submissions, NEW u \in Users, Submit(s, u)
       PROVE  AccountsInv'
  <2>1. /\ submit' \in [Submissions -> [phase : {"idle", "checked", "read"},
                                        user : Users \cup {NoUser},
                                        plan : Plans, until : Stamp]]
        /\ SubmissionsHaveUsers'
    BY <1>15, AccountsAssumption
    DEF Submit, TypeOK, SubmissionsHaveUsers, Idle, Plans, Stamp
  <2>2. raced' \subseteq Users
    BY <1>15 DEF Submit, TypeOK
  <2> QED
    BY <1>15, <2>1, <2>2 DEF Submit, accounts, login, TypeOK, RowsAreOwned
<1>16. ASSUME NEW s \in Submissions, ReadOwner(s)
       PROVE  AccountsInv'
  <2>1. submit[s].user \in Users
    BY <1>16 DEF ReadOwner, TypeOK, SubmissionsHaveUsers
  <2>2. /\ submit' \in [Submissions -> [phase : {"idle", "checked", "read"},
                                        user : Users \cup {NoUser},
                                        plan : Plans, until : Stamp]]
        /\ SubmissionsHaveUsers'
    BY <1>16, <2>1, AccountsAssumption
    DEF ReadOwner, TypeOK, SubmissionsHaveUsers
  <2> QED
    BY <1>16, <2>2 DEF ReadOwner, accounts, login, history, TypeOK, RowsAreOwned
<1>17. ASSUME NEW s \in Submissions, CommitFails(s)
       PROVE  AccountsInv'
  <2>1. /\ submit' \in [Submissions -> [phase : {"idle", "checked", "read"},
                                        user : Users \cup {NoUser},
                                        plan : Plans, until : Stamp]]
        /\ SubmissionsHaveUsers'
    BY <1>17 DEF CommitFails, TypeOK, SubmissionsHaveUsers, Idle, Plans, Stamp
  <2> QED
    BY <1>17, <2>1 DEF CommitFails, accounts, login, history, TypeOK, RowsAreOwned
<1>18. ASSUME NEW s \in Submissions, NEW w \in Studios, Commit(s, w)
       PROVE  AccountsInv'
  <2>1. submit[s].user \in Users /\ submit[s].user # NoUser
    BY <1>18, AccountsAssumption DEF Commit, Open, TypeOK, SubmissionsHaveUsers
  <2>2. /\ submit' \in [Submissions -> [phase : {"idle", "checked", "read"},
                                        user : Users \cup {NoUser},
                                        plan : Plans, until : Stamp]]
        /\ SubmissionsHaveUsers'
    BY <1>18 DEF Commit, Open, TypeOK, SubmissionsHaveUsers, Idle, Plans, Stamp
  <2>3. user' \in [Users -> [state : {"absent", "creating", "orphaned", "ready"},
                             provisionedPlan : Plans, provisionedUntil : Stamp]]
    BY <1>18, <2>1, Collected DEF TypeOK
  <2>4. NewWorkspace(submit[s]) \in Workspace
    <3>1. Coalesce(submit[s].until, today + Term) \in Day
      BY <1>0 DEF Coalesce, TypeOK, Stamp
    <3> QED
      BY <1>0, <3>1, AccountRows DEF NewWorkspace
  <2>5. /\ owner' \in [Studios -> Users \cup {NoUser}]
        /\ DOMAIN ws' = DOMAIN ws \cup {w}
        /\ DOMAIN ws' = {v \in Studios : owner'[v] # NoUser}
    BY <1>18, <2>1 DEF Commit, Open, TypeOK
  <2>6. \A v \in DOMAIN ws' : ws'[v] \in Workspace
    BY <1>18, <2>4, <2>5 DEF Commit, Open, TypeOK
  <2>7. RowsAreOwned'
    BY <1>18, AccountsAssumption DEF Commit, Open, TypeOK, RowsAreOwned, Row
  <2> QED
    BY <1>18, <2>2, <2>3, <2>5, <2>6, <2>7
    DEF Commit, Open, login, history, TypeOK
<1>19. ASSUME NEW r \in Creators, InsertEvent(r)
       PROVE  AccountsInv'
  <2>1. events' \in [Studios -> 0..MaxEvents]
    BY <1>19, AccountsAssumption DEF InsertEvent, TypeOK
  <2> QED
    BY <1>19, <2>1
    DEF InsertEvent, accounts, login, history, TypeOK, SubmissionsHaveUsers, RowsAreOwned
<1>20. ASSUME NEW r \in Creators, NEW w \in Studios, CheckEvent(r, w)
       PROVE  AccountsInv'
  BY <1>20
  DEF CheckEvent, accounts, login, history, TypeOK, SubmissionsHaveUsers, RowsAreOwned
<1>21. ASSUME NEW w \in DOMAIN ws, Mirror(w) \/ Drop(w)
       PROVE  AccountsInv'
  <2>1. /\ owner[w] \in Users /\ DOMAIN ws' = DOMAIN ws
        /\ ws'[w] \in GatewayRows(ws[w], today)
        /\ \A v \in DOMAIN ws \ {w} : ws'[v] = ws[v]
        /\ raced' = raced \cup {owner[w]}
        /\ UNCHANGED <<today, user, owner, events, requests, page, login, sold>>
    BY <1>21, GatewayStep
  <2>2. \A v \in DOMAIN ws' : ws'[v] \in Workspace
    BY <1>0, <2>1, GatewayRowTypes DEF TypeOK
  <2> QED
    BY <2>1, <2>2 DEF requests, login, TypeOK, SubmissionsHaveUsers, RowsAreOwned
<1> QED
  BY <1>1, <1>2, <1>3, <1>4, <1>5, <1>6, <1>7, <1>8, <1>9, <1>10, <1>11, <1>12,
     <1>13, <1>14, <1>15, <1>16, <1>17, <1>18, <1>19, <1>20, <1>21
  DEF Next

LEMMA AccountsInvariant == Spec => []AccountsInv
<1>1. Init => AccountsInv
  BY TypeInit
<1>2. AccountsInv /\ [Next]_vars => AccountsInv'
  BY TypeStep
<1> QED BY <1>1, <1>2, PTL DEF Spec

\* Every table, request and counter of the accounts keeps its type, the count
\* of failed sign-ins its limit among them.
THEOREM AccountsTypeCorrect == Spec => []TypeOK
<1>1. AccountsInv => TypeOK
  BY DEF AccountsInv
<1> QED BY <1>1, AccountsInvariant, PTL

-----------------------------------------------------------------------------
(***************************************************************************)
(* The lockout.  The failures that are no older than the lockout are those *)
(* of the window that is counted and some of the window before it.  The    *)
(* first failure of the window is as old as the window, so whatever came   *)
(* before it is too: when the window ends, at most the failures after its  *)
(* first one are left.                                                     *)
(***************************************************************************)
MissInv ==
  /\ attempts.count = 0 => misses = <<>>
  /\ Expired => Len(misses) <= MaxAttempts - 1
  /\ ~Expired /\ attempts.count > 0 =>
       /\ Len(misses) <= attempts.count + MaxAttempts - 1
       /\ \A i \in 1 .. Len(misses) :
            i <= Len(misses) - attempts.count + 1 => misses[i] >= attempts.age

LEMMA MissReset ==
  ASSUME attempts' = NoAttempts, misses' = <<>>
  PROVE  MissInv'
<1>1. Len(misses') = 0 /\ attempts'.count = 0 /\ attempts'.age = 0
  BY DEF NoAttempts
<1> QED BY <1>1, AccountsAssumption DEF MissInv, Expired

\* The failures and the counter, in the terms the steps below argue in.
LEMMA MissFacts ==
  ASSUME TypeOK
  PROVE  /\ Len(misses) \in Nat /\ misses \in [1 .. Len(misses) -> 0..Lockout]
         /\ attempts.count \in 0..MaxAttempts /\ attempts.age \in 0 .. Lockout + 1
         /\ MaxAttempts \in Nat \ {0} /\ Lockout \in Nat \ {0}
<1>1. Len(misses) \in Nat /\ misses \in [1 .. Len(misses) -> 0..Lockout]
  BY LenProperties DEF TypeOK
<1> QED BY <1>1, AccountsAssumption DEF TypeOK

LEMMA MissStep == TypeOK /\ MissInv /\ [Next]_vars => MissInv'
<1> SUFFICES ASSUME TypeOK, MissInv, [Next]_vars PROVE MissInv'
  OBVIOUS
<1> DEFINE n == Len(misses)
<1>0. /\ n \in Nat /\ misses \in [1..n -> 0..Lockout]
      /\ attempts.count \in 0..MaxAttempts /\ attempts.age \in 0 .. Lockout + 1
      /\ MaxAttempts \in Nat \ {0} /\ Lockout \in Nat \ {0}
  BY MissFacts
<1>1. CASE UNCHANGED <<attempts, misses>>
  BY <1>1 DEF MissInv, Expired
<1>2. CASE attempts' = NoAttempts /\ misses' = <<>>
  BY <1>2, MissReset
<1>3. CASE Miss
  <2>1. /\ Len(misses') = n + 1
        /\ \A i \in 1..n : misses'[i] = misses[i]
        /\ misses'[n + 1] = 0
    BY <1>3, AppendProperties, AccountsAssumption DEF Miss, TypeOK
  <2>2. CASE attempts.count = 0 \/ Expired
    <3>1. attempts'.count = 1 /\ attempts'.age = 0
      BY <1>3, <2>2 DEF Miss
    <3>2. n <= MaxAttempts - 1
      BY <1>0, <2>2 DEF MissInv
    <3>3. \A i \in 1 .. n + 1 : misses'[i] >= 0
      BY <1>0, <2>1
    <3> QED
      BY <1>0, <2>1, <3>1, <3>2, <3>3 DEF MissInv, Expired
  <2>3. CASE ~(attempts.count = 0 \/ Expired)
    <3>1. attempts'.count = attempts.count + 1 /\ attempts'.age = attempts.age
      BY <1>3, <2>3 DEF Miss, TypeOK
    <3>2. /\ attempts.count > 0 /\ n <= attempts.count + MaxAttempts - 1
          /\ \A i \in 1..n : i <= n - attempts.count + 1 => misses[i] >= attempts.age
      BY <1>0, <2>3 DEF MissInv
    <3>3. ASSUME NEW i \in 1 .. Len(misses'), i <= Len(misses') - attempts'.count + 1
          PROVE  misses'[i] >= attempts'.age
      <4>1. i \in 1..n /\ i <= n - attempts.count + 1
        BY <1>0, <2>1, <3>1, <3>2, <3>3
      <4> QED BY <2>1, <3>1, <3>2, <4>1
    <3>4. /\ attempts'.count > 0 /\ Len(misses') <= attempts'.count + MaxAttempts - 1
          /\ attempts'.age <= Lockout
      BY <1>0, <2>1, <2>3, <3>1, <3>2 DEF Expired
    <3> QED BY <1>0, <3>1, <3>3, <3>4 DEF MissInv, Expired
  <2> QED BY <2>2, <2>3
<1>4. CASE Minute
  <2>1. PICK old \in 0..n :
          /\ \A i \in DOMAIN misses : i <= old <=> misses[i] = Lockout
          /\ misses' = [i \in 1 .. n - old |-> misses[i + old] + 1]
    BY <1>4 DEF Minute
  <2>2. /\ Len(misses') = n - old
        /\ \A i \in 1 .. n - old : misses'[i] = misses[i + old] + 1
    BY <1>0, <2>1
  <2>3. /\ attempts'.count = attempts.count
        /\ attempts'.age = IF attempts.count = 0 \/ Expired THEN attempts.age
                           ELSE attempts.age + 1
    BY <1>4 DEF Minute, TypeOK
  <2>4. CASE attempts.count = 0 \/ Expired
    <3>1. n = 0 \/ n <= MaxAttempts - 1
      BY <1>0, <2>4 DEF MissInv
    <3>2. attempts.count = 0 => misses' = <<>>
      <4>1. attempts.count = 0 => n - old = 0
        BY <1>0 DEF MissInv
      <4> QED BY <2>1, <2>2, <4>1
    <3> QED
      BY <1>0, <2>2, <2>3, <2>4, <3>1, <3>2 DEF MissInv, Expired
  <2>5. CASE ~(attempts.count = 0 \/ Expired)
    <3>1. /\ attempts'.age = attempts.age + 1 /\ attempts.count > 0
          /\ n <= attempts.count + MaxAttempts - 1
          /\ \A i \in 1..n : i <= n - attempts.count + 1 => misses[i] >= attempts.age
      BY <1>0, <2>3, <2>5 DEF MissInv
    <3>2. CASE attempts.age = Lockout
      <4>1. n - attempts.count + 1 <= old
        <5> DEFINE first == n - attempts.count + 1
        <5>1. SUFFICES ASSUME first \in 1..n PROVE first <= old
          BY <1>0, <3>1
        <5>2. first <= n - attempts.count + 1
          BY <1>0
        <5> HIDE DEF first
        <5>3. misses[first] >= attempts.age /\ misses[first] \in 0..Lockout
          BY <1>0, <3>1, <5>1, <5>2
        <5>4. misses[first] = Lockout
          BY <1>0, <3>2, <5>3
        <5> QED BY <1>0, <2>1, <5>1, <5>4
      <4> QED
        BY <1>0, <2>2, <2>3, <3>1, <3>2, <4>1 DEF MissInv, Expired
    <3>3. CASE attempts.age # Lockout
      <4>1. ASSUME NEW i \in 1 .. n - old, i <= n - old - attempts.count + 1
            PROVE  misses'[i] >= attempts.age + 1
        <5>1. i + old \in 1..n /\ i + old <= n - attempts.count + 1
          BY <1>0, <4>1
        <5>2. misses[i + old] >= attempts.age /\ misses[i + old] \in Nat
          BY <1>0, <3>1, <5>1
        <5> QED BY <1>0, <2>2, <5>2
      <4>2. /\ attempts'.age <= Lockout /\ attempts'.count > 0
            /\ Len(misses') <= attempts'.count + MaxAttempts - 1
        BY <1>0, <2>2, <2>3, <2>5, <3>1, <3>3 DEF Expired
      <4>3. ASSUME NEW i \in 1 .. Len(misses'), i <= Len(misses') - attempts'.count + 1
            PROVE  misses'[i] >= attempts'.age
        BY <2>2, <2>3, <3>1, <4>1, <4>3
      <4>4. attempts'.age \in Nat /\ attempts'.count \in Nat
        BY <1>0, <2>3, <3>1
      <4> QED BY <1>0, <4>2, <4>3, <4>4 DEF MissInv, Expired
    <3> QED BY <3>2, <3>3
  <2> QED BY <2>4, <2>5
<1> QED
  BY <1>1, <1>2, <1>3, <1>4
  DEF Next, vars, login, LoadPage, LogIn, LogOut, Redeploy, Tick, ExtendStudio,
      ExtendParked, CancelAccount, CreateUser, ParkPlan, ParkFails, Submit, ReadOwner,
      Commit, CommitFails, InsertEvent, CheckEvent, Mirror, Drop

-----------------------------------------------------------------------------
(***************************************************************************)
(* The event quota.  What a trial has and what has been let through for it *)
(* are counted together: the last one let through found room.              *)
(***************************************************************************)
OnTrial(row) == row.plan = "free" /\ ~row.hasSubscription

Awaited(w) == {r \in Creators : create[r] = w}

QuotaInv ==
  \A w \in Studios :
    /\ w \notin DOMAIN ws => events[w] = 0 /\ Awaited(w) = {}
    /\ w \in DOMAIN ws /\ OnTrial(ws[w]) =>
         events[w] + Cardinality(Awaited(w)) <= FreeEvents + Cardinality(Creators) - 1

\* A set of requests is no larger than all of them.
LEMMA FewAwaited ==
  ASSUME NEW R \in SUBSET Creators
  PROVE  /\ IsFiniteSet(R) /\ Cardinality(R) \in Nat
         /\ Cardinality(Creators) \in Nat /\ Cardinality(R) <= Cardinality(Creators)
BY AccountsAssumption, FS_Subset, FS_CardinalityType

\* What a step does to the studios' rows: a studio on the trial was on it before.
LEMMA PlanStays ==
  ASSUME AccountsInv, [Next]_vars
  PROVE  /\ \A w \in DOMAIN ws : w \in DOMAIN ws' /\ (OnTrial(ws'[w]) => OnTrial(ws[w]))
         /\ \/ DOMAIN ws' = DOMAIN ws
            \/ UNCHANGED <<events, create>>
<1>1. CASE ws' = ws
  BY <1>1
<1>2. ASSUME NEW row \in page, ExtendStudio(row) \/ CancelAccount(row)
      PROVE  /\ \A w \in DOMAIN ws : w \in DOMAIN ws' /\ (OnTrial(ws'[w]) => OnTrial(ws[w]))
             /\ DOMAIN ws' = DOMAIN ws
  <2>1. \A r \in Workspace : /\ OnTrial(Renewed(r, today)) => OnTrial(r)
                             /\ OnTrial(CanceledByAdmin(r, today)) => OnTrial(r)
    BY DEF Renewed, CanceledByAdmin, Workspace, OnTrial
  <2>2. row.studio \in DOMAIN ws /\ ws[row.studio] \in Workspace
    BY <1>2, RowHasStudio DEF ExtendStudio, CancelAccount
  <2> QED BY <1>2, <2>1, <2>2 DEF ExtendStudio, CancelAccount
<1>3. ASSUME NEW s \in Submissions, NEW w \in Studios, Commit(s, w)
      PROVE  /\ \A v \in DOMAIN ws : v \in DOMAIN ws' /\ (OnTrial(ws'[v]) => OnTrial(ws[v]))
             /\ UNCHANGED <<events, create>>
  <2>1. w \notin DOMAIN ws
    BY <1>3 DEF Commit, Open, AccountsInv, TypeOK
  <2> QED BY <1>3, <2>1 DEF Commit, Open
<1>4. ASSUME NEW w \in DOMAIN ws, Mirror(w) \/ Drop(w)
      PROVE  /\ \A v \in DOMAIN ws : v \in DOMAIN ws' /\ (OnTrial(ws'[v]) => OnTrial(ws[v]))
             /\ DOMAIN ws' = DOMAIN ws
  <2>1. ~OnTrial(ws'[w])
    <3>1. ws[w] \in Workspace /\ today \in Day
      BY DEF AccountsInv, TypeOK, Day
    <3>2. CASE Mirror(w)
      BY <1>4, <3>1, <3>2, GatewayStep DEF Mirror, SubscriptionApplied, Workspace, OnTrial
    <3>3. CASE Drop(w)
      BY <3>1, <3>3 DEF Drop, DroppedToFree, Workspace, OnTrial
    <3> QED BY <1>4, <3>2, <3>3
  <2> QED BY <1>4, <2>1, GatewayStep
<1> QED
  BY <1>1, <1>2, <1>3, <1>4
  DEF Next, vars, accounts, LoadPage, LogIn, LogOut, Miss, Redeploy, Minute, Tick,
      ExtendParked, CreateUser, ParkPlan, ParkFails, Submit, ReadOwner, CommitFails,
      InsertEvent, CheckEvent

LEMMA QuotaStep == AccountsInv /\ QuotaInv /\ [Next]_vars => QuotaInv'
<1> SUFFICES ASSUME AccountsInv, QuotaInv, [Next]_vars,
                    NEW w \in Studios
             PROVE  /\ w \notin DOMAIN ws' => events'[w] = 0 /\ Awaited(w)' = {}
                    /\ w \in DOMAIN ws' /\ OnTrial(ws'[w]) =>
                         events'[w] + Cardinality(Awaited(w)')
                           <= FreeEvents + Cardinality(Creators) - 1
  BY DEF QuotaInv
<1> DEFINE all == Cardinality(Creators)
<1>0. /\ all \in Nat /\ FreeEvents \in Nat \ {0} /\ events[w] \in Nat
      /\ Cardinality(Awaited(w)) \in Nat
      /\ w \notin DOMAIN ws => events[w] = 0 /\ Awaited(w) = {}
      /\ w \in DOMAIN ws /\ OnTrial(ws[w]) =>
           events[w] + Cardinality(Awaited(w)) <= FreeEvents + all - 1
  <2>1. all \in Nat /\ Cardinality(Awaited(w)) \in Nat
    BY FewAwaited DEF Awaited
  <2>2. FreeEvents \in Nat \ {0} /\ events[w] \in Nat
    BY AccountsAssumption DEF AccountsInv, TypeOK
  <2>3. /\ w \notin DOMAIN ws => events[w] = 0 /\ Awaited(w) = {}
        /\ w \in DOMAIN ws /\ OnTrial(ws[w]) =>
             events[w] + Cardinality(Awaited(w)) <= FreeEvents + all - 1
    BY Zenon DEF QuotaInv
  <2> QED BY <2>1, <2>2, <2>3
<1>1. CASE UNCHANGED <<events, create>>
  <2>1. Awaited(w)' = Awaited(w) /\ events'[w] = events[w]
    BY <1>1 DEF Awaited
  <2>2. CASE w \in DOMAIN ws
    <3>1. w \in DOMAIN ws' /\ (OnTrial(ws'[w]) => OnTrial(ws[w]))
      <4>1. \A v \in DOMAIN ws : v \in DOMAIN ws' /\ (OnTrial(ws'[v]) => OnTrial(ws[v]))
        BY PlanStays
      <4> QED BY <2>2, <4>1
    <3> QED BY <1>0, <2>1, <2>2, <3>1
  <2>3. CASE w \notin DOMAIN ws
    <3>1. events'[w] = 0 /\ Awaited(w)' = {} /\ Cardinality(Awaited(w)') = 0
      BY <1>0, <2>1, <2>3, FS_EmptySet
    <3> QED BY <1>0, <3>1
  <2> QED BY <2>2, <2>3
<1>2. ASSUME NEW r \in Creators, InsertEvent(r)
      PROVE  /\ w \notin DOMAIN ws' => events'[w] = 0 /\ Awaited(w)' = {}
             /\ w \in DOMAIN ws' /\ OnTrial(ws'[w]) =>
                  events'[w] + Cardinality(Awaited(w)') <= FreeEvents + all - 1
  <2>1. ws' = ws /\ create[r] \in Studios
    BY <1>2 DEF InsertEvent, accounts, AccountsInv, TypeOK
  <2>2. Awaited(w)' = Awaited(w) \ {r}
    BY <1>2, AccountsAssumption DEF InsertEvent, Awaited, AccountsInv, TypeOK
  <2>3. CASE create[r] = w
    <3>1. r \in Awaited(w) /\ w \in DOMAIN ws
      BY <1>0, <2>3 DEF Awaited
    <3>2. Cardinality(Awaited(w) \ {r}) = Cardinality(Awaited(w)) - 1
      BY <3>1, FewAwaited, FS_RemoveElement DEF Awaited
    <3>3. OnTrial(ws[w]) => events'[w] = events[w] + 1
      BY <1>2, <2>3 DEF InsertEvent, AccountsInv, TypeOK
    <3> QED BY <1>0, <2>1, <2>2, <3>1, <3>2, <3>3
  <2>4. CASE create[r] # w
    <3>1. Awaited(w)' = Awaited(w) /\ events'[w] = events[w]
      BY <1>2, <2>2, <2>4 DEF InsertEvent, Awaited, AccountsInv, TypeOK
    <3> QED BY <1>0, <2>1, <3>1
  <2> QED BY <2>3, <2>4
<1>3. ASSUME NEW r \in Creators, NEW v \in Studios, CheckEvent(r, v)
      PROVE  /\ w \notin DOMAIN ws' => events'[w] = 0 /\ Awaited(w)' = {}
             /\ w \in DOMAIN ws' /\ OnTrial(ws'[w]) =>
                  events'[w] + Cardinality(Awaited(w)') <= FreeEvents + all - 1
  <2>1. ws' = ws /\ events' = events
    BY <1>3 DEF CheckEvent, accounts
  <2>2. CASE v = w
    <3>1. w \in DOMAIN ws /\ (OnTrial(ws[w]) => events[w] <= FreeEvents - 1)
      BY <1>0, <1>3, <2>2 DEF CheckEvent, WithinQuota, Unlimited, OnTrial
    <3>2. Cardinality(Awaited(w)') \in Nat /\ Cardinality(Awaited(w)') <= all
      BY FewAwaited DEF Awaited
    <3> QED BY <1>0, <2>1, <3>1, <3>2
  <2>3. CASE v # w
    <3>1. Awaited(w)' = Awaited(w)
      BY <1>3, <2>3, AccountsAssumption DEF CheckEvent, Awaited, AccountsInv, TypeOK
    <3> QED BY <1>0, <2>1, <3>1
  <2> QED BY <2>2, <2>3
<1> QED
  BY <1>1, <1>2, <1>3
  DEF Next, vars, requests, LoadPage, LogIn, LogOut, Miss, Redeploy, Minute, Tick,
      ExtendStudio, ExtendParked, CancelAccount, CreateUser, ParkPlan, ParkFails,
      Submit, ReadOwner, Commit, CommitFails, Mirror, Drop

\* The caps hold up to a slack that does not grow: a trial's events (createEvent
\* counts, then inserts) stay below the quota plus the requests in flight, as
\* long as no gateway has written the studio, and the wrong guesses at the
\* admin's password that are no older than the lockout below two windows'
\* worth, however the failures, the minutes, the deploys and the successes fall.
THEOREM CapsHoldAlways == Spec => []CapsHold
<1>1. Init => MissInv /\ QuotaInv
  <2>1. ASSUME Init PROVE MissInv
    BY <2>1, AccountsAssumption DEF Init, MissInv, NoAttempts, Expired
  <2>2. ASSUME Init PROVE QuotaInv
    BY <2>2, AccountsAssumption DEF Init, QuotaInv, Awaited
  <2> QED BY <2>1, <2>2
<1>2. AccountsInv /\ MissInv /\ QuotaInv /\ [Next]_vars => MissInv' /\ QuotaInv'
  BY MissStep, QuotaStep DEF AccountsInv
<1>3. AccountsInv /\ MissInv => GuessesAreFew
  <2> SUFFICES ASSUME TypeOK, MissInv PROVE GuessesAreFew
    BY DEF AccountsInv
  <2>1. attempts.count = 0 => Len(misses) = 0
    BY DEF MissInv
  <2> QED BY <2>1, MissFacts DEF MissInv, GuessesAreFew
<1>4. AccountsInv /\ QuotaInv => EventsWithinQuota
  <2> SUFFICES ASSUME AccountsInv, QuotaInv, NEW w \in DOMAIN ws, OnTrial(ws[w])
               PROVE  events[w] <= FreeEvents + Cardinality(Creators) - 1
    BY DEF EventsWithinQuota, OnTrial
  <2>1. w \in Studios /\ events[w] \in Nat
    BY AccountsAssumption DEF AccountsInv, TypeOK
  <2>2. Cardinality(Awaited(w)) \in Nat /\ Cardinality(Creators) \in Nat
    BY FewAwaited DEF Awaited
  <2> QED BY <2>1, <2>2, AccountsAssumption DEF QuotaInv
<1> QED
  BY <1>1, <1>2, <1>3, <1>4, AccountsInvariant, PTL DEF Spec, CapsHold

-----------------------------------------------------------------------------
(***************************************************************************)
(* The pill and the gate.  They agree on the rows that onboarding and the  *)
(* admin write, which are dated and never past_due; on the gateway's they  *)
(* need not.                                                               *)
(***************************************************************************)
\* A row is on trial, active or cancelled, and dated.
Readable(row) ==
  /\ row.subscriptionStatus # "past_due"
  /\ row.plan = "paid" => row.currentPeriodEnd \in Day

RowsAreReadable == \A w \in DOMAIN ws : ~ws[w].hasSubscription => Readable(ws[w])

LEMMA WritersAreReadable ==
  ASSUME NEW row \in Workspace, NEW day \in Day, ~row.hasSubscription => Readable(row)
  PROVE  /\ ~Renewed(row, day).hasSubscription => Readable(Renewed(row, day))
         /\ ~CanceledByAdmin(row, day).hasSubscription => Readable(CanceledByAdmin(row, day))
<1>1. day + Term \in Day
  BY DurationsAssumption DEF Day
<1> QED
  BY <1>1 DEF Readable, Renewed, CanceledByAdmin, Workspace

LEMMA NewIsReadable ==
  ASSUME TypeOK, NEW s \in Submissions
  PROVE  Readable(NewWorkspace(submit[s]))
<1>1. /\ today + Trial \in Day
      /\ Coalesce(submit[s].until, today + Term) \in Day
  BY DurationsAssumption DEF TypeOK, Coalesce, Stamp, Day
<1> QED
  BY <1>1
  DEF Readable, NewWorkspace, NewTrialWorkspace, NewProvisionedWorkspace

LEMMA ReadableStep ==
  AccountsInv /\ RowsAreReadable /\ [Next]_vars => RowsAreReadable'
<1> SUFFICES ASSUME AccountsInv, RowsAreReadable, [Next]_vars
             PROVE  RowsAreReadable'
  OBVIOUS
<1>1. CASE ws' = ws
  BY <1>1 DEF RowsAreReadable
<1>2. ASSUME NEW row \in page, ExtendStudio(row) \/ CancelAccount(row)
      PROVE  RowsAreReadable'
  <2>1. row.studio \in DOMAIN ws /\ ws[row.studio] \in Workspace
    BY <1>2, RowHasStudio DEF ExtendStudio, CancelAccount
  <2>2. \E new \in Workspace :
          /\ ws' = [ws EXCEPT ![row.studio] = new]
          /\ ~new.hasSubscription => Readable(new)
    <3>1. today \in Day
      BY DEF AccountsInv, TypeOK, Day
    <3>2. /\ Renewed(ws[row.studio], today) \in Workspace
          /\ CanceledByAdmin(ws[row.studio], today) \in Workspace
      BY <2>1, <3>1, AccountRows
    <3> QED
      BY <1>2, <2>1, <3>1, <3>2, WritersAreReadable
      DEF ExtendStudio, CancelAccount, RowsAreReadable
  <2> QED
    BY <2>1, <2>2 DEF RowsAreReadable
<1>3. ASSUME NEW s \in Submissions, NEW w \in Studios, Commit(s, w)
      PROVE  RowsAreReadable'
  BY <1>3, NewIsReadable DEF Commit, Open, RowsAreReadable, AccountsInv
<1>4. ASSUME NEW w \in DOMAIN ws, Mirror(w) \/ Drop(w)
      PROVE  RowsAreReadable'
  <2>1. ws[w] \in Workspace /\ ws'[w].hasSubscription
    <3>1. ws[w] \in Workspace
      BY DEF AccountsInv, TypeOK
    <3>2. CASE Mirror(w)
      BY <1>4, <3>1, <3>2 DEF Mirror, SubscriptionApplied, Workspace
    <3>3. CASE Drop(w)
      BY <3>1, <3>3 DEF Drop, DroppedToFree, Workspace
    <3> QED BY <1>4, <3>1, <3>2, <3>3
  <2> QED BY <1>4, <2>1, GatewayStep DEF RowsAreReadable
<1> QED
  BY <1>1, <1>2, <1>3, <1>4
  DEF Next, vars, accounts, LoadPage, LogIn, LogOut, Miss, Redeploy, Minute, Tick,
      ExtendParked, CreateUser, ParkPlan, ParkFails, Submit, ReadOwner, CommitFails,
      InsertEvent, CheckEvent

\* Three readings of one row: they agree wherever the date that each of them
\* compares with today is the row's own.
LEMMA PillAgrees ==
  ASSUME TypeOK, NEW w \in DOMAIN ws,
         ws[w].subscriptionStatus # "past_due",
         ws[w].plan = "free" \/ ws[w].currentPeriodEnd # Null
  PROVE  /\ StatusPill(w) \notin {"Cancelled", "Expired"}
              <=> SubscriptionBlock(ws[w], today) = "none"
         /\ CountedAs(w) # "neither" <=> SubscriptionBlock(ws[w], today) = "none"
<1>0. ws[w] \in Workspace /\ today \in Nat
  BY DEF TypeOK
<1>1. CASE ws[w].subscriptionStatus = "canceled"
  BY <1>1 DEF StatusPill, CountedAs, SubscriptionBlock
<1>2. CASE ws[w].subscriptionStatus # "canceled"
  <2> DEFINE end == EndsAt(w)
  <2>1. /\ end \in Stamp
        /\ SubscriptionBlock(ws[w], today) = "none" <=> ~(end # Null /\ end <= today)
    BY <1>0, <1>2
    DEF SubscriptionBlock, PaidTermRanOut, EndsAt, IsTrial, Coalesce, Workspace,
        Plans, Stamp, Day, Null
  <2> HIDE DEF end
  <2>2. end \in Nat \/ end = -1
    BY <2>1 DEF Stamp, Day, Null
  <2>3. StatusPill(w) \in {"Cancelled", "Expired"} <=> end # Null /\ end <= today
    BY <1>0, <1>2, <2>2 DEF StatusPill, end, Null
  <2>4. CountedAs(w) = "neither" <=> end # Null /\ end <= today
    BY <1>0, <1>2, <2>2 DEF CountedAs, end, Null
  <2> QED BY <2>1, <2>3, <2>4
<1> QED BY <1>1, <1>2

\* The pill of the admin's page, the admin's count of accounts and the write
\* gate of the uploads and of createEvent say the same of every studio that no
\* gateway has written, on every day and whatever raced, and of the others unless
\* the gateway left them past_due or without a period end.
THEOREM PillAgreesWithGate == Spec => []PillTellsTheGate
<1>1. Init => RowsAreReadable
  BY DEF Init, RowsAreReadable
<1>2. AccountsInv /\ RowsAreReadable => PillTellsTheGate
  <2> SUFFICES ASSUME AccountsInv, RowsAreReadable, NEW w \in DOMAIN ws,
                      ws[w].hasSubscription =>
                        /\ ws[w].subscriptionStatus # "past_due"
                        /\ ws[w].plan = "free" \/ ws[w].currentPeriodEnd # Null
               PROVE  /\ StatusPill(w) \notin {"Cancelled", "Expired"}
                           <=> SubscriptionBlock(ws[w], today) = "none"
                      /\ CountedAs(w) # "neither"
                           <=> SubscriptionBlock(ws[w], today) = "none"
    BY DEF PillTellsTheGate
  <2>1. /\ ws[w].subscriptionStatus # "past_due"
        /\ ws[w].plan = "free" \/ ws[w].currentPeriodEnd # Null
    BY DEF RowsAreReadable, Readable, AccountsInv, TypeOK, Workspace, Plans, Day, Null
  <2> QED BY <2>1, PillAgrees DEF AccountsInv
<1> QED
  BY <1>1, <1>2, ReadableStep, AccountsInvariant, PTL DEF Spec

-----------------------------------------------------------------------------
(***************************************************************************)
(* The sold term.  A customer whose requests do not overlap has one        *)
(* request under way at most, and a studio only after it; what that        *)
(* request has read is what was sold, because a renewal that comes between *)
(* puts the customer among the raced.                                      *)
(***************************************************************************)
\* Of one customer: what is sold has a day, onboarding comes before the studio.
OnboardedOnce(u) ==
  /\ user[u].state # "absent" => sold[u] \in Day
  /\ user[u].state \in {"absent", "creating"} => StudiosOf(u) = {}
  /\ \A s \in Submissions : submit[s].user = u =>
       /\ user[u].state \in {"ready", "orphaned"} /\ StudiosOf(u) = {}
       /\ submit[s].phase = "read" /\ user[u].state = "ready" =>
            submit[s].plan = "paid" /\ submit[s].until = sold[u]
       /\ \A t \in Submissions : submit[t].user = u => s = t

Parked(u) ==
  /\ StudiosOf(u) = {}
  /\ user[u].provisionedPlan = "paid" /\ user[u].provisionedUntil = sold[u]

Held(u) ==
  /\ user[u].provisionedPlan = "free"
  /\ \E w \in Studios :
       StudiosOf(u) = {w} /\ ws[w].plan = "paid" /\ ws[w].currentPeriodEnd = sold[u]

SoldTo(u) == OnboardedOnce(u) /\ (user[u].state = "ready" => Parked(u) \/ Held(u))

SoldInv == \A u \in Customers \ raced : SoldTo(u)

\* What SoldTo(u) reads.
LEMMA SoldToReads ==
  ASSUME NEW u \in Customers, SoldTo(u),
         UNCHANGED <<user[u], sold[u], StudiosOf(u)>>,
         \A w \in StudiosOf(u) : /\ ws'[w].plan = ws[w].plan
                                 /\ ws'[w].currentPeriodEnd = ws[w].currentPeriodEnd,
         \A s \in Submissions : submit'[s].user = u => submit'[s] = submit[s]
  PROVE  SoldTo(u)'
<1>1. OnboardedOnce(u)'
  BY DEF SoldTo, OnboardedOnce
<1>2. Parked(u) => Parked(u)'
  BY DEF Parked
<1>3. Held(u) => Held(u)'
  BY DEF Held
<1> QED BY <1>1, <1>2, <1>3 DEF SoldTo

LEMMA SoldStep == AccountsInv /\ SoldInv /\ [Next]_vars => SoldInv'
<1> SUFFICES ASSUME AccountsInv, SoldInv, [Next]_vars,
                    NEW u \in Customers, u \notin raced'
             PROVE  SoldTo(u)'
  BY DEF SoldInv
<1> USE DEF AccountsInv
<1>0. u \in Users /\ u # NoUser /\ today + Term \in Day
  BY AccountsAssumption, DurationsAssumption DEF TypeOK, Users, Day
<1>1. CASE UNCHANGED <<user, owner, ws, submit, history>>
  <2>1. u \notin raced /\ SoldTo(u)
    BY <1>1 DEF history, SoldInv
  <2> QED BY <1>1, <2>1, SoldToReads DEF history, StudiosOf
<1>2. ASSUME NEW row \in page, ExtendStudio(row)
      PROVE  SoldTo(u)'
  <2>1. SoldTo(u) /\ StudiosOf(u)' = StudiosOf(u)
    BY <1>2 DEF ExtendStudio, SoldInv, StudiosOf
  <2>2. /\ row.studio \in DOMAIN ws /\ ws[row.studio] \in Workspace
        /\ row.studio \in Studios /\ owner[row.studio] = row.user
    BY <1>2, RowHasStudio DEF ExtendStudio
  <2>3. CASE row.user = u
    <3>1. row.studio \in StudiosOf(u)
      BY <2>2, <2>3 DEF StudiosOf
    <3>2. /\ user[u].state \notin {"absent", "creating"}
          /\ user[u].state = "ready" => Held(u)
          /\ \A s \in Submissions : submit[s].user # u
      BY <2>1, <3>1 DEF SoldTo, OnboardedOnce, Parked
    <3>3. /\ sold'[u] = today + Term /\ UNCHANGED <<user, submit>>
          /\ ws'[row.studio] = Renewed(ws[row.studio], today)
      BY <1>2, <2>2, <2>3 DEF ExtendStudio, requests, TypeOK
    <3>4. user[u].state = "ready" => Held(u)'
      <4> SUFFICES ASSUME Held(u) PROVE Held(u)'
        BY <3>2
      <4>1. StudiosOf(u) = {row.studio} /\ ws[row.studio].plan = "paid"
        BY <3>1 DEF Held
      <4>2. ws'[row.studio].plan = "paid" /\ ws'[row.studio].currentPeriodEnd = today + Term
        BY <2>2, <3>3, <4>1 DEF Renewed, Workspace
      <4> QED BY <2>1, <2>2, <3>3, <4>1, <4>2 DEF Held
    <3>5. OnboardedOnce(u)'
      BY <1>0, <2>1, <3>2, <3>3 DEF OnboardedOnce
    <3> QED BY <3>3, <3>4, <3>5 DEF SoldTo
  <2>4. CASE row.user # u
    <3>1. row.studio \notin StudiosOf(u)
      BY <2>2, <2>4 DEF StudiosOf
    <3>2. \A w \in StudiosOf(u) : ws'[w] = ws[w]
      BY <1>2, <3>1 DEF ExtendStudio, StudiosOf, TypeOK
    <3>3. UNCHANGED <<user[u], sold[u], submit>>
      BY <1>2, <2>4 DEF ExtendStudio, requests, TypeOK
    <3> QED BY <2>1, <3>2, <3>3, SoldToReads
  <2> QED BY <2>3, <2>4
<1>3. ASSUME NEW row \in page, ExtendParked(row)
      PROVE  SoldTo(u)'
  <2>1. u \notin raced /\ SoldTo(u) /\ StudiosOf(u)' = StudiosOf(u)
    BY <1>3 DEF ExtendParked, SoldInv, StudiosOf
  <2>2. CASE row.user = u
    <3>1. StudiosOf(u) = {} /\ ~Collecting(u)
      BY <1>3, <2>2 DEF ExtendParked
    <3>2. /\ user'[u].state = user[u].state
          /\ user'[u].provisionedPlan = user[u].provisionedPlan
          /\ user'[u].provisionedUntil = today + Term
          /\ sold'[u] = today + Term /\ UNCHANGED <<ws, submit>>
      BY <1>0, <1>3, <2>2 DEF ExtendParked, requests, TypeOK
    <3>3. OnboardedOnce(u)'
      BY <1>0, <2>1, <3>1, <3>2 DEF OnboardedOnce, SoldTo, Collecting
    <3>4. user[u].state = "ready" => Parked(u)'
      BY <2>1, <3>1, <3>2 DEF SoldTo, Parked, Held
    <3> QED BY <3>2, <3>3, <3>4 DEF SoldTo
  <2>3. CASE row.user # u
    <3>1. UNCHANGED <<user[u], sold[u], ws, submit>>
      BY <1>0, <1>3, <2>3 DEF ExtendParked, requests, TypeOK
    <3> QED BY <2>1, <3>1, SoldToReads
  <2> QED BY <2>2, <2>3
<1>4. ASSUME NEW row \in page, CancelAccount(row)
      PROVE  SoldTo(u)'
  <2>1. SoldTo(u) /\ StudiosOf(u)' = StudiosOf(u)
    BY <1>4 DEF CancelAccount, SoldInv, StudiosOf, history
  <2>2. /\ row.studio \in DOMAIN ws /\ ws[row.studio] \in Workspace
    BY <1>4, RowHasStudio DEF CancelAccount
  <2>3. /\ CanceledByAdmin(ws[row.studio], today).plan = ws[row.studio].plan
        /\ CanceledByAdmin(ws[row.studio], today).currentPeriodEnd
             = ws[row.studio].currentPeriodEnd
    BY <2>2 DEF CanceledByAdmin, Workspace
  <2>4. \A w \in DOMAIN ws : /\ ws'[w].plan = ws[w].plan
                             /\ ws'[w].currentPeriodEnd = ws[w].currentPeriodEnd
    BY <1>4, <2>2, <2>3 DEF CancelAccount
  <2>5. StudiosOf(u) \subseteq DOMAIN ws
    BY <1>0 DEF StudiosOf, TypeOK
  <2> QED
    BY <1>4, <2>1, <2>4, <2>5, SoldToReads DEF CancelAccount, requests, history
<1>5. ASSUME NEW v \in Customers, CreateUser(v)
      PROVE  SoldTo(u)'
  <2>1. SoldTo(u) /\ StudiosOf(u)' = StudiosOf(u) /\ v \in Users
    BY <1>5 DEF CreateUser, SoldInv, StudiosOf, Users
  <2>2. CASE u = v
    <3>1. /\ StudiosOf(u) = {} /\ \A s \in Submissions : submit[s].user # u
      BY <1>5, <2>1, <2>2 DEF CreateUser, SoldTo, OnboardedOnce
    <3>2. user'[u].state = "creating" /\ sold'[u] = today + Term /\ submit' = submit
      BY <1>5, <2>1, <2>2 DEF CreateUser, requests, TypeOK
    <3> QED BY <1>0, <2>1, <3>1, <3>2 DEF SoldTo, OnboardedOnce
  <2>3. CASE u # v
    <3>1. UNCHANGED <<user[u], sold[u], ws, submit>>
      BY <1>0, <1>5, <2>3 DEF CreateUser, requests, TypeOK
    <3> QED BY <2>1, <3>1, SoldToReads
  <2> QED BY <2>2, <2>3
<1>6. ASSUME NEW v \in Customers, ParkPlan(v) \/ ParkFails(v)
      PROVE  SoldTo(u)'
  <2>1. SoldTo(u) /\ StudiosOf(u)' = StudiosOf(u) /\ v \in Users
    BY <1>6 DEF ParkPlan, ParkFails, SoldInv, StudiosOf, history, Users
  <2>2. UNCHANGED <<ws, submit, sold>>
    BY <1>6 DEF ParkPlan, ParkFails, requests, history
  <2>3. CASE u = v
    <3>1. /\ user[u].state = "creating" /\ StudiosOf(u) = {} /\ sold[u] \in Day
          /\ \A s \in Submissions : submit[s].user # u
      BY <1>6, <2>1, <2>3 DEF ParkPlan, ParkFails, SoldTo, OnboardedOnce
    <3>2. OnboardedOnce(u)'
      BY <2>1, <2>2, <3>1 DEF OnboardedOnce
    <3>3. user'[u].state = "ready" =>
            user'[u].provisionedPlan = "paid" /\ user'[u].provisionedUntil = sold[u]
      BY <1>6, <2>1, <2>3 DEF ParkPlan, ParkFails, TypeOK
    <3> QED BY <2>1, <2>2, <3>1, <3>2, <3>3 DEF SoldTo, Parked
  <2>4. CASE u # v
    <3>1. user'[u] = user[u]
      BY <1>0, <1>6, <2>4 DEF ParkPlan, ParkFails, TypeOK
    <3> QED BY <2>1, <2>2, <3>1, SoldToReads
  <2> QED BY <2>3, <2>4
<1>7. ASSUME NEW s \in Submissions, NEW v \in Users, Submit(s, v)
      PROVE  SoldTo(u)'
  <2>1. /\ u \notin raced /\ SoldTo(u) /\ StudiosOf(u)' = StudiosOf(u)
        /\ UNCHANGED <<user, ws, sold>>
    BY <1>7 DEF Submit, SoldInv, StudiosOf, accounts
  <2>2. /\ \A t \in Submissions : t # s => submit'[t] = submit[t]
        /\ submit'[s].user = v /\ submit'[s].phase = "checked"
    BY <1>7 DEF Submit, Idle, TypeOK
  <2>3. CASE u = v
    <3>1. /\ \A t \in Submissions : submit[t].user # u
          /\ StudiosOf(u) = {} /\ user[u].state \in {"ready", "orphaned"}
      BY <1>7, <2>1, <2>3 DEF Submit
    <3>2. OnboardedOnce(u)'
      BY <2>1, <2>2, <3>1 DEF SoldTo, OnboardedOnce
    <3>3. user[u].state = "ready" => Parked(u)'
      BY <2>1, <3>1 DEF SoldTo, Parked, Held
    <3> QED BY <2>1, <3>2, <3>3 DEF SoldTo
  <2>4. CASE u # v
    BY <2>1, <2>2, <2>4, SoldToReads
  <2> QED BY <2>3, <2>4
<1>8. ASSUME NEW s \in Submissions, ReadOwner(s)
      PROVE  SoldTo(u)'
  <2>1. /\ SoldTo(u) /\ StudiosOf(u)' = StudiosOf(u)
        /\ UNCHANGED <<user, ws, sold>>
    BY <1>8 DEF ReadOwner, SoldInv, StudiosOf, accounts, history
  <2>2. /\ \A t \in Submissions : t # s => submit'[t] = submit[t]
        /\ submit'[s].user = submit[s].user
        /\ submit'[s].plan = user[submit[s].user].provisionedPlan
        /\ submit'[s].until = user[submit[s].user].provisionedUntil
    BY <1>8 DEF ReadOwner, TypeOK
  <2>3. CASE submit[s].user = u
    <3>1. user[u].state = "ready" => Parked(u)
      BY <2>1, <2>3 DEF SoldTo, OnboardedOnce, Held
    <3>2. OnboardedOnce(u)'
      BY <2>1, <2>2, <2>3, <3>1 DEF SoldTo, OnboardedOnce, Parked
    <3>3. user[u].state = "ready" => Parked(u)'
      BY <2>1, <3>1 DEF Parked
    <3> QED BY <2>1, <3>2, <3>3 DEF SoldTo
  <2>4. CASE submit[s].user # u
    BY <2>1, <2>2, <2>4, SoldToReads
  <2> QED BY <2>3, <2>4
<1>9. ASSUME NEW s \in Submissions, CommitFails(s)
      PROVE  SoldTo(u)'
  <2>1. /\ SoldTo(u) /\ StudiosOf(u)' = StudiosOf(u)
        /\ UNCHANGED <<user, ws, sold>>
    BY <1>9 DEF CommitFails, SoldInv, StudiosOf, accounts, history
  <2>2. \A t \in Submissions : submit'[t].user = u => submit'[t] = submit[t]
    BY <1>0, <1>9 DEF CommitFails, Idle, TypeOK
  <2> QED BY <2>1, <2>2, SoldToReads
<1>10. ASSUME NEW s \in Submissions, NEW w \in Studios, Commit(s, w)
       PROVE  SoldTo(u)'
  <2>1. SoldTo(u) /\ sold' = sold /\ submit[s].user \in Users
    BY <1>10
    DEF Commit, Open, SoldInv, history, TypeOK, SubmissionsHaveUsers
  <2>2. \A t \in Submissions : submit'[t].user = u => submit'[t] = submit[t] /\ t # s
    BY <1>0, <1>10 DEF Commit, Open, Idle, TypeOK
  <2>3. /\ \A v \in Studios : owner'[v] = IF v = w THEN submit[s].user ELSE owner[v]
        /\ owner[w] = NoUser /\ w \notin DOMAIN ws
    BY <1>10 DEF Commit, Open, TypeOK
  <2>4. /\ \A v \in DOMAIN ws : ws'[v] = ws[v]
        /\ ws'[w] = NewWorkspace(submit[s])
    BY <1>10, <2>3 DEF Commit, Open
  <2>5. CASE submit[s].user = u
    <3>1. /\ user[u].state \in {"ready", "orphaned"} /\ StudiosOf(u) = {}
          /\ user[u].state = "ready" => submit[s].plan = "paid" /\ submit[s].until = sold[u]
          /\ sold[u] \in Day
          /\ \A t \in Submissions : submit[t].user = u => s = t
      BY <1>10, <2>1, <2>5 DEF SoldTo, OnboardedOnce, Commit, Open
    <3>2. /\ user'[u].state = user[u].state
          /\ submit[s].plan # "free" => user'[u].provisionedPlan = "free"
      BY <1>10, <2>5, <2>1, Collected
    <3>3. StudiosOf(u)' = {w}
      BY <2>3, <2>5, <3>1 DEF StudiosOf
    <3>4. user[u].state = "ready" =>
            ws'[w].plan = "paid" /\ ws'[w].currentPeriodEnd = sold[u]
      BY <2>4, <3>1
      DEF NewWorkspace, NewProvisionedWorkspace, NewTrialWorkspace, Coalesce, Day, Null
    <3>5. user[u].state = "ready" => Held(u)'
      BY <2>1, <3>1, <3>2, <3>3, <3>4 DEF Held
    <3>6. OnboardedOnce(u)'
      BY <2>1, <2>2, <3>1, <3>2 DEF OnboardedOnce
    <3> QED BY <3>2, <3>5, <3>6 DEF SoldTo
  <2>6. CASE submit[s].user # u
    <3>1. user'[u] = user[u]
      BY <1>0, <1>10, <2>1, <2>6, Collected
    <3>2. StudiosOf(u)' = StudiosOf(u) /\ StudiosOf(u) \subseteq DOMAIN ws
      BY <1>0, <2>3, <2>6 DEF StudiosOf, TypeOK
    <3> QED BY <2>1, <2>2, <2>4, <3>1, <3>2, SoldToReads
  <2> QED BY <2>5, <2>6
<1>11. ASSUME NEW w \in DOMAIN ws, Mirror(w) \/ Drop(w)
       PROVE  SoldTo(u)'
  <2>1. /\ owner[w] \in Users /\ raced' = raced \cup {owner[w]}
        /\ \A v \in DOMAIN ws \ {w} : ws'[v] = ws[v]
        /\ UNCHANGED <<user, owner, submit, sold>>
    BY <1>11, GatewayStep DEF requests
  <2>2. SoldTo(u) /\ w \notin StudiosOf(u) /\ StudiosOf(u)' = StudiosOf(u)
    BY <2>1 DEF SoldInv, StudiosOf
  <2>3. StudiosOf(u) \subseteq DOMAIN ws
    BY <1>0 DEF StudiosOf, TypeOK
  <2> QED BY <2>1, <2>2, <2>3, SoldToReads
<1> QED
  BY <1>1, <1>2, <1>3, <1>4, <1>5, <1>6, <1>7, <1>8, <1>9, <1>10, <1>11
  DEF Next, vars, accounts, requests, LoadPage, LogIn, LogOut, Miss, Redeploy,
      Minute, Tick, InsertEvent, CheckEvent

\* For any number of customers, studios and onboarding requests: what a
\* customer paid for in person (createAccountAction, extendAccountAction) is
\* on record in exactly one place until the day sold, parked on the user or on
\* the one studio that createWorkspace opened with it - unless the customer's
\* own requests overlapped, a renewal landed on a stale page, the gateway wrote
\* the studio, or the second statement of createAccountAction failed.
THEOREM SoldTermStays == Spec => []SoldTermIsKept
<1>1. Init => SoldInv
  <2> SUFFICES ASSUME Init, NEW u \in Customers PROVE SoldTo(u)
    BY DEF SoldInv
  <2>1. user[u].state = "absent" /\ StudiosOf(u) = {}
    BY AccountsAssumption DEF Init, StudiosOf, Users
  <2>2. \A s \in Submissions : submit[s].user # u
    BY AccountsAssumption DEF Init, Idle, Users
  <2> QED BY <2>1, <2>2 DEF SoldTo, OnboardedOnce
<1>2. SoldInv => SoldTermIsKept
  BY DEF SoldInv, SoldTo, Parked, Held, SoldTermIsKept
<1> QED
  BY <1>1, <1>2, SoldStep, AccountsInvariant, PTL DEF Spec
=============================================================================
