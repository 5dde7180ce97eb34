------------------------- MODULE PhotoStorageProofs -------------------------
(***************************************************************************)
(* What PhotoStorage keeps for every set of photos, every sizes, every     *)
(* quota and any number of concurrent requests.                            *)
(***************************************************************************)
EXTENDS PhotoStorage, TLAPS

-----------------------------------------------------------------------------
(***************************************************************************)
(* The sizes: additive, so monotone, and a removal takes its size away.    *)
(***************************************************************************)
\* The bytes of a set of photos are a natural number.
LEMMA BytesNat == ASSUME NEW S \in SUBSET Photos PROVE Bytes[S] \in Nat
BY SizesAssumption

\* Committing only the rows the insert did not skip adds exactly their bytes.
LEMMA BytesOfNew ==
    ASSUME NEW S \in SUBSET Photos, NEW T \in SUBSET Photos
    PROVE  Bytes[S \cup T] = Bytes[S] + Bytes[T \ S]
<1>1. S \cap (T \ S) = {} /\ S \cup T = S \cup (T \ S) /\ T \ S \in SUBSET Photos
    OBVIOUS
<1>2. Bytes[S \cup (T \ S)] = Bytes[S] + Bytes[T \ S]
    BY <1>1, SizesAssumption
<1> QED BY <1>1, <1>2

\* What is not yet a row is no larger than what the request uploaded.
LEMMA BytesOfPart ==
    ASSUME NEW S \in SUBSET Photos, NEW T \in SUBSET Photos
    PROVE  Bytes[T \ S] <= Bytes[T]
<1>1. (T \ S) \cap (T \cap S) = {} /\ (T \ S) \cup (T \cap S) = T
      /\ T \ S \in SUBSET Photos /\ T \cap S \in SUBSET Photos
    OBVIOUS
<1>2. Bytes[(T \ S) \cup (T \cap S)] = Bytes[T \ S] + Bytes[T \cap S]
    BY <1>1, SizesAssumption
<1>3. Bytes[T] = Bytes[T \ S] + Bytes[T \cap S]
    BY <1>1, <1>2, Zenon
<1>4. Bytes[T \ S] \in Nat /\ Bytes[T \cap S] \in Nat
    BY <1>1, BytesNat
<1> QED BY <1>3, <1>4

\* Deleting a row takes its bytes off, and there are that many to take.
LEMMA BytesOfRest ==
    ASSUME NEW S \in SUBSET Photos, NEW p \in S
    PROVE  /\ Bytes[S \ {p}] = Bytes[S] - Bytes[{p}]
           /\ Bytes[S] - Bytes[{p}] >= 0
<1>1. (S \ {p}) \cap {p} = {} /\ (S \ {p}) \cup {p} = S
      /\ S \ {p} \in SUBSET Photos /\ {p} \in SUBSET Photos
    OBVIOUS
<1>2. Bytes[(S \ {p}) \cup {p}] = Bytes[S \ {p}] + Bytes[{p}]
    BY <1>1, SizesAssumption
<1>3. Bytes[S] = Bytes[S \ {p}] + Bytes[{p}]
    BY <1>1, <1>2, Zenon
<1>4. Bytes[S \ {p}] \in Nat /\ Bytes[{p}] \in Nat
    BY <1>1, BytesNat
<1> QED BY <1>3, <1>4

\* recordStorageDelta keeps the counter a natural number and the ledger whole.
LEMMA DeltaType ==
    ASSUME used \in Nat, ledger \in Int, NEW delta \in Int, RecordStorageDelta(delta)
    PROVE  used' \in Nat /\ ledger' \in Int
BY DEF RecordStorageDelta, AtLeastZero

-----------------------------------------------------------------------------
(***************************************************************************)
(* Type correctness.                                                       *)
(***************************************************************************)
\* The first state is of the types.
LEMMA InitType == Init => TypeOK
BY StorageAssumption DEF Init, TypeOK, Stages, NoCount

\* Every step keeps the types.
LEMMA NextType == TypeOK /\ [Next]_vars => TypeOK'
<1> SUFFICES ASSUME TypeOK, [Next]_vars PROVE TypeOK'
    OBVIOUS
<1> USE DEF TypeOK
<1>1. ASSUME NEW batch \in SUBSET Photos, Presign(batch) PROVE TypeOK'
    BY <1>1 DEF Presign, purger, Stages
<1>2. ASSUME NEW p \in Photos, Upload(p) PROVE TypeOK'
    BY <1>2 DEF Upload, purger, Stages
<1>3. ASSUME NEW p \in Photos, Delete(p) PROVE TypeOK'
    <2>1. -Bytes[{p}] \in Int
        BY BytesNat
    <2>2. used' \in Nat /\ ledger' \in Int
        BY <1>3, <2>1, DeltaType DEF Delete
    <2> QED BY <1>3, <2>2 DEF Delete, purger
<1>4. ASSUME NEW p \in Photos, Unlink(p) PROVE TypeOK'
    BY <1>4 DEF Unlink, purger
<1>5. ASSUME NEW r \in Requests, NEW batch \in SUBSET Photos, Head(r, batch) PROVE TypeOK'
    BY <1>5 DEF Head, purger, Stages
<1>6. ASSUME NEW r \in Requests, Commit(r) PROVE TypeOK'
    <2>1. Bytes[present[r] \ assets] \in Int /\ present[r] \in SUBSET Photos
        BY BytesNat
    <2>2. used' \in Nat /\ ledger' \in Int
        <3>1. CASE used + Bytes[present[r]] > quota
            BY <1>6, <3>1 DEF Commit
        <3>2. CASE ~(used + Bytes[present[r]] > quota)
            BY <1>6, <2>1, <3>2, DeltaType DEF Commit
        <3> QED BY <3>1, <3>2
    <2> QED BY <1>6, <2>1, <2>2 DEF Commit, purger
<1>7. ASSUME NEW r \in Requests, CleanUp(r) PROVE TypeOK'
    BY <1>7 DEF CleanUp, purger
<1>8. ASSUME NEW r \in Requests, RequestDies(r) PROVE TypeOK'
    BY <1>8 DEF RequestDies, purger
<1>9. CASE PurgeList
    BY <1>9 DEF PurgeList, web
<1>10. CASE PurgeObjects
    BY <1>10 DEF PurgeObjects, web
<1>11. CASE PurgeRows
    <2>1. -Bytes[picked] \in Int
        BY BytesNat
    <2>2. used' \in Nat /\ ledger' \in Int
        BY <1>11, <2>1, DeltaType DEF PurgeRows
    <2> QED BY <1>11, <2>2 DEF PurgeRows, web
<1>12. CASE PurgeDies
    BY <1>12 DEF PurgeDies, web
<1>13. CASE RecountRead
    BY <1>13, BytesNat DEF RecountRead, web, purger
<1>14. CASE RecountWrite
    BY <1>14 DEF RecountWrite, web, purger, NoCount
<1>15. CASE ChangePlan
    BY <1>15, StorageAssumption DEF ChangePlan, web, purger
<1>16. CASE UNCHANGED vars
    BY <1>16 DEF vars, web, purger
<1> QED BY <1>1, <1>2, <1>3, <1>4, <1>5, <1>6, <1>7, <1>8, <1>9, <1>10, <1>11,
           <1>12, <1>13, <1>14, <1>15, <1>16 DEF Next, Purge

\* The counter never goes below zero whatever is subtracted from it, and every
\* request, purge and recount keeps to the shapes of its local state.
THEOREM StorageTypeCorrect == Spec => []TypeOK
BY InitType, NextType, PTL DEF Spec

-----------------------------------------------------------------------------
(***************************************************************************)
(* The account, while no purge runs.  The purge subtracts a total it read  *)
(* before its deletions and so may count one of them twice; nobody else    *)
(* moves the counter away from the rows, and the recount, which only picks *)
(* counters that are off, never finds anything to write.                   *)
(***************************************************************************)
AccountInv ==
    /\ TypeOK
    /\ CounterIsExact
    /\ purge = "idle"
    /\ recount = NoCount

\* With no photos the account is empty and exact.
LEMMA InitAccount == Init => AccountInv
BY InitType, SizesAssumption DEF Init, AccountInv, CounterIsExact

\* An accepted commit charges the bytes of the new rows, and these fit the plan.
LEMMA CommitCharges ==
    ASSUME AccountInv, NEW r \in Requests, Commit(r),
           ~(used + Bytes[present[r]] > quota)
    PROVE  /\ used' = used + Bytes[present[r] \ assets]
           /\ ledger' = used'
           /\ used' = Bytes[assets']
           /\ used' <= quota
<1>1. present[r] \in SUBSET Photos /\ assets \in SUBSET Photos /\ used \in Nat
      /\ quota \in Nat /\ used = Bytes[assets] /\ ledger = used
    BY DEF AccountInv, TypeOK, CounterIsExact
<1>2. Bytes[present[r] \ assets] \in Nat /\ Bytes[present[r]] \in Nat
    BY <1>1, BytesNat
<1>3. Bytes[present[r] \ assets] <= Bytes[present[r]]
    BY <1>1, BytesOfPart
<1>4. assets' = assets \cup present[r]
      /\ RecordStorageDelta(Bytes[present[r] \ assets])
    BY DEF Commit
<1>5. Bytes[assets'] = Bytes[assets] + Bytes[present[r] \ assets]
    BY <1>1, <1>4, BytesOfNew
<1>6. used' = used + Bytes[present[r] \ assets] /\ ledger' = used'
    BY <1>1, <1>2, <1>4 DEF RecordStorageDelta, AtLeastZero
<1> QED BY <1>1, <1>2, <1>3, <1>5, <1>6

\* A delete gives back the bytes of the row it deletes: the clamp is not needed.
LEMMA DeleteRefunds ==
    ASSUME AccountInv, NEW p \in Photos, Delete(p)
    PROVE  /\ p \in assets
           /\ used' = used - Bytes[{p}]
           /\ ledger' = used'
           /\ used' = Bytes[assets']
<1>1. assets \in SUBSET Photos /\ used \in Nat /\ used = Bytes[assets] /\ ledger = used
    BY DEF AccountInv, TypeOK, CounterIsExact
<1>2. p \in assets /\ assets' = assets \ {p} /\ RecordStorageDelta(-Bytes[{p}])
    BY DEF Delete
<1>3. Bytes[{p}] \in Nat
    BY BytesNat
<1>4. Bytes[assets'] = Bytes[assets] - Bytes[{p}] /\ Bytes[assets] - Bytes[{p}] >= 0
    BY <1>1, <1>2, BytesOfRest
<1>5. used' = used - Bytes[{p}] /\ ledger' = used'
    BY <1>1, <1>2, <1>3, <1>4 DEF RecordStorageDelta, AtLeastZero
<1> QED BY <1>1, <1>2, <1>4, <1>5

\* Every step of the web application keeps the account exact.
LEMMA NextAccount ==
    ASSUME ~Purging, AccountInv, [Next]_vars
    PROVE  AccountInv'
<1>1. TypeOK'
    BY NextType DEF AccountInv
<1> SUFFICES CounterIsExact' /\ purge' = "idle" /\ recount' = NoCount
    BY <1>1 DEF AccountInv
<1> USE DEF AccountInv, CounterIsExact
<1>2. ASSUME NEW batch \in SUBSET Photos, Presign(batch) PROVE CounterIsExact' /\ purge' = "idle" /\ recount' = NoCount
    BY <1>2 DEF Presign, purger
<1>3. ASSUME NEW p \in Photos, Upload(p) PROVE CounterIsExact' /\ purge' = "idle" /\ recount' = NoCount
    BY <1>3 DEF Upload, purger
<1>4. ASSUME NEW p \in Photos, Delete(p) PROVE CounterIsExact' /\ purge' = "idle" /\ recount' = NoCount
    <2>1. purge' = "idle" /\ recount' = NoCount
        BY <1>4 DEF Delete, purger
    <2> QED BY <1>4, <2>1, DeleteRefunds
<1>5. ASSUME NEW p \in Photos, Unlink(p) PROVE CounterIsExact' /\ purge' = "idle" /\ recount' = NoCount
    BY <1>5 DEF Unlink, purger
<1>6. ASSUME NEW r \in Requests, NEW batch \in SUBSET Photos, Head(r, batch) PROVE CounterIsExact' /\ purge' = "idle" /\ recount' = NoCount
    BY <1>6 DEF Head, purger
<1>7. ASSUME NEW r \in Requests, Commit(r) PROVE CounterIsExact' /\ purge' = "idle" /\ recount' = NoCount
    <2>1. purge' = "idle" /\ recount' = NoCount
        BY <1>7 DEF Commit, purger
    <2>2. CASE used + Bytes[present[r]] > quota
        BY <1>7, <2>1, <2>2 DEF Commit
    <2>3. CASE ~(used + Bytes[present[r]] > quota)
        BY <1>7, <2>1, <2>3, CommitCharges
    <2> QED BY <2>2, <2>3
<1>8. ASSUME NEW r \in Requests, CleanUp(r) \/ RequestDies(r) PROVE CounterIsExact' /\ purge' = "idle" /\ recount' = NoCount
    BY <1>8 DEF CleanUp, RequestDies, purger
<1>9. ~Purge /\ ~RecountRead /\ ~RecountWrite
    BY DEF Purge, PurgeList, PurgeObjects, PurgeRows, PurgeDies, RecountRead, RecountWrite
<1>10. CASE ChangePlan
    BY <1>10 DEF ChangePlan, purger
<1>11. CASE UNCHANGED vars
    BY <1>11 DEF vars, purger
<1> QED BY <1>2, <1>3, <1>4, <1>5, <1>6, <1>7, <1>8, <1>9, <1>10, <1>11 DEF Next

LEMMA AccountInvariant ==
    ASSUME ~Purging
    PROVE  Spec => []AccountInv
<1>1. AccountInv /\ [Next]_vars => AccountInv'
    BY NextAccount
<1> QED BY <1>1, InitAccount, PTL DEF Spec

\* The counter is the size of the registered photos and the ledger adds up to
\* it, however uploads, deletes, resubmits, dying requests and recounts interleave.
THEOREM CounterExact ==
    ASSUME ~Purging
    PROVE  Spec => []CounterIsExact
<1>1. AccountInv => CounterIsExact
    BY DEF AccountInv
<1> QED BY <1>1, AccountInvariant, PTL

-----------------------------------------------------------------------------
(***************************************************************************)
(* The refinement: every step is a step of the account or leaves it alone. *)
(***************************************************************************)
\* Seen from the account, a request is one Store, Remove or ChangePlan.
THEOREM AccountImplemented ==
    ASSUME ~Purging
    PROVE  Spec => ImplementsAccount
<1>1. Init => Account!Init
    BY DEF Init, Account!Init
<1>2. ASSUME AccountInv, [Next]_vars PROVE [Account!Next]_(Account!vars)
    <2> USE DEF Account!vars
    <2>1. ASSUME NEW r \in Requests, Commit(r) PROVE [Account!Next]_(Account!vars)
        <3>1. CASE used + Bytes[present[r]] > quota
            BY <2>1, <3>1 DEF Commit
        <3>2. CASE ~(used + Bytes[present[r]] > quota)
            <4>1. /\ used' = used + Bytes[present[r] \ assets]
                  /\ used' <= quota
                BY <1>2, <2>1, <3>2, CommitCharges
            <4>2. /\ assets' = assets \cup (present[r] \ assets)
                  /\ quota' = quota
                  /\ present[r] \ assets \in SUBSET Photos
                  /\ (present[r] \ assets) \cap assets = {}
                BY <1>2, <2>1, <3>2 DEF Commit, AccountInv, TypeOK
            <4>3. Account!Store
                BY <4>1, <4>2 DEF Account!Store
            <4> QED BY <4>3 DEF Account!Next
        <3> QED BY <3>1, <3>2
    <2>2. ASSUME NEW p \in Photos, Delete(p) PROVE [Account!Next]_(Account!vars)
        <3>1. p \in assets /\ used' = used - Bytes[{p}]
            BY <1>2, <2>2, DeleteRefunds
        <3>2. Account!Remove
            BY <2>2, <3>1 DEF Delete, Account!Remove
        <3> QED BY <3>2 DEF Account!Next
    <2>3. CASE ChangePlan
        BY <2>3 DEF ChangePlan, Account!ChangePlan, Account!Next
    <2>4. ASSUME NEW p \in Photos, Upload(p) \/ Unlink(p) PROVE UNCHANGED Account!vars
        BY <2>4 DEF Upload, Unlink
    <2>5. ASSUME NEW r \in Requests, CleanUp(r) \/ RequestDies(r) PROVE UNCHANGED Account!vars
        BY <2>5 DEF CleanUp, RequestDies
    <2>6. ASSUME NEW batch \in SUBSET Photos, Presign(batch) PROVE UNCHANGED Account!vars
        BY <2>6 DEF Presign
    <2>7. ASSUME NEW r \in Requests, NEW batch \in SUBSET Photos, Head(r, batch)
          PROVE  UNCHANGED Account!vars
        BY <2>7 DEF Head
    <2>8. ~Purge /\ ~RecountRead /\ ~RecountWrite
        BY <1>2 DEF AccountInv, CounterIsExact, Purge, PurgeList, PurgeObjects, PurgeRows, PurgeDies,
                    RecountRead, RecountWrite
    <2>9. CASE UNCHANGED vars
        BY <2>9 DEF vars
    <2> QED BY <1>2, <2>1, <2>2, <2>3, <2>4, <2>5, <2>6, <2>7, <2>8, <2>9 DEF Next
<1>3. AccountInv /\ [Next]_vars => [Account!Next]_(Account!vars)
    BY <1>2
<1> QED BY <1>1, <1>3, AccountInvariant, PTL DEF Spec, ImplementsAccount, Account!Spec

-----------------------------------------------------------------------------
(***************************************************************************)
(* Rows and objects, while no purge runs: the ids submitted once that are  *)
(* in flight, registered or deleted stay apart.                            *)
(***************************************************************************)
Once == Photos \ Resubmits

OwnerInv ==
    /\ TypeOK
    /\ purge = "idle"
    /\ RowsHaveObjects
    /\ \A p \in assets \cap Once : stage[p] = "submitted" /\ p \notin unlinking
    /\ \A p \in unlinking \cap Once : stage[p] = "submitted"
    /\ \A r \in Requests : \A p \in present[r] \cap Once :
         /\ stage[p] = "submitted"
         /\ p \in objects
         /\ p \notin assets
         /\ p \notin unlinking
    /\ \A q, r \in Requests : q # r => present[q] \cap present[r] \cap Once = {}

LEMMA NextOwner ==
    ASSUME ~Purging, OwnerInv, [Next]_vars
    PROVE  OwnerInv'
<1>1. TypeOK'
    BY NextType DEF OwnerInv
<1> USE <1>1 DEF OwnerInv, TypeOK, RowsHaveObjects, Once
<1>2. ASSUME NEW batch \in SUBSET Photos, Presign(batch) PROVE OwnerInv'
    BY <1>2 DEF Presign, purger, Stages
<1>3. ASSUME NEW p \in Photos, Upload(p) PROVE OwnerInv'
    BY <1>3 DEF Upload, purger
<1>4. ASSUME NEW p \in Photos, Delete(p) PROVE OwnerInv'
    BY <1>4 DEF Delete, purger
<1>5. ASSUME NEW p \in Photos, Unlink(p) PROVE OwnerInv'
    BY <1>5 DEF Unlink, purger
<1>6. ASSUME NEW r \in Requests, NEW batch \in SUBSET Photos, Head(r, batch) PROVE OwnerInv'
    BY <1>6 DEF Head, purger
<1>7. ASSUME NEW r \in Requests, Commit(r) PROVE OwnerInv'
    BY <1>7 DEF Commit, purger
<1>8. ASSUME NEW r \in Requests, CleanUp(r) PROVE OwnerInv'
    BY <1>8 DEF CleanUp, purger
<1>9. ASSUME NEW r \in Requests, RequestDies(r) PROVE OwnerInv'
    BY <1>9 DEF RequestDies, purger
<1>10. ~Purge
    BY DEF Purge, PurgeList, PurgeObjects, PurgeRows, PurgeDies
<1>11. CASE RecountRead \/ RecountWrite \/ ChangePlan
    BY <1>11 DEF RecountRead, RecountWrite, ChangePlan, web, purger
<1>12. CASE UNCHANGED vars
    BY <1>12 DEF vars, web, purger
<1> QED BY <1>2, <1>3, <1>4, <1>5, <1>6, <1>7, <1>8, <1>9, <1>10, <1>11, <1>12 DEF Next

\* A registered photo that was submitted once is in the bucket: no clean-up,
\* unlinking or dying request takes it, whatever is resubmitted beside it.
THEOREM RegisteredIsStored ==
    ASSUME ~Purging
    PROVE  Spec => []RowsHaveObjects
<1>1. Init => OwnerInv
    BY InitType DEF Init, OwnerInv, RowsHaveObjects
<1>2. OwnerInv /\ [Next]_vars => OwnerInv'
    BY NextOwner
<1>3. OwnerInv => RowsHaveObjects
    BY DEF OwnerInv
<1> QED BY <1>1, <1>2, <1>3, PTL DEF Spec
=============================================================================
