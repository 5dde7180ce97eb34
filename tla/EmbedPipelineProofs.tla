------------------------ MODULE EmbedPipelineProofs ------------------------
(***************************************************************************)
(* What EmbedPipeline keeps for any photos, any number of slots, attempts, *)
(* stalls, crashes and failing statements.                                 *)
(***************************************************************************)
EXTENDS EmbedPipeline, TLAPS

-----------------------------------------------------------------------------
(***************************************************************************)
(* What the building blocks of the actions do.                             *)
(***************************************************************************)
ExecType == [Slots -> [photo : Photos \cup {NoPhoto}, step : Steps]]
JobType == [Photos -> [state : JobStates, failures : 0..Attempts, stalled : 0..MaxStalled]]

\* GoTo moves one slot and leaves every slot its photo.
LEMMA GoToEffect ==
    ASSUME exec \in ExecType, NEW e \in Slots, NEW s \in Steps, GoTo(e, s)
    PROVE  /\ exec' \in ExecType
           /\ exec'[e].step = s
           /\ \A f \in Slots : exec'[f].photo = exec[f].photo
           /\ \A f \in Slots \ {e} : exec'[f] = exec[f]
BY DEF GoTo, ExecType

\* SetStatus neither makes nor loses a row.
LEMMA SetStatusEffect ==
    ASSUME status \in [Photos -> Statuses], NEW p \in Photos,
           NEW s \in {"uploaded", "processing", "ready", "failed"}, SetStatus(p, s)
    PROVE  /\ status' \in [Photos -> Statuses]
           /\ HasRow(p) => status'[p] = s
           /\ ~HasRow(p) => status'[p] = status[p]
           /\ \A q \in Photos \ {p} : status'[q] = status[q]
BY DEF SetStatus, HasRow, Statuses

\* A freed slot has no photo, the others keep theirs.
LEMMA FreeEffect ==
    ASSUME exec \in ExecType, NEW e \in Slots, exec' = [exec EXCEPT ![e] = Free]
    PROVE  /\ exec' \in ExecType
           /\ exec'[e].photo = NoPhoto
           /\ \A f \in Slots \ {e} : exec'[f] = exec[f]
BY DEF ExecType, Free, Steps

-----------------------------------------------------------------------------
(***************************************************************************)
(* The queue: a photo is processed in one slot at a time.                  *)
(***************************************************************************)

\* A job that may run has an attempt left.
AttemptsLeft ==
    \A p \in Photos : job[p].state \in {"wait", "active"} => job[p].failures < Attempts

\* A slot works on a job that is active, and no other slot on the same one.
OneSlotPerJob ==
    /\ \A e \in Slots : exec[e].photo # NoPhoto => job[exec[e].photo].state = "active"
    /\ \A e, f \in Slots : exec[e].photo # NoPhoto /\ exec[e].photo = exec[f].photo => e = f

\* Nobody knows of a photo before it is registered.
NewIsUnknown ==
    \A p \in Photos : status[p] = "new" =>
        job[p].state = "none" /\ p \notin enqueueing /\ p \notin listed

QueueInv == TypeOK /\ AttemptsLeft /\ OneSlotPerJob /\ NewIsUnknown

\* add() makes a fresh job or changes nothing.
LEMMA AddJobEffect ==
    ASSUME job \in JobType, NEW p \in Photos, AddJob(p)
    PROVE  /\ job' \in JobType
           /\ \A q \in Photos \ {p} : job'[q] = job[q]
           /\ job[p].state # "none" => job'[p] = job[p]
           /\ job[p].state = "none" => job'[p].state = "wait" /\ job'[p].failures = 0
BY PipelineAssumption DEF AddJob, JobType, NoJob, JobStates

\* It holds at the start.
LEMMA QueueInit == Init => QueueInv
BY PipelineAssumption DEF Init, QueueInv, TypeOK, AttemptsLeft, OneSlotPerJob, NewIsUnknown,
   Statuses, NoJob, Free, JobStates, Steps

\* A step that only moves a slot, with a table of the same rows, keeps it.
LEMMA QueueGoTo ==
    ASSUME QueueInv, NEW e \in Slots, NEW s \in Steps, GoTo(e, s),
           status' \in [Photos -> Statuses], faces' \in [Photos -> Nat],
           \A p \in Photos : status'[p] = "new" => status[p] = "new",
           variants' \subseteq Photos \X Variants, files' \subseteq Photos \X Kinds,
           faults' \in Nat, taken' \subseteq Photos \X Kinds,
           UNCHANGED <<web, job, drainer, purge, purging, condemned, purges, faceless, crashes>>
    PROVE  QueueInv'
<1>1. exec \in ExecType /\ job \in JobType
    BY DEF QueueInv, TypeOK, ExecType, JobType
<1>2. exec' \in ExecType /\ \A f \in Slots : exec'[f].photo = exec[f].photo
    BY <1>1, GoToEffect
<1>3. TypeOK'
    BY <1>2 DEF QueueInv, TypeOK, ExecType, web, drainer
<1>4. OneSlotPerJob'
    BY <1>2 DEF QueueInv, OneSlotPerJob
<1>5. AttemptsLeft' /\ NewIsUnknown'
    BY DEF QueueInv, AttemptsLeft, NewIsUnknown, web, drainer
<1> QED BY <1>3, <1>4, <1>5 DEF QueueInv

\* Every step keeps it.
LEMMA QueueNext == QueueInv /\ [Next]_vars => QueueInv'
<1> SUFFICES ASSUME QueueInv, [Next]_vars PROVE QueueInv'
    OBVIOUS
<1>t. /\ exec \in ExecType /\ job \in JobType /\ status \in [Photos -> Statuses]
      /\ faces \in [Photos -> Nat] /\ faults \in Nat
      /\ variants \subseteq Photos \X Variants /\ files \subseteq Photos \X Kinds
      /\ taken \subseteq Photos \X Kinds
    BY DEF QueueInv, TypeOK, ExecType, JobType
<1>1. ASSUME NEW p \in Photos, Register(p) PROVE QueueInv'
    <2>1. TypeOK'
        BY <1>1, <1>t DEF QueueInv, TypeOK, Register, drainer, purger, bounds, Statuses, Kinds
    <2>2. NewIsUnknown'
        BY <1>1, <1>t DEF QueueInv, NewIsUnknown, Register, drainer
    <2> QED BY <1>1, <2>1, <2>2 DEF QueueInv, AttemptsLeft, OneSlotPerJob, Register
<1>2. ASSUME NEW p \in Photos, Enqueue(p) PROVE QueueInv'
    <2>1. /\ job' \in JobType
          /\ \A q \in Photos \ {p} : job'[q] = job[q]
          /\ job[p].state # "none" => job'[p] = job[p]
          /\ job[p].state = "none" => job'[p].state = "wait" /\ job'[p].failures = 0
        BY <1>2, <1>t, AddJobEffect DEF Enqueue
    <2>2. TypeOK'
        BY <1>2, <2>1 DEF QueueInv, TypeOK, JobType, Enqueue, table, drainer, purger, bounds
    <2>3. AttemptsLeft'
        BY <2>1, PipelineAssumption DEF QueueInv, AttemptsLeft
    <2>4. OneSlotPerJob'
        BY <1>2, <1>t, <2>1, PipelineAssumption DEF QueueInv, OneSlotPerJob, Enqueue, ExecType
    <2>5. NewIsUnknown'
        BY <1>2, <2>1 DEF QueueInv, NewIsUnknown, Enqueue, table, drainer
    <2> QED BY <2>2, <2>3, <2>4, <2>5 DEF QueueInv
<1>3. ASSUME NEW p \in Photos, EnqueueFails(p) PROVE QueueInv'
    BY <1>3 DEF QueueInv, TypeOK, AttemptsLeft, OneSlotPerJob, NewIsUnknown, EnqueueFails,
       table, drainer, purger, bounds
<1>4. ASSUME NEW p \in Photos, DeleteAsset(p) PROVE QueueInv'
    <2>1. TypeOK'
        BY <1>4, <1>t DEF QueueInv, TypeOK, DeleteAsset, drainer, purger, bounds, Statuses, Kinds
    <2>2. NewIsUnknown'
        BY <1>4, <1>t DEF QueueInv, NewIsUnknown, DeleteAsset, drainer
    <2> QED BY <1>4, <2>1, <2>2 DEF QueueInv, AttemptsLeft, OneSlotPerJob, DeleteAsset
<1>5. ASSUME NEW p \in Photos, RecoverStalled(p) PROVE QueueInv'
    <2>1. /\ job' \in JobType
          /\ \A q \in Photos \ {p} : job'[q] = job[q]
          /\ job'[p].failures = job[p].failures
        BY <1>5, <1>t, PipelineAssumption DEF RecoverStalled, JobType, JobStates
    <2>2. TypeOK'
        BY <1>5, <2>1 DEF QueueInv, TypeOK, JobType, RecoverStalled, table, web, drainer, purger, bounds
    <2>3. AttemptsLeft'
        BY <1>5, <2>1 DEF QueueInv, AttemptsLeft, RecoverStalled
    <2>4. OneSlotPerJob'
        BY <1>5, <1>t, <2>1, PipelineAssumption
           DEF QueueInv, OneSlotPerJob, RecoverStalled, Running, ExecType
    <2>5. NewIsUnknown'
        BY <1>5, <2>1 DEF QueueInv, NewIsUnknown, RecoverStalled, table, web, drainer
    <2> QED BY <2>2, <2>3, <2>4, <2>5 DEF QueueInv
<1>6. ASSUME NEW p \in Photos, JobExpires(p) PROVE QueueInv'
    <2>1. job' \in JobType /\ (\A q \in Photos \ {p} : job'[q] = job[q]) /\ job'[p] = NoJob
        BY <1>6, <1>t, PipelineAssumption DEF JobExpires, JobType, NoJob, JobStates
    <2>2. TypeOK'
        BY <1>6, <2>1 DEF QueueInv, TypeOK, JobType, JobExpires, table, web, drainer, purger, bounds
    <2>3. OneSlotPerJob'
        BY <1>6, <1>t, <2>1, PipelineAssumption DEF QueueInv, OneSlotPerJob, JobExpires, ExecType
    <2> QED BY <1>6, <2>1, <2>2, <2>3 DEF QueueInv, AttemptsLeft, NewIsUnknown, JobExpires, NoJob,
               table, web, drainer
<1>7. ASSUME NEW p \in Photos, NEW e \in Slots, Take(e, p) PROVE QueueInv'
    <2>1. /\ job' \in JobType
          /\ \A q \in Photos \ {p} : job'[q] = job[q]
          /\ job'[p].state = "active" /\ job'[p].failures = job[p].failures
        BY <1>7, <1>t DEF Take, JobType, JobStates
    <2>2. /\ exec' \in ExecType
          /\ exec'[e].photo = p
          /\ \A f \in Slots \ {e} : exec'[f] = exec[f]
        BY <1>7, <1>t DEF Take, ExecType
    <2>3. TypeOK'
        BY <1>7, <2>1, <2>2 DEF QueueInv, TypeOK, JobType, ExecType, Take, table, web, drainer,
           purger, bounds
    <2>4. AttemptsLeft'
        BY <1>7, <2>1 DEF QueueInv, AttemptsLeft, Take
    <2>5. \A f \in Slots : exec[f].photo # p
        BY <1>7, PipelineAssumption DEF QueueInv, OneSlotPerJob, Take
    <2>6. OneSlotPerJob'
        BY <1>t, <2>1, <2>2, <2>5 DEF QueueInv, OneSlotPerJob, ExecType
    <2>7. NewIsUnknown'
        BY <1>7, <2>1 DEF QueueInv, NewIsUnknown, Take, table, web, drainer
    <2> QED BY <2>3, <2>4, <2>6, <2>7 DEF QueueInv
<1>8. ASSUME NEW f \in Photos \X Kinds, Unlink(f) PROVE QueueInv'
    BY <1>8 DEF QueueInv, TypeOK, AttemptsLeft, OneSlotPerJob, NewIsUnknown, Unlink,
       table, drainer, purger, bounds
<1>9. ASSUME NEW e \in Slots, Step(e) PROVE QueueInv'
    <2> DEFINE p == exec[e].photo
    <2>0. ASSUME p # NoPhoto PROVE p \in Photos
        BY <1>t, <2>0 DEF ExecType
    <2>1. CASE Mark(e)
        BY <2>1, <2>0, <1>t, SetStatusEffect, QueueGoTo DEF Mark, At, Steps, purger, bounds
    <2>2. CASE Download(e)
        BY <2>2, <1>t, QueueGoTo DEF Download, Steps, table, purger, bounds
    <2>3. CASE Embed(e)
        BY <2>3, <1>t, QueueGoTo DEF Embed, Steps, table, purger, bounds
    <2>4. CASE Clear(e)
        BY <2>4, <1>t, QueueGoTo DEF Clear, Steps, purger, bounds
    <2>5. CASE Insert(e)
        <3>1. faces' \in [Photos -> Nat]
            BY <2>5, <2>0, <1>t DEF Insert, At
        <3>2. GoTo(e, "unrow") \/ GoTo(e, "throw")
            BY <2>5 DEF Insert
        <3> QED BY <2>5, <3>1, <3>2, <1>t, QueueGoTo DEF Insert, Steps, purger, bounds
    <2>6. CASE Unrow(e)
        BY <2>6, <1>t, QueueGoTo DEF Unrow, Steps, purger, bounds
    <2>7. CASE PutVariant(e)
        BY <2>7, <2>0, <1>t, QueueGoTo DEF PutVariant, After, VariantOf, Kinds, Variants, Steps,
           table, purger, bounds
    <2>8. CASE RowVariant(e)
        <3>1. GoTo(e, After[exec[e].step]) \/ GoTo(e, "finish")
            BY <2>8 DEF RowVariant
        <3>2. variants' \subseteq Photos \X Variants
            BY <2>8, <2>0, <1>t DEF RowVariant, VariantOf, Variants
        <3>3. After[exec[e].step] \in Steps
            BY <2>8 DEF RowVariant, After, Steps
        <3> QED BY <2>8, <3>1, <3>2, <3>3, <1>t, QueueGoTo DEF RowVariant, Steps, purger, bounds
    <2>9. CASE VariantsFail(e)
        BY <2>9, <1>t, QueueGoTo DEF VariantsFail, Steps, table, purger, bounds
    <2>10. CASE Finish(e)
        BY <2>10, <2>0, <1>t, SetStatusEffect, QueueGoTo DEF Finish, At, Steps, purger, bounds
    <2>11. CASE GiveUp(e)
        BY <2>11, <2>0, <1>t, SetStatusEffect, QueueGoTo DEF GiveUp, At, Steps, purger, bounds
    <2>12. CASE Complete(e) \/ Throw(e)
        <3>1. p \in Photos /\ job[p].state = "active" /\ job[p].failures < Attempts
            BY <2>12, <2>0 DEF Complete, Throw, At, QueueInv, OneSlotPerJob, AttemptsLeft
        <3>2. /\ job' \in JobType
              /\ \A q \in Photos \ {p} : job'[q] = job[q]
              /\ job'[p].state \in {"wait", "active"} => job'[p].failures < Attempts
              /\ job'[p].state # "none"
            <4>1. CASE Complete(e)
                BY <4>1, <3>1, <1>t DEF Complete, JobType, JobStates
            <4>2. CASE Throw(e)
                BY <4>2, <3>1, <1>t, PipelineAssumption DEF Throw, JobType, JobStates
            <4> QED BY <2>12, <4>1, <4>2
        <3>3. /\ exec' \in ExecType
              /\ exec'[e].photo = NoPhoto
              /\ \A f \in Slots \ {e} : exec'[f] = exec[f]
            BY <2>12, <1>t, FreeEffect DEF Complete, Throw
        <3>4. TypeOK'
            BY <2>12, <3>2, <3>3 DEF QueueInv, TypeOK, JobType, ExecType, Complete, Throw, table, web,
               drainer, purger, bounds
        <3>5. AttemptsLeft'
            BY <3>2 DEF QueueInv, AttemptsLeft
        <3>6. OneSlotPerJob'
            BY <3>1, <3>2, <3>3, <1>t DEF QueueInv, OneSlotPerJob, ExecType
        <3>7. NewIsUnknown'
            BY <2>12, <3>1, <3>2 DEF QueueInv, NewIsUnknown, Complete, Throw, table, web, drainer
        <3> QED BY <3>4, <3>5, <3>6, <3>7 DEF QueueInv
    <2> QED BY <1>9, <2>1, <2>2, <2>3, <2>4, <2>5, <2>6, <2>7, <2>8, <2>9, <2>10, <2>11, <2>12
        DEF Step
<1>10. ASSUME NEW e \in Slots, StatementFails(e) PROVE QueueInv'
    BY <1>10, <1>t, QueueGoTo DEF StatementFails, table, purger, Steps
<1>11. CASE DrainList
    BY <1>11 DEF QueueInv, TypeOK, AttemptsLeft, OneSlotPerJob, NewIsUnknown, DrainList, Pending,
       table, web, purger, bounds
<1>12. ASSUME NEW p \in Photos, DrainRemove(p) PROVE QueueInv'
    <2>1. /\ job' \in JobType
          /\ \A q \in Photos \ {p} : job'[q] = job[q]
          /\ job'[p] \in {job[p], NoJob}
          /\ job[p].state = "active" /\ Running(p) => job'[p] = job[p]
        BY <1>12, <1>t, PipelineAssumption DEF DrainRemove, JobType, NoJob, JobStates
    <2>2. drain' \in {"idle", "remove", "add"} /\ left' \subseteq listed
        BY <1>12 DEF QueueInv, TypeOK, DrainRemove, Visited
    <2>3. TypeOK'
        BY <1>12, <2>1, <2>2 DEF QueueInv, TypeOK, JobType, DrainRemove, table, web, purger, bounds
    <2>4. AttemptsLeft'
        BY <2>1 DEF QueueInv, AttemptsLeft, NoJob
    <2>5. OneSlotPerJob'
        BY <1>12, <1>t, <2>1 DEF QueueInv, OneSlotPerJob, DrainRemove, Running, ExecType
    <2>6. NewIsUnknown'
        BY <1>12, <2>1 DEF QueueInv, NewIsUnknown, DrainRemove, NoJob, table, web
    <2> QED BY <2>3, <2>4, <2>5, <2>6 DEF QueueInv
<1>13. ASSUME NEW p \in Photos, DrainAdd(p) PROVE QueueInv'
    <2>1. /\ job' \in JobType
          /\ \A q \in Photos \ {p} : job'[q] = job[q]
          /\ job[p].state # "none" => job'[p] = job[p]
          /\ job[p].state = "none" => job'[p].state = "wait" /\ job'[p].failures = 0
        BY <1>13, <1>t, AddJobEffect DEF DrainAdd
    <2>2. drain' \in {"idle", "remove", "add"} /\ left' \subseteq listed /\ p \in listed
        BY <1>13 DEF QueueInv, TypeOK, DrainAdd, Visited
    <2>3. TypeOK'
        BY <1>13, <2>1, <2>2 DEF QueueInv, TypeOK, JobType, DrainAdd, table, web, purger, bounds
    <2>4. AttemptsLeft'
        BY <2>1, PipelineAssumption DEF QueueInv, AttemptsLeft
    <2>5. OneSlotPerJob'
        BY <1>13, <1>t, <2>1, PipelineAssumption DEF QueueInv, OneSlotPerJob, DrainAdd, ExecType
    <2>6. NewIsUnknown'
        BY <1>13, <2>1, <2>2 DEF QueueInv, NewIsUnknown, DrainAdd, table, web
    <2> QED BY <2>3, <2>4, <2>5, <2>6 DEF QueueInv
<1>14. CASE DrainFails
    BY <1>14 DEF QueueInv, TypeOK, AttemptsLeft, OneSlotPerJob, NewIsUnknown, DrainFails,
       table, web, purger, bounds
<1>15. CASE Crash
    <2>1. exec' \in ExecType /\ \A e \in Slots : exec'[e].photo = NoPhoto
        BY <1>15 DEF Crash, ExecType, Free, Steps
    <2> QED BY <1>15, <2>1 DEF QueueInv, TypeOK, ExecType, AttemptsLeft, OneSlotPerJob, NewIsUnknown,
               Crash, AbandonPurge, table, web
<1>17. CASE Purge
    <2>1. CASE PurgeList
        BY <2>1 DEF QueueInv, TypeOK, AttemptsLeft, OneSlotPerJob, NewIsUnknown, PurgeList,
           table, web, drainer, bounds
    <2>2. CASE PurgeKeys
        <3>1. condemned' \subseteq Photos \X Kinds
            BY <2>2, <1>t DEF PurgeKeys, QueueInv, TypeOK, Kinds
        <3> QED BY <2>2, <3>1 DEF QueueInv, TypeOK, AttemptsLeft, OneSlotPerJob, NewIsUnknown,
               PurgeKeys, table, web, drainer, bounds
    <2>3. CASE PurgeObjects
        BY <2>3 DEF QueueInv, TypeOK, AttemptsLeft, OneSlotPerJob, NewIsUnknown, PurgeObjects,
           AbandonPurge, table, web, drainer, bounds
    <2>4. CASE PurgeRows
        <3>1. TypeOK'
            BY <2>4, <1>t DEF QueueInv, TypeOK, PurgeRows, AbandonPurge, Statuses, web, drainer, bounds
        <3>2. NewIsUnknown'
            BY <2>4, <1>t DEF QueueInv, NewIsUnknown, PurgeRows, HasRow, web, drainer
        <3> QED BY <2>4, <3>1, <3>2 DEF QueueInv, AttemptsLeft, OneSlotPerJob, PurgeRows
    <2>5. CASE PurgeFails
        BY <2>5 DEF QueueInv, TypeOK, AttemptsLeft, OneSlotPerJob, NewIsUnknown, PurgeFails,
           AbandonPurge, table, web, drainer, bounds
    <2> QED BY <1>17, <2>1, <2>2, <2>3, <2>4, <2>5 DEF Purge
<1>16. CASE UNCHANGED vars
    BY <1>16 DEF QueueInv, TypeOK, AttemptsLeft, OneSlotPerJob, NewIsUnknown, vars, table, web,
       drainer, purger, bounds
<1> QED BY <1>1, <1>2, <1>3, <1>4, <1>5, <1>6, <1>7, <1>8, <1>9, <1>10, <1>11, <1>12,
           <1>13, <1>14, <1>15, <1>16, <1>17 DEF Next, Drain

\* A job never fails more often than it may be attempted, nor stalls more often,
\* and the drain's loops stay within its list.
THEOREM PipelineTypeCorrect == Spec => []TypeOK
<1>1. QueueInv => TypeOK
    BY DEF QueueInv
<1> QED BY QueueInit, QueueNext, <1>1, PTL DEF Spec

-----------------------------------------------------------------------------
(***************************************************************************)
(* The faces.  Because one slot at most works on a photo, what its step    *)
(* says of the photo's row stays true between two of its awaits.           *)
(***************************************************************************)
FacesOf(p) == IF p \in faceless THEN 0 ELSE 1

StepFact(e) ==
    exec[e].photo # NoPhoto /\ HasRow(exec[e].photo) =>
        /\ exec[e].step \notin {"mark", "complete", "throw"} => status[exec[e].photo] = "processing"
        /\ exec[e].step = "insert" => faces[exec[e].photo] = 0
        /\ exec[e].step \in {"unrow", "putThumb", "rowThumb", "putPreview", "rowPreview", "finish"}
              => faces[exec[e].photo] = FacesOf(exec[e].photo)

FacesInv == ReadyIsSearchable /\ \A e \in Slots : StepFact(e)

\* A step of the slot that works on p concerns no other photo and no other slot.
LEMMA FacesOfOneSlot ==
    ASSUME QueueInv, FacesInv, NEW e \in Slots, exec[e].photo \in Photos,
           \A f \in Slots \ {e} : exec'[f] = exec[f],
           \A q \in Photos \ {exec[e].photo} : status'[q] = status[q] /\ faces'[q] = faces[q],
           status'[exec[e].photo] = "ready" => faces'[exec[e].photo] = FacesOf(exec[e].photo),
           StepFact(e)', faceless' = faceless
    PROVE  FacesInv'
<1>1. ReadyIsSearchable'
    BY DEF FacesInv, ReadyIsSearchable, FacesOf
<1>2. ASSUME NEW f \in Slots \ {e} PROVE StepFact(f)'
    <2>1. CASE exec[f].photo = NoPhoto
        BY <2>1 DEF StepFact
    <2>2. CASE exec[f].photo # NoPhoto
        <3>1. exec[f].photo # exec[e].photo /\ exec[f].photo \in Photos
            BY <2>2 DEF QueueInv, OneSlotPerJob, TypeOK
        <3> QED BY <3>1 DEF FacesInv, StepFact, HasRow, FacesOf
    <2> QED BY <2>1, <2>2
<1> QED BY <1>1, <1>2 DEF FacesInv

\* It holds at the start.
LEMMA FacesInit == Init => FacesInv
BY DEF Init, FacesInv, ReadyIsSearchable, StepFact, Free

\* Every step keeps it.
LEMMA FacesNext == QueueInv /\ QueueInv' /\ FacesInv /\ [Next]_vars => FacesInv'
<1> SUFFICES ASSUME QueueInv, QueueInv', FacesInv, [Next]_vars PROVE FacesInv'
    OBVIOUS
<1>t. /\ exec \in ExecType /\ status \in [Photos -> Statuses] /\ faces \in [Photos -> Nat]
    BY DEF QueueInv, TypeOK, ExecType
<1>u. ASSUME UNCHANGED <<status, faces, faceless>>,
             \A e \in Slots : exec'[e] = exec[e] \/ exec'[e].photo = NoPhoto
      PROVE  FacesInv'
    BY <1>u DEF FacesInv, ReadyIsSearchable, StepFact, HasRow, FacesOf
<1>1. ASSUME NEW p \in Photos, Register(p) PROVE FacesInv'
    <2>1. \A e \in Slots : exec[e].photo # p
        BY <1>1, PipelineAssumption DEF Register, QueueInv, OneSlotPerJob, NewIsUnknown
    <2> QED BY <1>1, <1>t, <2>1 DEF Register, FacesInv, ReadyIsSearchable, StepFact, HasRow,
           FacesOf, purger, bounds, ExecType
<1>2. ASSUME NEW p \in Photos, Enqueue(p) \/ EnqueueFails(p) \/ RecoverStalled(p) \/ JobExpires(p)
      PROVE FacesInv'
    BY <1>2, <1>u DEF Enqueue, EnqueueFails, RecoverStalled, JobExpires, table, purger, bounds
<1>3. ASSUME NEW p \in Photos, DeleteAsset(p) PROVE FacesInv'
    BY <1>3, <1>t DEF DeleteAsset, FacesInv, ReadyIsSearchable, StepFact, HasRow,
       FacesOf, purger, bounds, ExecType
<1>4. ASSUME NEW p \in Photos, NEW e \in Slots, Take(e, p) PROVE FacesInv'
    <2>1. exec'[e].step = "mark" /\ \A f \in Slots \ {e} : exec'[f] = exec[f]
        BY <1>4, <1>t DEF Take, ExecType, Free
    <2> QED BY <1>4, <2>1 DEF Take, FacesInv, ReadyIsSearchable, StepFact, HasRow,
           FacesOf, table, purger, bounds
<1>5. ASSUME NEW f \in Photos \X Kinds, Unlink(f) PROVE FacesInv'
    BY <1>5, <1>u DEF Unlink, table, purger, bounds
<1>6. ASSUME NEW e \in Slots, Step(e) \/ StatementFails(e) PROVE FacesInv'
    <2> DEFINE p == exec[e].photo
    <2>0. p \in Photos
        BY <1>6, <1>t DEF ExecType, Step, StatementFails, Mark, Download, Embed, Clear, Insert,
           Unrow, PutVariant, RowVariant, VariantsFail, Finish, Complete, GiveUp, Throw, At
    <2>f. p # NoPhoto /\ StepFact(e) /\ (status[p] = "ready" => faces[p] = FacesOf(p))
        BY <2>0, PipelineAssumption DEF FacesInv, ReadyIsSearchable, FacesOf
    <2>g. ASSUME NEW s \in Steps, GoTo(e, s),
                 \A q \in Photos \ {p} : status'[q] = status[q] /\ faces'[q] = faces[q],
                 faceless' = faceless, ~HasRow(p) => status'[p] = status[p],
                 HasRow(p) /\ s \notin {"mark", "complete", "throw"} => status'[p] = "processing",
                 HasRow(p) /\ s = "insert" => faces'[p] = 0,
                 HasRow(p) /\ s \in {"unrow", "putThumb", "rowThumb", "putPreview", "rowPreview", "finish"}
                    => faces'[p] = FacesOf(p),
                 status'[p] = "ready" => faces'[p] = FacesOf(p)
          PROVE  FacesInv'
        <3>1. /\ exec'[e].step = s /\ exec'[e].photo = p
              /\ \A f \in Slots \ {e} : exec'[f] = exec[f]
            BY <2>g, <1>t, GoToEffect
        <3>2. StepFact(e)'
            BY <2>g, <3>1 DEF StepFact, FacesOf, HasRow
        <3> QED BY <2>0, <2>g, <3>1, <3>2, FacesOfOneSlot
    <2>1. CASE Mark(e)
        <3>1. /\ HasRow(p) => status'[p] = "processing"
              /\ ~HasRow(p) => status'[p] = status[p]
              /\ \A q \in Photos \ {p} : status'[q] = status[q]
            BY <2>1, <2>0, <1>t, SetStatusEffect DEF Mark
        <3> QED BY <2>1, <2>g, <3>1 DEF Mark, HasRow, Steps, purger, bounds
    <2>2. CASE Download(e) \/ Embed(e)
        BY <2>2, <2>f, <2>g DEF Download, Embed, At, StepFact, HasRow, Steps, table, purger, bounds
    <2>4. CASE Clear(e)
        BY <2>4, <2>0, <2>f, <2>g, <1>t DEF Clear, At, StepFact, HasRow, Steps, purger, bounds
    <2>5. CASE Insert(e)
        BY <2>5, <2>0, <2>f, <2>g, <1>t DEF Insert, At, StepFact, HasRow, FacesOf, Steps, purger, bounds
    <2>6. CASE Unrow(e) \/ PutVariant(e) \/ RowVariant(e) \/ VariantsFail(e)
        <3>1. PICK s \in {"putThumb", "rowThumb", "putPreview", "rowPreview", "finish"} : GoTo(e, s)
            BY <2>6 DEF Unrow, PutVariant, RowVariant, VariantsFail, After, At
        <3> QED BY <2>6, <2>f, <2>g, <3>1
               DEF Unrow, PutVariant, RowVariant, VariantsFail, At, StepFact, HasRow, Steps,
               table, purger, bounds
    <2>10. CASE Finish(e)
        <3>1. /\ HasRow(p) => status'[p] = "ready"
              /\ ~HasRow(p) => status'[p] = status[p]
              /\ \A q \in Photos \ {p} : status'[q] = status[q]
            BY <2>10, <2>0, <1>t, SetStatusEffect DEF Finish
        <3> QED BY <2>10, <2>f, <2>g, <3>1 DEF Finish, At, StepFact, HasRow, Steps, purger, bounds
    <2>11. CASE GiveUp(e)
        <3>1. /\ HasRow(p) => status'[p] = "failed"
              /\ ~HasRow(p) => status'[p] = status[p]
              /\ \A q \in Photos \ {p} : status'[q] = status[q]
            BY <2>11, <2>0, <1>t, SetStatusEffect DEF GiveUp
        <3> QED BY <2>11, <2>f, <2>g, <3>1 DEF GiveUp, At, StepFact, HasRow, Steps, purger, bounds
    <2>12. CASE Complete(e) \/ Throw(e)
        BY <2>12, <1>t, <1>u, FreeEffect DEF Complete, Throw, table, purger, bounds
    <2>13. CASE StatementFails(e)
        BY <2>13, <2>f, <2>g DEF StatementFails, HasRow, Steps, table
    <2> QED BY <1>6, <2>1, <2>2, <2>4, <2>5, <2>6, <2>10, <2>11, <2>12, <2>13 DEF Step
<1>7. CASE Drain
    BY <1>7, <1>u DEF Drain, DrainList, DrainFails, DrainRemove, DrainAdd, table, purger, bounds
<1>8. CASE Crash
    BY <1>8, <1>u DEF Crash, table, Free
<1>9. CASE UNCHANGED vars
    BY <1>9, <1>u DEF vars, table, purger, bounds
<1>10. CASE Purge
    <2>1. CASE PurgeList \/ PurgeKeys \/ PurgeObjects \/ PurgeFails
        BY <2>1, <1>u DEF PurgeList, PurgeKeys, PurgeObjects, PurgeFails, table, bounds
    <2>2. CASE PurgeRows
        <3>1. /\ UNCHANGED <<exec, faceless>>
              /\ \A q \in Photos : \/ status'[q] = "gone"
                                   \/ status'[q] = status[q] /\ faces'[q] = faces[q]
                                   \/ status'[q] = status[q] /\ ~HasRow(q)
            BY <2>2, <1>t DEF PurgeRows, bounds
        <3> QED BY <3>1, <1>t DEF FacesInv, ReadyIsSearchable, StepFact, HasRow, FacesOf, ExecType
    <2> QED BY <1>10, <2>1, <2>2 DEF Purge
<1> QED BY <1>1, <1>2, <1>3, <1>4, <1>5, <1>6, <1>7, <1>8, <1>9, <1>10 DEF Next

\* A photo the gallery shows as ready is found by a selfie search, once.
THEOREM SearchableOnce == Spec => []ReadyIsSearchable
<1>1. FacesInv => ReadyIsSearchable
    BY DEF FacesInv
<1> QED BY QueueInit, QueueNext, FacesInit, FacesNext, <1>1, PTL DEF Spec

-----------------------------------------------------------------------------
(***************************************************************************)
(* The thumbnails.  A DELETE request unlinks objects only of photos whose  *)
(* row is gone, and such a photo never gets a variant row again; what the  *)
(* purge deletes of a photo whose row stays is noted in `taken'.           *)
(***************************************************************************)
StoredInv ==
    /\ VariantsAreStored
    /\ \A v \in variants : HasRow(v[1])
    /\ \A u \in unlinking : status[u[1]] = "gone"
    /\ \A e \in Slots :
         exec[e].photo # NoPhoto /\ HasRow(exec[e].photo) /\ exec[e].step \in {"rowThumb", "rowPreview"}
            => <<exec[e].photo, VariantOf(exec[e].step)>> \in files \cup taken

\* It holds at the start.
LEMMA StoredInit == Init => StoredInv
BY DEF Init, StoredInv, VariantsAreStored, Free

\* Every step keeps it.
LEMMA StoredNext == QueueInv /\ StoredInv /\ [Next]_vars => StoredInv'
<1> SUFFICES ASSUME QueueInv, StoredInv, [Next]_vars PROVE StoredInv'
    OBVIOUS
<1>t. /\ exec \in ExecType /\ status \in [Photos -> Statuses]
      /\ variants \subseteq Photos \X Variants /\ files \subseteq Photos \X Kinds
      /\ unlinking \subseteq Photos \X Kinds
    BY DEF QueueInv, TypeOK, ExecType
<1>u. ASSUME UNCHANGED <<status, variants, files, taken, unlinking>>,
             \A e \in Slots : exec'[e] = exec[e] \/ exec'[e].photo = NoPhoto
      PROVE  StoredInv'
    BY <1>u DEF StoredInv, VariantsAreStored, HasRow, VariantOf
<1>1. ASSUME NEW p \in Photos, Register(p) PROVE StoredInv'
    <2>1. \A e \in Slots : exec[e].photo # p
        BY <1>1, PipelineAssumption DEF Register, QueueInv, OneSlotPerJob, NewIsUnknown
    <2> QED BY <1>1, <1>t, <2>1 DEF Register, StoredInv, VariantsAreStored, HasRow, VariantOf, ExecType,
           purger
<1>2. ASSUME NEW p \in Photos, Enqueue(p) \/ EnqueueFails(p) \/ RecoverStalled(p) \/ JobExpires(p)
      PROVE StoredInv'
    BY <1>2, <1>u DEF Enqueue, EnqueueFails, RecoverStalled, JobExpires, table, web, purger
<1>3. ASSUME NEW p \in Photos, DeleteAsset(p) PROVE StoredInv'
    <2>1. \A q \in Photos : HasRow(q)' <=> HasRow(q) /\ q # p
        BY <1>3, <1>t DEF DeleteAsset, HasRow
    <2>2. VariantsAreStored' /\ \A v \in variants' : HasRow(v[1])'
        BY <1>3, <1>t, <2>1 DEF DeleteAsset, StoredInv, VariantsAreStored, purger
    <2>3. \A u \in unlinking' : status'[u[1]] = "gone"
        BY <1>3, <1>t DEF DeleteAsset, StoredInv
    <2>4. UNCHANGED <<exec, files, taken>>
        BY <1>3 DEF DeleteAsset, purger
    <2>5. ASSUME NEW e \in Slots, exec[e].photo # NoPhoto
          PROVE  HasRow(exec[e].photo)' => HasRow(exec[e].photo)
        BY <1>t, <2>1, <2>4, <2>5 DEF ExecType
    <2> QED BY <2>2, <2>3, <2>4, <2>5 DEF StoredInv, VariantOf
<1>4. ASSUME NEW p \in Photos, NEW e \in Slots, Take(e, p) PROVE StoredInv'
    <2>1. exec'[e].step = "mark" /\ \A f \in Slots \ {e} : exec'[f] = exec[f]
        BY <1>4, <1>t DEF Take, ExecType, Free
    <2> QED BY <1>4, <2>1 DEF Take, StoredInv, VariantsAreStored, HasRow, VariantOf, table, web, purger
<1>5. ASSUME NEW f \in Photos \X Kinds, Unlink(f) PROVE StoredInv'
    <2>1. status[f[1]] = "gone" /\ f \notin variants
        BY <1>5 DEF Unlink, StoredInv, HasRow
    <2> QED BY <1>5, <1>t, <2>1 DEF Unlink, StoredInv, VariantsAreStored, HasRow, VariantOf, table, purger
<1>6. ASSUME NEW e \in Slots, Step(e) \/ StatementFails(e) PROVE StoredInv'
    <2> DEFINE p == exec[e].photo
    <2>0. p \in Photos /\ p # NoPhoto
        BY <1>6, <1>t, PipelineAssumption DEF ExecType, Step, StatementFails, Mark, Download, Embed,
           Clear, Insert, Unrow, PutVariant, RowVariant, VariantsFail, Finish, Complete, GiveUp, Throw, At
    <2>g. ASSUME NEW s \in Steps, GoTo(e, s), unlinking' = unlinking,
                 files \cup taken \subseteq files' \cup taken',
                 \A q \in Photos \ {p} : status'[q] = status[q],
                 ~HasRow(p) => status'[p] = status[p], HasRow(p) => status'[p] \notin {"new", "gone"},
                 \/ variants' \subseteq variants
                 \/ \E k \in Variants : /\ variants' = variants \cup {<<p, k>>}
                                       /\ <<p, k>> \in files \cup taken /\ HasRow(p),
                 s = "rowThumb" => <<p, "thumb">> \in files',
                 s = "rowPreview" => <<p, "preview">> \in files'
          PROVE  StoredInv'
        <3>1. /\ exec' \in ExecType /\ exec'[e].step = s /\ exec'[e].photo = p
              /\ \A f \in Slots \ {e} : exec'[f] = exec[f]
            BY <2>g, <1>t, GoToEffect
        <3>2. \A q \in Photos : HasRow(q)' <=> HasRow(q)
            BY <2>g DEF HasRow
        <3>3. VariantsAreStored'
            <4>1. variants \subseteq files \cup taken
                BY DEF StoredInv, VariantsAreStored
            <4>2. variants' \subseteq files \cup taken
                BY <2>g, <4>1
            <4>3. variants' \subseteq files' \cup taken'
                BY <2>g, <4>2
            <4> QED BY <4>3 DEF VariantsAreStored
        <3>6. \A v \in variants' : HasRow(v[1])'
            <4>1. \A v \in variants : v[1] \in Photos /\ HasRow(v[1])
                BY <1>t DEF StoredInv
            <4>2. \A v \in variants' : v[1] \in Photos /\ HasRow(v[1])
                <5>1. CASE variants' \subseteq variants
                    BY <4>1, <5>1
                <5>2. CASE \E k \in Variants : variants' = variants \cup {<<p, k>>} /\ HasRow(p)
                    <6>1. PICK k \in Variants : variants' = variants \cup {<<p, k>>} /\ HasRow(p)
                        BY <5>2
                    <6>2. \A v \in variants' : v \in variants \/ v = <<p, k>>
                        BY <6>1
                    <6>3. <<p, k>>[1] = p
                        OBVIOUS
                    <6> HIDE DEF p
                    <6> QED BY <2>0, <4>1, <6>1, <6>2, <6>3
                <5> QED BY <2>g, <5>1, <5>2
            <4>3. \A q \in Photos : HasRow(q) => status'[q] \notin {"new", "gone"}
                BY <2>g DEF HasRow
            <4> QED BY <4>2, <4>3 DEF HasRow
        <3>4. \A u \in unlinking' : status'[u[1]] = "gone"
            BY <2>0, <2>g, <1>t DEF StoredInv, HasRow
        <3>5. ASSUME NEW f \in Slots, exec'[f].photo # NoPhoto, HasRow(exec[f].photo)',
                     exec'[f].step \in {"rowThumb", "rowPreview"}
              PROVE  <<exec'[f].photo, VariantOf(exec'[f].step)>> \in files' \cup taken'
            <4>1. CASE f = e
                BY <4>1, <2>g, <3>1, <3>5 DEF VariantOf
            <4>2. CASE f # e
                <5>1. exec'[f] = exec[f] /\ exec[f].photo \in Photos /\ HasRow(exec[f].photo)
                    BY <4>2, <1>t, <3>1, <3>2, <3>5 DEF ExecType, HasRow
                <5> QED BY <2>g, <3>5, <5>1 DEF StoredInv
            <4> QED BY <4>1, <4>2
        <3> QED BY <3>3, <3>4, <3>5, <3>6 DEF StoredInv, VariantOf
    <2>1. CASE Mark(e) \/ Finish(e) \/ GiveUp(e)
        <3>1. PICK s \in {"processing", "ready", "failed"} : SetStatus(p, s)
            BY <2>1 DEF Mark, Finish, GiveUp
        <3>2. /\ HasRow(p) => status'[p] = s
              /\ ~HasRow(p) => status'[p] = status[p]
              /\ \A q \in Photos \ {p} : status'[q] = status[q]
            BY <2>0, <1>t, <3>1, SetStatusEffect
        <3>3. PICK t \in {"download", "complete", "throw"} : GoTo(e, t)
            BY <2>1 DEF Mark, Finish, GiveUp
        <3> QED BY <2>1, <2>g, <3>2, <3>3 DEF Mark, Finish, GiveUp, Steps, web, purger
    <2>2. CASE Download(e) \/ Embed(e) \/ Clear(e) \/ Insert(e) \/ VariantsFail(e) \/ StatementFails(e)
        <3>1. PICK t \in {"embed", "giveUp", "clear", "insert", "unrow", "throw", "finish"} : GoTo(e, t)
            BY <2>2 DEF Download, Embed, Clear, Insert, VariantsFail, StatementFails
        <3> QED BY <2>2, <2>g, <3>1 DEF Download, Embed, Clear, Insert, VariantsFail, StatementFails,
               HasRow, Steps, table, web, purger
    <2>3. CASE Unrow(e)
        <3>1. variants' \subseteq variants
            BY <2>3 DEF Unrow
        <3> QED BY <2>3, <2>g, <3>1 DEF Unrow, HasRow, Steps, web, purger
    <2>4. CASE PutVariant(e)
        <3>1. PICK t \in {"rowThumb", "rowPreview"} :
                /\ GoTo(e, t)
                /\ t = "rowThumb" => <<p, "thumb">> \in files'
                /\ t = "rowPreview" => <<p, "preview">> \in files'
            BY <2>4 DEF PutVariant, After, VariantOf
        <3> QED BY <2>4, <2>g, <3>1 DEF PutVariant, HasRow, Steps, table, web, purger
    <2>5. CASE RowVariant(e)
        <3>1. PICK t \in {"putPreview", "finish"} : GoTo(e, t)
            BY <2>5 DEF RowVariant, After
        <3>2. \/ variants' \subseteq variants
              \/ \E k \in Variants : /\ variants' = variants \cup {<<p, k>>}
                                    /\ <<p, k>> \in files \cup taken /\ HasRow(p)
            BY <2>5, <2>0 DEF RowVariant, StoredInv, VariantOf, Variants
        <3> QED BY <2>5, <2>g, <3>1, <3>2 DEF RowVariant, HasRow, Steps, web, purger
    <2>6. CASE Complete(e) \/ Throw(e)
        BY <2>6, <1>t, <1>u, FreeEffect DEF Complete, Throw, table, web, purger
    <2> QED BY <1>6, <2>1, <2>2, <2>3, <2>4, <2>5, <2>6 DEF Step
<1>7. CASE Drain
    BY <1>7, <1>u DEF Drain, DrainList, DrainFails, DrainRemove, DrainAdd, table, web, purger
<1>8. CASE Crash
    BY <1>8, <1>u DEF Crash, table, web, purger, AbandonPurge, Free
<1>9. CASE UNCHANGED vars
    BY <1>9, <1>u DEF vars, table, web, purger
<1>10. CASE Purge
    <2>1. CASE PurgeList \/ PurgeKeys \/ PurgeFails
        BY <2>1, <1>u DEF PurgeList, PurgeKeys, PurgeFails, table, web
    <2>2. CASE PurgeObjects
        <3>1. PICK gone \in SUBSET condemned : files' = files \ gone /\ taken' = taken \cup gone
            BY <2>2 DEF PurgeObjects
        <3>2. UNCHANGED <<status, variants, unlinking, exec>>
            BY <2>2 DEF PurgeObjects, table, web
        <3> QED BY <3>1, <3>2 DEF StoredInv, VariantsAreStored, HasRow, VariantOf
    <2>3. CASE PurgeRows
        <3>1. /\ \A q \in Photos : HasRow(q)' <=> HasRow(q) /\ q \notin purging
              /\ \A q \in Photos : status[q] = "gone" => status'[q] = "gone"
            BY <2>3, <1>t DEF PurgeRows, HasRow
        <3>2. UNCHANGED <<exec, files, taken, unlinking>>
            BY <2>3 DEF PurgeRows, web
        <3>3. VariantsAreStored' /\ \A v \in variants' : HasRow(v[1])'
            BY <2>3, <1>t, <3>1, <3>2 DEF PurgeRows, StoredInv, VariantsAreStored
        <3>4. \A u \in unlinking' : status'[u[1]] = "gone"
            BY <1>t, <3>1, <3>2 DEF StoredInv
        <3>5. ASSUME NEW e \in Slots, exec[e].photo # NoPhoto
              PROVE  HasRow(exec[e].photo)' => HasRow(exec[e].photo)
            BY <1>t, <3>1, <3>2, <3>5 DEF ExecType
        <3> QED BY <3>2, <3>3, <3>4, <3>5 DEF StoredInv, VariantOf
    <2> QED BY <1>10, <2>1, <2>2, <2>3 DEF Purge
<1> QED BY <1>1, <1>2, <1>3, <1>4, <1>5, <1>6, <1>7, <1>8, <1>9, <1>10 DEF Next

\* No gallery links a thumbnail that is not in the bucket, but one whose object
\* the retention purge deleted and no job stored again.
THEOREM VariantsStored == Spec => []VariantsAreStored
<1>1. StoredInv => VariantsAreStored
    BY DEF StoredInv
<1> QED BY QueueInit, QueueNext, StoredInit, StoredNext, <1>1, PTL DEF Spec

=============================================================================
