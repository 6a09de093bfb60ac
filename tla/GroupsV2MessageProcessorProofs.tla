-------------------- MODULE GroupsV2MessageProcessorProofs --------------------
(***************************************************************************)
(* Theorems about GroupsV2MessageProcessor, for every number of messages,  *)
(* groups, revisions, batch size and launches.                             *)
(***************************************************************************)
EXTENDS GroupsV2MessageProcessor, TLAPS, FiniteSetTheorems, WellFoundedInduction

Active(c) == step[c] # "idle"

------------------------------------------------------------------------------
(***************************************************************************)
(* Types                                                                   *)
(***************************************************************************)

\* A batch is part of the queue, whatever the batch size.
LEMMA NextJobsType == \A n : nextJobs(n) \subseteq Queued
BY DEF nextJobs

\* Removing jobs from the queue keeps the types of their states and counts.
LEMMA SettleType ==
    ASSUME TypeOK, NEW jobs, Settle(jobs)
    PROVE  /\ job' \in [Jobs -> {"none", "ignored", "queued", "settled"}]
           /\ processed' \in [Jobs -> Nat]
<1>1. job' \in [Jobs -> {"none", "ignored", "queued", "settled"}]
  BY DEF TypeOK, Settle
<1>2. PICK discarded \in SUBSET jobs :
        processed' = [j \in Jobs |->
            processed[j] + (IF j \in jobs \ discarded THEN 1 ELSE 0)]
  BY DEF Settle
<1>3. \A j \in Jobs : processed[j] + (IF j \in jobs \ discarded THEN 1 ELSE 0) \in Nat
  BY DEF TypeOK
<1> QED
  BY <1>1, <1>2, <1>3

LEMMA TypeInduction ==
    ASSUME TypeOK, [Next]_vars
    PROVE  TypeOK'
<1> USE DEF TypeOK, store, triggers, queue, flags, Steps
<1>1. CASE UNCHANGED vars
  BY <1>1 DEF vars
<1>2. CASE Relaunch
  <2>1. goodCitizen' \in BOOLEAN
    <3>1. goodCitizen \in BOOLEAN /\ goodCitizen' \in {goodCitizen, TRUE}
      BY <1>2 DEF Relaunch
    <3> QED
      BY ONLY <3>1, Zenon
  <2>2. /\ launches' = launches + 1
        /\ isDrainingQueue' = FALSE /\ drainCalls' = TRUE /\ retryTimer' = FALSE
        /\ step' = [c \in Chains |-> "idle"]
        /\ batch' = [c \in Chains |-> {}]
        /\ UNCHANGED <<store, groupsV2processProtosInGroupUpdates, processed>>
    BY <1>2, Zenon DEF Relaunch
  <2>3. launches' \in Nat
    BY <2>2
  <2>4. step' \in [Chains -> Steps]
    BY <2>2
  <2>5. batch' \in [Chains -> SUBSET Jobs]
    BY <2>2
  <2>6. /\ isDrainingQueue' \in BOOLEAN /\ drainCalls' \in BOOLEAN
        /\ retryTimer' \in BOOLEAN
    BY <2>2
  <2>7. groupsV2processProtosInGroupUpdates' \in BOOLEAN
    BY <2>2
  <2> QED
    BY <2>1, <2>2, <2>3, <2>4, <2>5, <2>6, <2>7
<1>3. CASE enqueue
  <2>1. drainCalls' \in BOOLEAN
    <3>1. drainCalls' = (drainCalls \/ ShouldKeep)
      BY <1>3 DEF enqueue
    <3> QED
      BY ONLY <3>1, Zenon
  <2>2. job' \in [Jobs -> {"none", "ignored", "queued", "settled"}]
    BY <1>3 DEF enqueue
  <2>3. enqueued' \in 0 .. MaxJobs
    BY <1>3, BoundsAssumption DEF enqueue
  <2> QED
    BY <1>3, <2>1, <2>2, <2>3 DEF enqueue
<1>4. CASE drainQueueWhenReady \/ RetryAfterDelay
  BY <1>4 DEF drainQueueWhenReady, RetryAfterDelay
<1>5. CASE drainQueue
  BY <1>5 DEF drainQueue
<1>6. ASSUME NEW g \in Groups, UpdatedElsewhere(g)
      PROVE  TypeOK'
  BY <1>6 DEF UpdatedElsewhere
<1>7. ASSUME NEW c \in Chains, drainQueueWorkStep(c)
      PROVE  TypeOK'
  <2>1. CASE RefuseToDrain(c)
    BY <2>1 DEF RefuseToDrain
  <2>2. CASE ReadBatch(c)
    BY <2>2, NextJobsType DEF ReadBatch, Queued
  <2>3. CASE DrainIsDone(c)
    BY <2>3 DEF DrainIsDone
  <2>4. CASE StartUpdate(c)
    BY <2>4 DEF StartUpdate
  <2> QED
    BY <1>7, <2>1, <2>2, <2>3, <2>4 DEF drainQueueWorkStep
<1>8. ASSUME NEW c \in Chains, Update(c)
      PROVE  TypeOK'
  <2>1. CASE tryToUpdateUsingEmbeddedGroupUpdate(c)
    BY <2>1, MessagesAssumption DEF tryToUpdateUsingEmbeddedGroupUpdate
  <2>2. CASE ServiceUpdates(c)
    <3>1. PICK j \in batch[c] :
            \E r \in MessageRevision[j] .. ServerRevision[GroupOf[j]] :
                revision' = [revision EXCEPT ![GroupOf[j]] = IF r > @ THEN r ELSE @]
      BY <2>2 DEF ServiceUpdates
    <3>0. PICK r \in MessageRevision[j] .. ServerRevision[GroupOf[j]] :
            revision' = [revision EXCEPT ![GroupOf[j]] = IF r > @ THEN r ELSE @]
      BY <3>1
    <3>2. r \in Nat
      BY <3>0, <3>1, MessagesAssumption
    <3> QED
      BY <2>2, <3>0, <3>2 DEF ServiceUpdates
  <2>3. CASE ServiceFails(c)
    BY <2>3 DEF ServiceFails
  <2> QED
    BY <1>8, <2>1, <2>2, <2>3 DEF Update
<1>9. ASSUME NEW c \in Chains, Complete(c)
      PROVE  TypeOK'
  <2>1. CASE ProcessBatch(c)
    BY <2>1, SettleType DEF ProcessBatch
  <2>2. CASE FinishUpdate(c)
    BY <2>2, SettleType DEF FinishUpdate
  <2>3. CASE DiscardJob(c) \/ KeepJob(c)
    BY <2>3 DEF DiscardJob, KeepJob
  <2>4. CASE BackOff(c)
    BY <2>4 DEF BackOff, StopDraining
  <2> QED
    BY <1>9, <2>1, <2>2, <2>3, <2>4 DEF Complete
<1> QED
  BY <1>1, <1>2, <1>3, <1>4, <1>5, <1>6, <1>7, <1>8, <1>9 DEF Next

LEMMA TypeInit == Init => TypeOK
<1> SUFFICES ASSUME Init PROVE TypeOK
  OBVIOUS
<1>1. revision \in [Groups -> Nat]
  BY DEF Init
<1>2. enqueued \in 0 .. MaxJobs
  BY BoundsAssumption DEF Init
<1> QED
  BY <1>1, <1>2 DEF Init, TypeOK, Steps

\* Every variable keeps its type.
THEOREM TypeCorrect == Spec => []TypeOK
BY TypeInit, TypeInduction, PTL DEF Spec

------------------------------------------------------------------------------
(***************************************************************************)
(* One drain                                                               *)
(***************************************************************************)

LEMMA OneDrainInduction ==
    ASSUME TypeOK, OneDrain, [Next]_vars
    PROVE  OneDrain'
<1> USE DEF TypeOK, OneDrain, store, triggers, queue, flags
<1>1. CASE UNCHANGED vars
  BY <1>1 DEF vars
<1>2. CASE Relaunch
  BY <1>2 DEF Relaunch
<1>3. CASE enqueue \/ drainQueueWhenReady \/ RetryAfterDelay
  BY <1>3 DEF enqueue, drainQueueWhenReady, RetryAfterDelay
<1>4. CASE drainQueue
  <2>1. CASE MayDrain
    BY <1>4, <2>1 DEF drainQueue, MayDrain
  <2>2. CASE ~MayDrain
    BY <1>4, <2>2 DEF drainQueue
  <2> QED
    BY <2>1, <2>2
<1>5. ASSUME NEW g \in Groups, UpdatedElsewhere(g)
      PROVE  OneDrain'
  BY <1>5 DEF UpdatedElsewhere
<1>6. ASSUME NEW c \in Chains,
             \/ RefuseToDrain(c) \/ ReadBatch(c) \/ DrainIsDone(c) \/ StartUpdate(c)
             \/ Update(c) \/ Complete(c)
      PROVE  OneDrain'
  <2>1. /\ step[c] # "idle"
        /\ \E s : step' = [step EXCEPT ![c] = s]
        /\ isDrainingQueue' # isDrainingQueue => step'[c] = "idle"
    BY <1>6 DEF RefuseToDrain, ReadBatch, DrainIsDone, StartUpdate, Update,
       tryToUpdateUsingEmbeddedGroupUpdate, ServiceUpdates, ServiceFails, Complete,
       ProcessBatch, FinishUpdate, DiscardJob, KeepJob, BackOff
  <2> QED
    BY <2>1
<1> QED
  BY <1>1, <1>2, <1>3, <1>4, <1>5, <1>6 DEF Next, drainQueueWorkStep

\* Never do two chains of drainQueueWorkStep exist, through updates off the queue.
THEOREM DrainsAreExclusive == Spec => []OneDrain
<1>1. Init => OneDrain
  BY DEF Init, OneDrain
<1> QED
  BY <1>1, TypeCorrect, OneDrainInduction, PTL DEF Spec

------------------------------------------------------------------------------
(***************************************************************************)
(* Batches                                                                 *)
(***************************************************************************)

\* Jobs are numbered as they are enqueued.
Numbered == \A j \in Jobs : job[j] = "none" <=> j > enqueued

UpdateSteps == {"embedded", "service", "successShouldProcess", "failureShouldRetry",
                "failureShouldDiscard"}

\* A batch is a first part of the queue, none where no transaction or update is under
\* way, and the first job alone while its group is updated.
Batches ==
    \A c \in Chains :
        /\ step[c] \in {"idle", "workStep", "backingOff"} => batch[c] = {}
        /\ batch[c] \subseteq Queued
        /\ \A j \in batch[c], k \in Queued : k < j => k \in batch[c]
        /\ step[c] \in UpdateSteps => \E j \in Jobs : batch[c] = {j}

\* An update that succeeded has brought the group as far as its message needs.
UpdatesSufficed ==
    \A c \in Chains : step[c] = "successShouldProcess" =>
        \A j \in batch[c] : MessageRevision[j] <= revision[GroupOf[j]]

\* What was processed has left the queue, and its group is up to date.
ProcessedIsSettled ==
    \A j \in Jobs : processed[j] > 0 =>
        processed[j] = 1 /\ job[j] = "settled" /\ MessageRevision[j] <= revision[GroupOf[j]]

Bookkeeping ==
    OneDrain /\ Numbered /\ Batches /\ UpdatesSufficed /\ ProcessedIsSettled /\ SettledInOrder

\* The first n jobs of the queue are a first part of it.
LEMMA NextJobsFirst ==
    ASSUME TypeOK, NEW n \in Nat, NEW j \in nextJobs(n), NEW k \in Queued, k < j
    PROVE  k \in nextJobs(n)
<1> DEFINE UpTo(i) == {l \in Queued : l <= i}
<1>1. IsFiniteSet(Jobs)
  BY FS_Interval, BoundsAssumption DEF Jobs
<1>2. UpTo(j) \in SUBSET Jobs /\ UpTo(k) \in SUBSET UpTo(j)
  BY BoundsAssumption DEF Queued, nextJobs, Jobs
<1>3. IsFiniteSet(UpTo(j))
  BY <1>1, <1>2, FS_Subset
<1>4. /\ Cardinality(UpTo(k)) \in Nat /\ Cardinality(UpTo(j)) \in Nat
      /\ Cardinality(UpTo(k)) <= Cardinality(UpTo(j))
  BY <1>2, <1>3, FS_Subset, FS_CardinalityType
<1>5. Cardinality(UpTo(j)) <= n
  BY DEF nextJobs
<1>6. Cardinality(UpTo(k)) <= n
  BY <1>4, <1>5
<1> QED
  BY <1>6 DEF nextJobs

\* Settling a first part of the queue keeps the order, and every count at one.
LEMMA SettleKeepsOrder ==
    ASSUME TypeOK, Numbered, ProcessedIsSettled, SettledInOrder,
           NEW jobs \in SUBSET Queued, Settle(jobs),
           \A j \in jobs, k \in Queued : k < j => k \in jobs,
           \A j \in jobs \ Unwanted : MessageRevision[j] <= revision[GroupOf[j]],
           UNCHANGED <<enqueued, revision>>
    PROVE  Numbered' /\ ProcessedIsSettled' /\ SettledInOrder'
<1>1. /\ \A j \in Jobs : job'[j] = IF j \in jobs THEN "settled" ELSE job[j]
      /\ \A j \in Jobs : job[j] = "queued" <=> j \in Queued
      /\ jobs \subseteq Jobs
  BY DEF Settle, Queued
<1>2. Numbered'
  BY <1>1 DEF Numbered, Queued
<1>3. SettledInOrder'
  <2> SUFFICES ASSUME NEW j \in Jobs, NEW k \in Jobs, j < k, job'[k] = "settled"
               PROVE  job'[j] \in {"settled", "ignored"}
    BY DEF SettledInOrder
  <2>1. CASE job[k] = "settled"
    BY <1>1, <2>1 DEF SettledInOrder
  <2>2. CASE k \in jobs
    <3>1. job[j] # "none"
      <4>1. /\ ~(k > enqueued)
            /\ k \in Nat /\ j \in Nat /\ enqueued \in Nat
        BY <1>1, <2>2, BoundsAssumption DEF Numbered, TypeOK, Jobs
      <4> QED
        BY <4>1 DEF Numbered
    <3> QED
      BY <1>1, <2>2, <3>1 DEF TypeOK
  <2> QED
    BY <1>1, <2>1, <2>2
<1>4. ProcessedIsSettled'
  <2>1. PICK discarded \in SUBSET jobs :
          /\ jobs \cap Unwanted \subseteq discarded
          /\ processed' = [j \in Jobs |->
                processed[j] + (IF j \in jobs \ discarded THEN 1 ELSE 0)]
    BY DEF Settle
  <2> SUFFICES ASSUME NEW j \in Jobs, processed'[j] > 0
               PROVE  /\ processed'[j] = 1
                      /\ job'[j] = "settled"
                      /\ MessageRevision[j] <= revision[GroupOf[j]]
    BY DEF ProcessedIsSettled
  <2>2. processed[j] \in Nat /\ processed'[j] =
            processed[j] + (IF j \in jobs \ discarded THEN 1 ELSE 0)
    BY <2>1 DEF TypeOK
  <2>3. CASE j \in jobs \ discarded
    <3>1. job[j] = "queued" /\ ~(processed[j] > 0)
      BY <1>1, <2>3 DEF ProcessedIsSettled
    <3> QED
      BY <1>1, <2>1, <2>2, <2>3, <3>1
  <2>4. CASE ~(j \in jobs \ discarded)
    BY <1>1, <2>2, <2>4 DEF ProcessedIsSettled
  <2> QED
    BY <2>3, <2>4
<1> QED
  BY <1>2, <1>3, <1>4

\* The model of a group may advance at any time.
LEMMA AdvancingKeepsBookkeeping ==
    ASSUME TypeOK, NEW g \in Groups, NEW r \in Nat, r >= revision[g],
           revision' = [revision EXCEPT ![g] = r]
    PROVE  \A j \in Jobs : MessageRevision[j] <= revision[GroupOf[j]] =>
                            MessageRevision[j] <= revision'[GroupOf[j]]
<1> SUFFICES ASSUME NEW j \in Jobs, MessageRevision[j] <= revision[GroupOf[j]]
             PROVE  MessageRevision[j] <= revision'[GroupOf[j]]
  OBVIOUS
<1>1. MessageRevision[j] \in Nat /\ GroupOf[j] \in Groups /\ revision[GroupOf[j]] \in Nat
  BY MessagesAssumption DEF TypeOK
<1>2. revision'[GroupOf[j]] = IF GroupOf[j] = g THEN r ELSE revision[GroupOf[j]]
  BY <1>1 DEF TypeOK
<1> QED
  BY <1>1, <1>2

\* Steps that settle a batch or a part of it.
LEMMA SettlingKeepsBookkeeping ==
    ASSUME TypeOK, Bookkeeping, NEW c \in Chains, ProcessBatch(c) \/ FinishUpdate(c)
    PROVE  Numbered' /\ Batches' /\ UpdatesSufficed' /\ ProcessedIsSettled' /\ SettledInOrder'
<1> USE DEF Bookkeeping, triggers, flags
<1>1. PICK jobs \in SUBSET batch[c] :
        /\ Settle(jobs)
        /\ \A j \in jobs, k \in batch[c] : k < j => k \in jobs
        /\ \A j \in jobs \ Unwanted : MessageRevision[j] <= revision[GroupOf[j]]
  <2>1. CASE ProcessBatch(c)
    <3>1. PICK jobs \in Prefixes(NoUpdateBatch(batch[c])) : Settle(jobs)
      BY <2>1 DEF ProcessBatch
    <3>2. /\ NoUpdateBatch(batch[c]) \subseteq batch[c]
          /\ \A j \in NoUpdateBatch(batch[c]) : j \in Unwanted \/ HasRevision(j)
      BY BoundsAssumption DEF NoUpdateBatch, canJobBeProcessedWithoutUpdate, Batches, Queued, Jobs
    <3>3. \A j \in NoUpdateBatch(batch[c]), k \in batch[c] :
            k < j => k \in NoUpdateBatch(batch[c])
      BY BoundsAssumption DEF NoUpdateBatch, Batches, Queued, Jobs
    <3>4. jobs \subseteq NoUpdateBatch(batch[c])
      BY <3>1 DEF Prefixes
    <3>5. \A j \in jobs, k \in batch[c] : k < j => k \in jobs
      BY <3>1, <3>3, <3>4 DEF Prefixes
    <3> QED
      <4>1. jobs \in SUBSET batch[c]
        BY <3>2, <3>4
      <4>2. \A j \in jobs \ Unwanted : MessageRevision[j] <= revision[GroupOf[j]]
        BY <3>2, <3>4 DEF HasRevision
      <4> QED
        BY <3>1, <3>5, <4>1, <4>2
  <2>2. CASE FinishUpdate(c)
    BY <2>2 DEF FinishUpdate, UpdatesSufficed
  <2> QED
    BY <2>1, <2>2
<1>2. /\ step[c] # "idle"
      /\ step' = [step EXCEPT ![c] = "workStep"]
      /\ batch' = [batch EXCEPT ![c] = {}]
      /\ UNCHANGED <<enqueued, revision>>
  BY DEF ProcessBatch, FinishUpdate
<1>3. /\ jobs \in SUBSET Queued
      /\ \A j \in jobs, k \in Queued : k < j => k \in jobs
  BY <1>1 DEF Batches
<1>4. Numbered' /\ ProcessedIsSettled' /\ SettledInOrder'
  BY <1>1, <1>2, <1>3, SettleKeepsOrder
<1>5. \A d \in Chains : batch'[d] = {} /\ step'[d] \in {"idle", "workStep"}
  BY <1>2 DEF OneDrain, Batches, TypeOK
<1>6. Batches' /\ UpdatesSufficed'
  BY <1>5 DEF Batches, UpdatesSufficed, UpdateSteps
<1> QED
  BY <1>4, <1>6

\* Steps that leave the jobs and the groups as they are.
LEMMA OtherStepsKeepBookkeeping ==
    ASSUME TypeOK, Bookkeeping, NEW c \in Chains,
           \/ RefuseToDrain(c) \/ ReadBatch(c) \/ DrainIsDone(c) \/ StartUpdate(c)
           \/ ServiceFails(c) \/ KeepJob(c) \/ BackOff(c)
    PROVE  Numbered' /\ Batches' /\ UpdatesSufficed' /\ ProcessedIsSettled' /\ SettledInOrder'
<1> USE DEF Bookkeeping, store, triggers, flags
<1>1. UNCHANGED <<enqueued, job, revision, processed>>
  BY DEF RefuseToDrain, ReadBatch, DrainIsDone, StartUpdate, ServiceFails, KeepJob, BackOff
<1>2. Numbered' /\ ProcessedIsSettled' /\ SettledInOrder'
  BY <1>1 DEF Numbered, ProcessedIsSettled, SettledInOrder
<1>3. Queued' = Queued
  BY <1>1 DEF Queued
<1>4. /\ \E s \in Steps \ {"successShouldProcess"} : step' = [step EXCEPT ![c] = s]
      /\ \E b : batch' = [batch EXCEPT ![c] = b]
  <2>1. CASE UNCHANGED batch
    <3>1. batch' = [batch EXCEPT ![c] = batch[c]]
      BY <2>1 DEF TypeOK
    <3> QED
      BY <2>1, <3>1 DEF RefuseToDrain, ReadBatch, DrainIsDone, StartUpdate, ServiceFails,
         KeepJob, BackOff, Steps
  <2>2. CASE ~UNCHANGED batch
    BY <2>2 DEF RefuseToDrain, ReadBatch, DrainIsDone, StartUpdate, ServiceFails,
       KeepJob, BackOff, Steps
  <2> QED
    BY <2>1, <2>2
<1>5. UpdatesSufficed'
  BY <1>1, <1>4 DEF UpdatesSufficed, TypeOK
<1>6. Batches'
  <2>1. \A d \in Chains : d # c => step'[d] = step[d] /\ batch'[d] = batch[d]
    BY <1>4 DEF TypeOK
  <2>2. CASE ReadBatch(c)
    <3>1. PICK n \in {1, BatchSize} : batch' = [batch EXCEPT ![c] = nextJobs(n)]
      BY <2>2 DEF ReadBatch
    <3>2. /\ step'[c] = "read" /\ batch'[c] = nextJobs(n)
          /\ n \in Nat
      BY <2>2, <3>1, BoundsAssumption DEF ReadBatch, TypeOK
    <3>3. \A j \in batch'[c], k \in Queued : k < j => k \in batch'[c]
      BY <3>2, NextJobsFirst
    <3> QED
      BY <1>3, <2>1, <3>2, <3>3, NextJobsType DEF Batches, UpdateSteps
  <2>3. CASE StartUpdate(c)
    <3>1. PICK j \in batch[c] :
            (\A k \in batch[c] : j <= k) /\ batch' = [batch EXCEPT ![c] = {j}]
      BY <2>3 DEF StartUpdate
    <3>2. batch'[c] = {j} /\ step'[c] = "embedded" /\ j \in Jobs
      BY <2>3, <3>1 DEF StartUpdate, TypeOK
    <3>3. \A k \in Queued : ~(k < j)
      BY <3>1, <3>2, BoundsAssumption DEF Batches, Queued, Jobs
    <3> QED
      BY <1>3, <2>1, <3>1, <3>2, <3>3 DEF Batches
  <2>4. CASE ServiceFails(c)
    BY <1>3, <2>4 DEF ServiceFails, Batches, UpdateSteps, TypeOK
  <2>5. CASE RefuseToDrain(c) \/ DrainIsDone(c) \/ KeepJob(c) \/ BackOff(c)
    <3>1. batch'[c] = {} /\ step'[c] \in {"idle", "backingOff"}
      BY <2>5 DEF RefuseToDrain, DrainIsDone, KeepJob, BackOff, Batches, TypeOK
    <3> QED
      BY <1>3, <2>1, <3>1 DEF Batches, UpdateSteps
  <2> QED
    BY <2>2, <2>3, <2>4, <2>5
<1> QED
  BY <1>2, <1>5, <1>6

\* Updates that succeed.
LEMMA UpdatingKeepsBookkeeping ==
    ASSUME TypeOK, Bookkeeping, NEW c \in Chains,
           tryToUpdateUsingEmbeddedGroupUpdate(c) \/ ServiceUpdates(c)
    PROVE  Numbered' /\ Batches' /\ UpdatesSufficed' /\ ProcessedIsSettled' /\ SettledInOrder'
<1> USE DEF Bookkeeping, triggers, flags
<1>1. UNCHANGED <<enqueued, job, processed, batch>>
  BY DEF tryToUpdateUsingEmbeddedGroupUpdate, ServiceUpdates
<1>2. step[c] \in UpdateSteps /\ \E s \in UpdateSteps : step' = [step EXCEPT ![c] = s]
  BY DEF tryToUpdateUsingEmbeddedGroupUpdate, ServiceUpdates, UpdateSteps
<1>3. PICK j \in Jobs : batch[c] = {j}
  BY <1>2 DEF Batches
<1>4. /\ MessageRevision[j] \in Nat /\ GroupOf[j] \in Groups
      /\ MessageRevision[j] <= ServerRevision[GroupOf[j]]
      /\ ServerRevision[GroupOf[j]] \in Nat
      /\ revision[GroupOf[j]] \in Nat
  BY MessagesAssumption DEF TypeOK
<1>5. /\ \E r \in Nat : r >= revision[GroupOf[j]] /\ revision' = [revision EXCEPT ![GroupOf[j]] = r]
      /\ step'[c] = "successShouldProcess" => MessageRevision[j] <= revision'[GroupOf[j]]
  <2>1. revision = [revision EXCEPT ![GroupOf[j]] = revision[GroupOf[j]]]
    BY <1>4 DEF TypeOK
  <2>2. CASE ServiceUpdates(c)
    <3>1. PICK r \in MessageRevision[j] .. ServerRevision[GroupOf[j]] :
            revision' = [revision EXCEPT ![GroupOf[j]] = IF r > @ THEN r ELSE @]
      BY <1>3, <2>2 DEF ServiceUpdates
    <3>2. revision'[GroupOf[j]] = IF r > revision[GroupOf[j]] THEN r ELSE revision[GroupOf[j]]
      BY <1>4, <3>1 DEF TypeOK
    <3>3. revision' = [revision EXCEPT ![GroupOf[j]] = revision'[GroupOf[j]]]
      BY <3>1, <3>2
    <3>4. /\ revision'[GroupOf[j]] \in Nat
          /\ revision'[GroupOf[j]] >= revision[GroupOf[j]]
          /\ MessageRevision[j] <= revision'[GroupOf[j]]
      BY <1>4, <3>1, <3>2
    <3> QED
      BY <3>3, <3>4
  <2>3. CASE tryToUpdateUsingEmbeddedGroupUpdate(c)
    <3>1. CASE UNCHANGED revision
      <4>1. step'[c] = "successShouldProcess" => HasRevision(j) \/ EmbeddedChangeApplies(j)
        BY <1>3, <2>3 DEF tryToUpdateUsingEmbeddedGroupUpdate, TypeOK
      <4>2. step'[c] = "successShouldProcess" =>
                MessageRevision[j] <= revision[GroupOf[j]] \/ revision'[GroupOf[j]] = MessageRevision[j]
        BY <1>3, <1>4, <2>3 DEF tryToUpdateUsingEmbeddedGroupUpdate, TypeOK, HasRevision
      <4> QED
        BY <1>4, <2>1, <3>1, <4>2
    <3>2. CASE ~UNCHANGED revision
      <4>1. /\ EmbeddedChangeApplies(j)
            /\ revision' = [revision EXCEPT ![GroupOf[j]] = MessageRevision[j]]
        BY <1>3, <2>3, <3>2 DEF tryToUpdateUsingEmbeddedGroupUpdate
      <4>2. revision'[GroupOf[j]] = MessageRevision[j]
        BY <1>4, <4>1 DEF TypeOK
      <4>3. MessageRevision[j] >= revision[GroupOf[j]]
        BY <1>4, <4>1 DEF EmbeddedChangeApplies
      <4>4. MessageRevision[j] <= revision'[GroupOf[j]]
        BY <1>4, <4>2
      <4> QED
        BY <1>4, <4>1, <4>3, <4>4
    <3> QED
      BY <3>1, <3>2
  <2> QED
    BY <2>2, <2>3
<1>6. \A k \in Jobs : MessageRevision[k] <= revision[GroupOf[k]] =>
                      MessageRevision[k] <= revision'[GroupOf[k]]
  BY <1>4, <1>5, AdvancingKeepsBookkeeping
<1>7. Numbered' /\ ProcessedIsSettled' /\ SettledInOrder'
  BY <1>1, <1>6 DEF Numbered, ProcessedIsSettled, SettledInOrder
<1>8. Queued' = Queued
  BY <1>1 DEF Queued
<1>9. Batches'
  BY <1>1, <1>2, <1>8 DEF Batches, UpdateSteps, TypeOK
<1>10. UpdatesSufficed'
  <2> SUFFICES ASSUME NEW d \in Chains, step'[d] = "successShouldProcess", NEW k \in batch[d]
               PROVE  MessageRevision[k] <= revision'[GroupOf[k]]
    BY <1>1 DEF UpdatesSufficed
  <2>1. k \in Jobs
    BY DEF TypeOK
  <2>2. CASE d = c
    BY <1>3, <1>5, <2>2
  <2>3. CASE d # c
    <3>1. step[d] = "successShouldProcess"
      BY <1>2, <2>3 DEF TypeOK
    <3> QED
      BY <1>6, <2>1, <3>1 DEF UpdatesSufficed
  <2> QED
    BY <2>2, <2>3
<1> QED
  BY <1>7, <1>9, <1>10

LEMMA BookkeepingInduction ==
    ASSUME TypeOK, Bookkeeping, [Next]_vars
    PROVE  Bookkeeping'
<1> SUFFICES Numbered' /\ Batches' /\ UpdatesSufficed' /\ ProcessedIsSettled' /\ SettledInOrder'
  BY OneDrainInduction DEF Bookkeeping
<1> USE DEF Bookkeeping
<1>1. CASE \/ UNCHANGED vars \/ drainQueueWhenReady \/ RetryAfterDelay
           \/ drainQueue \/ Relaunch
  <2>0. Relaunch => /\ UNCHANGED <<store, processed>>
                    /\ step' = [c \in Chains |-> "idle"]
                    /\ batch' = [c \in Chains |-> {}]
    BY Zenon DEF Relaunch
  <2>1. UNCHANGED <<enqueued, job, revision, processed>>
    BY <1>1, <2>0 DEF vars, store, drainQueueWhenReady, RetryAfterDelay, drainQueue
  <2>2. \A c \in Chains :
            \/ step'[c] = step[c] /\ batch'[c] = batch[c]
            \/ step'[c] \in {"idle", "workStep"} /\ batch'[c] = {}
    BY <1>1, <2>0 DEF vars, queue, drainQueueWhenReady, RetryAfterDelay, drainQueue,
       Batches, TypeOK
  <2>3. Queued' = Queued
    BY <2>1 DEF Queued
  <2>4. Batches'
    BY <2>2, <2>3 DEF Batches, UpdateSteps
  <2>5. UpdatesSufficed'
    BY <2>1, <2>2 DEF UpdatesSufficed
  <2> QED
    BY <2>1, <2>4, <2>5 DEF Numbered, ProcessedIsSettled, SettledInOrder
<1>2. CASE enqueue
  <2>1. /\ enqueued' = enqueued + 1 /\ enqueued + 1 \in Jobs
        /\ enqueued' \in Nat /\ enqueued \in Nat
        /\ UNCHANGED <<revision, step, batch, processed>>
    BY <1>2, BoundsAssumption DEF enqueue, TypeOK, Jobs
  <2>2. /\ job[enqueued + 1] = "none"
        /\ job'[enqueued + 1] \in {"queued", "ignored"}
        /\ \A j \in Jobs : j # enqueued + 1 => job'[j] = job[j]
    BY <1>2, <2>1 DEF enqueue, Numbered, TypeOK
  <2>3. \A j \in Jobs : j \in Nat
    BY BoundsAssumption DEF Jobs
  <2>4. Numbered'
    BY <2>1, <2>2, <2>3 DEF Numbered
  <2>5. ProcessedIsSettled' /\ UpdatesSufficed'
    BY <2>1, <2>2 DEF ProcessedIsSettled, UpdatesSufficed
  <2>6. Queued \subseteq Queued' /\ \A k \in Queued' : k \in Queued \/ k = enqueued + 1
    BY <2>2 DEF Queued
  <2>7. \A j \in Queued : j < enqueued + 1
    BY <2>1, <2>3 DEF Queued, Numbered
  <2>8. Batches'
    <3> SUFFICES ASSUME NEW c \in Chains, NEW j \in batch[c], NEW k \in Queued', k < j
                 PROVE  k \in batch[c]
      BY <2>1, <2>6 DEF Batches
    <3>1. j \in Queued /\ j \in Nat /\ k \in Nat
      BY <2>3 DEF Batches, Queued
    <3>2. k # enqueued + 1
      BY <2>1, <2>7, <3>1
    <3> QED
      BY <2>6, <3>1, <3>2 DEF Batches
  <2>9. SettledInOrder'
    <3> SUFFICES ASSUME NEW j \in Jobs, NEW k \in Jobs, j < k, job'[k] = "settled"
                 PROVE  job'[j] \in {"settled", "ignored"}
      BY DEF SettledInOrder
    <3>1. job[k] = "settled" /\ job[j] \in {"settled", "ignored"}
      BY <2>2 DEF SettledInOrder
    <3> QED
      BY <2>2, <3>1
  <2> QED
    BY <2>4, <2>5, <2>8, <2>9
<1>3. ASSUME NEW g \in Groups, UpdatedElsewhere(g)
      PROVE  Numbered' /\ Batches' /\ UpdatesSufficed' /\ ProcessedIsSettled' /\ SettledInOrder'
  <2>1. /\ UNCHANGED <<enqueued, job, step, batch, processed>>
        /\ revision' = [revision EXCEPT ![g] = @ + 1]
    BY <1>3 DEF UpdatedElsewhere, queue
  <2>2. revision[g] \in Nat
    BY DEF TypeOK
  <2>3. \A j \in Jobs : MessageRevision[j] <= revision[GroupOf[j]] =>
                        MessageRevision[j] <= revision'[GroupOf[j]]
    <3>1. /\ revision[g] + 1 \in Nat /\ revision[g] + 1 >= revision[g]
          /\ revision' = [revision EXCEPT ![g] = revision[g] + 1]
      BY <2>1, <2>2
    <3> QED
      BY <3>1, AdvancingKeepsBookkeeping
  <2>4. Queued' = Queued /\ \A c \in Chains : batch[c] \subseteq Jobs
    BY <2>1 DEF Queued, TypeOK
  <2> QED
    BY <2>1, <2>3, <2>4
       DEF Numbered, Batches, UpdatesSufficed, ProcessedIsSettled, SettledInOrder
<1>4. ASSUME NEW c \in Chains, DiscardJob(c)
      PROVE  Numbered' /\ Batches' /\ UpdatesSufficed' /\ ProcessedIsSettled' /\ SettledInOrder'
  <2>1. /\ \A j \in Jobs : job'[j] = IF j \in batch[c] THEN "settled" ELSE job[j]
        /\ batch' = [batch EXCEPT ![c] = {}] /\ step' = [step EXCEPT ![c] = "workStep"]
        /\ UNCHANGED <<enqueued, revision, processed>>
    BY <1>4 DEF DiscardJob
  <2>2. \A j \in batch[c] : job[j] = "queued" /\ j \in Jobs
    BY DEF Batches, Queued
  <2>3. \A d \in Chains : batch'[d] = {} /\ step'[d] \in {"idle", "workStep"}
    BY <1>4, <2>1 DEF DiscardJob, OneDrain, Batches, TypeOK
  <2>4. Batches' /\ UpdatesSufficed'
    BY <2>3 DEF Batches, UpdatesSufficed, UpdateSteps
  <2>5. Numbered' /\ ProcessedIsSettled'
    BY <2>1, <2>2 DEF Numbered, ProcessedIsSettled
  <2>6. SettledInOrder'
    <3> SUFFICES ASSUME NEW j \in Jobs, NEW k \in Jobs, j < k, job'[k] = "settled"
                 PROVE  job'[j] \in {"settled", "ignored"}
      BY DEF SettledInOrder
    <3>1. CASE job[k] = "settled"
      BY <2>1, <3>1 DEF SettledInOrder
    <3>2. CASE k \in batch[c]
      <4>1. ~(k > enqueued) /\ k \in Nat /\ j \in Nat /\ enqueued \in Nat
        BY <2>2, <3>2, BoundsAssumption DEF Numbered, TypeOK, Jobs
      <4>2. job[j] # "none"
        BY <4>1 DEF Numbered
      <4>3. job[j] = "queued" => j \in batch[c]
        BY <3>2 DEF Batches, Queued
      <4> QED
        BY <2>1, <4>2, <4>3 DEF TypeOK
    <3> QED
      BY <2>1, <3>1, <3>2
  <2> QED
    BY <2>4, <2>5, <2>6
<1> QED
  BY <1>1, <1>2, <1>3, <1>4, SettlingKeepsBookkeeping, OtherStepsKeepBookkeeping,
     UpdatingKeepsBookkeeping
     DEF Next, drainQueueWorkStep, Update, Complete

LEMMA BookkeepingInit == Init => Bookkeeping
<1> SUFFICES ASSUME Init PROVE Bookkeeping
  OBVIOUS
<1>1. \A j \in Jobs : j > enqueued /\ job[j] = "none" /\ processed[j] = 0
  BY BoundsAssumption DEF Init, Jobs
<1>2. \A c \in Chains : step[c] = "idle" /\ batch[c] = {}
  BY DEF Init
<1> QED
  BY <1>1, <1>2 DEF Bookkeeping, OneDrain, Numbered, Batches, UpdatesSufficed,
     ProcessedIsSettled, SettledInOrder, UpdateSteps

\* The inductive invariant: the order of the numbers, the shape of batches, and what an
\* update that succeeded is worth.
THEOREM BookkeepingInvariant == Spec => []Bookkeeping
BY BookkeepingInit, BookkeepingInduction, TypeCorrect, PTL DEF Spec

\* A message is handed to MessageManager at most once.
THEOREM MessagesAreProcessedOnce == Spec => []ProcessedAtMostOnce
<1>1. TypeOK /\ Bookkeeping => ProcessedAtMostOnce
  BY DEF TypeOK, Bookkeeping, ProcessedIsSettled, ProcessedAtMostOnce
<1> QED
  BY <1>1, TypeCorrect, BookkeepingInvariant, PTL

\* It is handed over only when the local model of its group has reached its revision.
THEOREM GroupsAreUpToDate == Spec => []GroupIsUpToDate
<1>1. Bookkeeping => GroupIsUpToDate
  BY DEF Bookkeeping, ProcessedIsSettled, GroupIsUpToDate
<1> QED
  BY <1>1, BookkeepingInvariant, PTL

\* Messages leave the queue in the order they came.
THEOREM MessagesAreSettledInOrder == Spec => []SettledInOrder
<1>1. Bookkeeping => SettledInOrder
  BY DEF Bookkeeping
<1> QED
  BY <1>1, BookkeepingInvariant, PTL

------------------------------------------------------------------------------
(***************************************************************************)
(* No message waits for nothing                                            *)
(***************************************************************************)

\* Reading the first n jobs of a queue that has any gives at least one.
LEMMA NextJobsFindAny ==
    ASSUME NEW n \in Nat \ {0}, Queued # {}
    PROVE  nextJobs(n) # {}
<1>1. Queued \subseteq Nat
  BY BoundsAssumption DEF Queued, Jobs
<1>2. PICK j \in Queued : \A k \in Queued : ~(<<k, j>> \in OpToRel(<, Nat))
  BY <1>1, WFMin, NatLessThanWellFounded
<1>3. \A k \in Queued : ~(k < j)
  <2> SUFFICES ASSUME NEW k \in Queued, k < j PROVE FALSE
    OBVIOUS
  <2> DEFINE p == <<k, j>>
  <2>1. p \in Nat \X Nat /\ p[1] = k /\ p[2] = j
    BY <1>1
  <2>2. p \notin OpToRel(<, Nat)
    BY <1>2
  <2> QED
    BY <2>1, <2>2 DEF OpToRel
<1>4. {k \in Queued : k <= j} = {j}
  <2>1. \A k \in Queued : k <= j <=> k = j
    BY <1>1, <1>3
  <2> QED
    BY <2>1, Zenon
<1>5. Cardinality({k \in Queued : k <= j}) = 1
  BY <1>4, FS_Singleton
<1>6. Cardinality({k \in Queued : k <= j}) <= n
  BY <1>5
<1> QED
  BY <1>6 DEF nextJobs

\* Drains are under way where the flag says so, unless this launch refuses to drain; and a
\* chain that is about to end has seen every message, or a call of drainQueue is pending.
Triggered ==
    /\ NothingIsStranded
    /\ NoLostDrain
    /\ isDrainingQueue /\ goodCitizen => \E c \in Chains : Active(c)
    /\ \A c \in Chains : step[c] = "read" /\ batch[c] = {} /\ Queued # {} => drainCalls

LEMMA TriggeredInduction ==
    ASSUME TypeOK, Bookkeeping, Triggered, [Next]_vars
    PROVE  Triggered'
<1> USE DEF Triggered, NothingIsStranded, NoLostDrain, Active
<1>1. CASE UNCHANGED vars
  BY <1>1 DEF vars, store, triggers, queue, flags, Queued
<1>2. CASE Relaunch
  <2>1. /\ UNCHANGED store /\ drainCalls' = TRUE /\ isDrainingQueue' = FALSE
        /\ step' = [c \in Chains |-> "idle"]
        /\ goodCitizen' \in {goodCitizen, TRUE}
    BY <1>2, Zenon DEF Relaunch
  <2>2. Queued' = Queued
    BY <2>1 DEF store, Queued
  <2>3. goodCitizen => goodCitizen'
    BY ONLY <2>1, Zenon
  <2> QED
    BY <2>1, <2>2, <2>3, Zenon
<1>3. CASE enqueue
  <2>1. /\ UNCHANGED <<isDrainingQueue, retryTimer, step, batch, goodCitizen>>
        /\ drainCalls' = (drainCalls \/ goodCitizen)
    BY <1>3 DEF enqueue, ShouldKeep, flags
  <2>2. ~goodCitizen => Queued' \subseteq Queued
    BY <1>3 DEF enqueue, ShouldKeep, Queued, TypeOK
  <2> QED
    BY <2>1, <2>2
<1>4. CASE drainQueueWhenReady \/ RetryAfterDelay
  <2>1. /\ drainCalls' = TRUE
        /\ UNCHANGED <<job, isDrainingQueue, step, batch, goodCitizen>>
    BY <1>4 DEF drainQueueWhenReady, RetryAfterDelay, store, flags
  <2> QED
    BY <2>1 DEF Queued
<1>5. CASE drainQueue
  <2>1. /\ UNCHANGED <<job, retryTimer, batch, goodCitizen>>
        /\ \A c \in Chains : step[c] # "read"
    BY <1>5 DEF drainQueue, store, flags, SerialQueueIsFree
  <2>2. Queued' = Queued
    BY <2>1 DEF Queued
  <2>3. CASE MayDrain
    <3>1. PICK c \in Chains : step' = [step EXCEPT ![c] = "workStep"]
      BY <1>5, <2>3 DEF drainQueue
    <3>2. step'[c] = "workStep" /\ \A d \in Chains : step'[d] # "read"
      BY <2>1, <3>1 DEF TypeOK
    <3> QED
      BY <2>1, <2>2, <3>2
  <2>4. CASE ~MayDrain
    <3>1. UNCHANGED <<isDrainingQueue, step>> /\ isDrainingQueue
      BY <1>5, <2>4 DEF drainQueue, MayDrain
    <3> QED
      BY <2>1, <2>2, <3>1
  <2> QED
    BY <2>3, <2>4
<1>6. ASSUME NEW g \in Groups, UpdatedElsewhere(g)
      PROVE  Triggered'
  BY <1>6 DEF UpdatedElsewhere, queue, triggers, flags, Queued
<1>7. ASSUME NEW c \in Chains, RefuseToDrain(c)
      PROVE  Triggered'
  <2>1. /\ UNCHANGED <<job, batch, goodCitizen>> /\ ~goodCitizen
        /\ step' = [step EXCEPT ![c] = "idle"]
    BY <1>7 DEF RefuseToDrain, store, flags
  <2>2. Queued' = Queued /\ Queued = {}
    BY <2>1 DEF Queued
  <2> QED
    BY <2>1, <2>2
<1>8. ASSUME NEW c \in Chains, ReadBatch(c)
      PROVE  Triggered'
  <2>0. PICK n \in {1, BatchSize} : batch' = [batch EXCEPT ![c] = nextJobs(n)]
    BY <1>8 DEF ReadBatch
  <2>1. /\ UNCHANGED <<job, isDrainingQueue, drainCalls, retryTimer, goodCitizen>>
        /\ step' = [step EXCEPT ![c] = "read"]
        /\ n \in Nat \ {0}
    BY <1>8, <2>0, BoundsAssumption DEF ReadBatch, store, triggers, flags
  <2>2. Queued' = Queued
    BY <2>1 DEF Queued
  <2>3. step'[c] = "read" /\ (Queued # {} => batch'[c] # {})
    BY <2>0, <2>1, NextJobsFindAny DEF TypeOK
  <2>4. \A d \in Chains : d # c => step'[d] = step[d] /\ batch'[d] = batch[d]
    BY <2>0, <2>1 DEF TypeOK
  <2> QED
    BY <2>1, <2>2, <2>3, <2>4
<1>9. ASSUME NEW c \in Chains, DrainIsDone(c)
      PROVE  Triggered'
  <2>1. /\ UNCHANGED <<job, drainCalls, retryTimer, batch, goodCitizen>>
        /\ isDrainingQueue' = FALSE /\ step' = [step EXCEPT ![c] = "idle"]
        /\ Queued # {} => drainCalls
    BY <1>9 DEF DrainIsDone, store, triggers, flags
  <2>2. Queued' = Queued
    BY <2>1 DEF Queued
  <2> QED
    BY <2>1, <2>2
<1>10. ASSUME NEW c \in Chains, BackOff(c)
       PROVE  Triggered'
  <2>1. /\ UNCHANGED <<job, drainCalls, batch, goodCitizen>> /\ retryTimer' = TRUE
        /\ isDrainingQueue' = FALSE /\ step' = [step EXCEPT ![c] = "idle"]
        /\ \A d \in Chains : step[d] # "read"
    BY <1>10 DEF BackOff, StopDraining, SerialQueueIsFree, store, flags
  <2>2. Queued' = Queued
    BY <2>1 DEF Queued
  <2> QED
    BY <2>1, <2>2 DEF TypeOK
<1>11. ASSUME NEW c \in Chains,
              \/ StartUpdate(c) \/ Update(c)
              \/ ProcessBatch(c) \/ FinishUpdate(c) \/ DiscardJob(c) \/ KeepJob(c)
       PROVE  Triggered'
  <2>1. /\ UNCHANGED <<isDrainingQueue, drainCalls, retryTimer, goodCitizen>>
        /\ \E s \in Steps \ {"idle", "read"} : step' = [step EXCEPT ![c] = s]
        /\ step[c] # "idle"
        /\ \A d \in Chains : d # c => batch'[d] = batch[d]
    BY <1>11 DEF StartUpdate, Update, tryToUpdateUsingEmbeddedGroupUpdate, ServiceUpdates,
       ServiceFails, ProcessBatch, FinishUpdate, DiscardJob, KeepJob, triggers, flags, Steps, TypeOK
  <2>2. Queued' \subseteq Queued
    BY <1>11 DEF StartUpdate, Update, tryToUpdateUsingEmbeddedGroupUpdate, ServiceUpdates,
       ServiceFails, ProcessBatch, FinishUpdate, DiscardJob, KeepJob, Settle, store, Queued, TypeOK
  <2>3. step'[c] # "idle" /\ \A d \in Chains : step'[d] # "read"
    BY <2>1 DEF Bookkeeping, OneDrain, TypeOK
  <2> QED
    BY <2>1, <2>2, <2>3
<1> QED
  BY <1>1, <1>2, <1>3, <1>4, <1>5, <1>6, <1>7, <1>8, <1>9, <1>10, <1>11
     DEF Next, drainQueueWorkStep, Complete

LEMMA TriggeredInvariant == Spec => []Triggered
<1>1. Init => Triggered
  BY DEF Init, Triggered, NothingIsStranded, NoLostDrain, Queued
<1> QED
  BY <1>1, TypeCorrect, BookkeepingInvariant, TriggeredInduction, PTL DEF Spec

\* Where the queue refuses to drain, it is empty.
THEOREM NoMessageIsStranded == Spec => []NothingIsStranded
<1>1. Triggered => NothingIsStranded
  BY DEF Triggered
<1> QED
  BY <1>1, TriggeredInvariant, PTL

\* A message never waits without a drain, a call of drainQueue or a timer for one.
THEOREM NoDrainIsLost == Spec => []NoLostDrain
<1>1. Triggered => NoLostDrain
  BY DEF Triggered
<1> QED
  BY <1>1, TriggeredInvariant, PTL
==============================================================================
