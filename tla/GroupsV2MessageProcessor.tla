----------------------- MODULE GroupsV2MessageProcessor -----------------------
(***************************************************************************)
(* The queue of incoming groups v2 messages (GroupsV2MessageProcessor      *)
(* .swift).  A message names the revision of its group; it is processed    *)
(* when the local model of the group has reached that revision, and until  *)
(* then the queue updates the model from the change in the message or from *)
(* the service, off its serial queue.                                      *)
(*                                                                         *)
(* Jobs are numbered in the order the content queue enqueues them.  A call *)
(* of drainQueue that finds isDrainingQueue unset starts a chain of        *)
(* drainQueueWorkStep; that there is one chain at a time is a property.    *)
(***************************************************************************)
EXTENDS Naturals, FiniteSets

CONSTANTS
    MaxJobs,            \* bound: how many messages are ever enqueued
    Groups,
    GroupOf,            \* the group of a message
    MessageRevision,    \* the revision in its group context
    Unwanted,           \* messages canJobBeDiscarded always discards: blocked, malformed
    ServerRevision,     \* bound: the last revision of every group
    BatchSize,          \* kIncomingMessageBatchSize
    MaxLaunches         \* bound: how often the process is launched

Jobs == 1 .. MaxJobs

Chains == {1, 2}        \* bound: a third chain is never tried

ASSUME BoundsAssumption ==
    /\ MaxJobs \in Nat
    /\ MaxLaunches \in Nat
    /\ BatchSize \in Nat \ {0}

\* Members name revisions the service knows.
ASSUME MessagesAssumption ==
    /\ GroupOf \in [Jobs -> Groups]
    /\ MessageRevision \in [Jobs -> Nat \ {0}]
    /\ ServerRevision \in [Groups -> Nat]
    /\ \A j \in Jobs : MessageRevision[j] <= ServerRevision[GroupOf[j]]
    /\ Unwanted \subseteq Jobs

VARIABLES
    \* the database
    enqueued,           \* how many messages the content queue has handed over
    job,                \* what became of each of them
    revision,           \* of the local v2 model of each group, from 1 on, 0 if there is none
    \* the queue object
    isDrainingQueue,
    drainCalls,         \* whether a block of drainQueue is pending
    retryTimer,         \* whether a delayed call of drainQueue is pending
    step,               \* where a chain of drainQueueWorkStep is
    batch,              \* the jobs it works on
    \* FeatureFlags.groupsV2processProtosInGroupUpdates, fixed when the app is built
    groupsV2processProtosInGroupUpdates,
    \* RemoteConfig.groupsV2GoodCitizen, fixed when the process is launched
    goodCitizen,
    \* history
    processed,          \* how often a message was handed to MessageManager
    launches

store    == <<enqueued, job, revision>>
triggers == <<drainCalls, retryTimer>>
queue    == <<isDrainingQueue, triggers, step, batch>>
flags    == <<groupsV2processProtosInGroupUpdates, goodCitizen>>
vars     == <<store, queue, flags, processed, launches>>

Steps == {"idle", "workStep", "read", "embedded", "service", "successShouldProcess",
          "failureShouldRetry", "failureShouldDiscard", "backingOff"}

TypeOK ==
    /\ enqueued \in 0 .. MaxJobs
    /\ job \in [Jobs -> {"none", "ignored", "queued", "settled"}]
    /\ revision \in [Groups -> Nat]
    /\ isDrainingQueue \in BOOLEAN
    /\ drainCalls \in BOOLEAN
    /\ retryTimer \in BOOLEAN
    /\ step \in [Chains -> Steps]
    /\ batch \in [Chains -> SUBSET Jobs]
    /\ groupsV2processProtosInGroupUpdates \in BOOLEAN
    /\ goodCitizen \in BOOLEAN
    /\ processed \in [Jobs -> Nat]
    /\ launches \in Nat

Init ==
    /\ enqueued = 0
    /\ job = [j \in Jobs |-> "none"]
    /\ revision \in {r \in [Groups -> 0 .. 1] : \A g \in Groups : r[g] <= ServerRevision[g]}
    /\ isDrainingQueue = FALSE
    /\ drainCalls = TRUE
    /\ retryTimer = FALSE
    /\ step = [c \in Chains |-> "idle"]
    /\ batch = [c \in Chains |-> {}]
    /\ groupsV2processProtosInGroupUpdates \in BOOLEAN
    /\ goodCitizen \in BOOLEAN
    /\ processed = [j \in Jobs |-> 0]
    /\ launches = 1

\* The process is killed and launched again.  groupsV2GoodCitizen is a sticky flag:
\* once set it remains set.
Relaunch ==
    /\ launches < MaxLaunches
    /\ launches' = launches + 1
    /\ isDrainingQueue' = FALSE
    /\ drainCalls' = TRUE
    /\ retryTimer' = FALSE
    /\ step' = [c \in Chains |-> "idle"]
    /\ batch' = [c \in Chains |-> {}]
    /\ goodCitizen' \in {goodCitizen, TRUE}
    /\ UNCHANGED <<store, groupsV2processProtosInGroupUpdates, processed>>

------------------------------------------------------------------------------
\* Enqueuing and draining

ShouldKeep == goodCitizen

\* enqueue, in the transaction of the content queue, and drainQueueWhenReady after it.
enqueue ==
    /\ enqueued < MaxJobs
    /\ enqueued' = enqueued + 1
    /\ job' = [job EXCEPT ![enqueued + 1] = IF ShouldKeep THEN "queued" ELSE "ignored"]
    /\ drainCalls' = (drainCalls \/ ShouldKeep)
    /\ UNCHANGED <<revision, isDrainingQueue, retryTimer, step, batch, flags,
                   processed, launches>>

\* registrationStateDidChange, webSocketStateDidChange and reachabilityChanged.
drainQueueWhenReady ==
    /\ ~drainCalls
    /\ drainCalls' = TRUE
    /\ UNCHANGED <<store, isDrainingQueue, retryTimer, step, batch, flags,
                   processed, launches>>

\* The serial queue is not in the middle of drainQueueWorkStep.
SerialQueueIsFree == \A c \in Chains : step[c] # "read"

\* Mutant: the flag is not looked at.
AlwaysMayDrain == TRUE

MayDrain == ~isDrainingQueue

\* The block of drainQueue.
drainQueue ==
    /\ drainCalls
    /\ SerialQueueIsFree
    /\ drainCalls' = FALSE
    /\ IF MayDrain
       THEN /\ isDrainingQueue' = TRUE
            /\ \E c \in Chains : /\ step[c] = "idle"
                                 /\ step' = [step EXCEPT ![c] = "workStep"]
       ELSE UNCHANGED <<isDrainingQueue, step>>
    /\ UNCHANGED <<store, retryTimer, batch, flags, processed, launches>>

Queued == {j \in Jobs : job[j] = "queued"}

\* finder.nextJobs: the first n jobs of the queue.
nextJobs(n) == {j \in Queued : Cardinality({k \in Queued : k <= j}) <= n}

\* drainQueueWorkStep returns at once, and leaves isDrainingQueue set.
RefuseToDrain(c) ==
    /\ step[c] = "workStep"
    /\ SerialQueueIsFree
    /\ ~goodCitizen
    /\ step' = [step EXCEPT ![c] = "idle"]
    /\ UNCHANGED <<store, isDrainingQueue, triggers, batch, flags, processed, launches>>

\* Its read transaction; in the background a batch is one job.
ReadBatch(c) ==
    /\ step[c] = "workStep"
    /\ SerialQueueIsFree
    /\ goodCitizen
    /\ step' = [step EXCEPT ![c] = "read"]
    /\ \E n \in {1, BatchSize} : batch' = [batch EXCEPT ![c] = nextJobs(n)]
    /\ UNCHANGED <<store, isDrainingQueue, triggers, flags, processed, launches>>

DrainIsDone(c) ==
    /\ step[c] = "read"
    /\ batch[c] = {}
    /\ step' = [step EXCEPT ![c] = "idle"]
    /\ isDrainingQueue' = FALSE
    /\ UNCHANGED <<store, triggers, batch, flags, processed, launches>>
------------------------------------------------------------------------------
\* Processing

\* Mutant: the group may be one revision behind.
HasRevisionButOne(j) == MessageRevision[j] <= revision[GroupOf[j]] + 1

HasRevision(j) == revision[GroupOf[j]] > 0 /\ MessageRevision[j] <= revision[GroupOf[j]]

canJobBeProcessedWithoutUpdate(j) == j \in Unwanted \/ HasRevision(j)

\* Mutant: messages that need an update are skipped.
SkipUpdates(jobs) == {j \in jobs : canJobBeProcessedWithoutUpdate(j)}

\* The batch ends before the first message that needs an update.
NoUpdateBatch(jobs) ==
    {j \in jobs : \A k \in jobs : k <= j => canJobBeProcessedWithoutUpdate(k)}

\* What is left of a batch when the app is sent to the background.
Prefixes(jobs) ==
    {some \in SUBSET jobs : some # {} /\ \A j \in some : \A k \in jobs : k < j => k \in some}

\* performLocalProcessingSync and removeJobs: messages are handed to MessageManager,
\* but for those discarded since the user or the sender is not a member.
Settle(jobs) ==
    /\ job' = [j \in Jobs |-> IF j \in jobs THEN "settled" ELSE job[j]]
    /\ \E discarded \in SUBSET jobs :
        /\ jobs \cap Unwanted \subseteq discarded
        /\ processed' = [j \in Jobs |->
               processed[j] + (IF j \in jobs \ discarded THEN 1 ELSE 0)]

\* The write transaction of a batch without an update.
ProcessBatch(c) ==
    /\ step[c] = "read"
    /\ \E jobs \in Prefixes(NoUpdateBatch(batch[c])) : Settle(jobs)
    /\ step' = [step EXCEPT ![c] = "workStep"]
    /\ batch' = [batch EXCEPT ![c] = {}]
    /\ UNCHANGED <<enqueued, revision, isDrainingQueue, triggers, flags, launches>>

\* The write transaction of a batch whose first message needs an update: the update
\* is for that message alone.
StartUpdate(c) ==
    /\ step[c] = "read"
    /\ \E j \in batch[c] :
        /\ \A k \in batch[c] : j <= k
        /\ ~canJobBeProcessedWithoutUpdate(j)
        /\ batch' = [batch EXCEPT ![c] = {j}]
    /\ step' = [step EXCEPT ![c] = "embedded"]
    /\ UNCHANGED <<store, isDrainingQueue, triggers, flags, processed, launches>>

------------------------------------------------------------------------------
\* Updating the group

\* Other components update the group as well.
UpdatedElsewhere(g) ==
    /\ revision[g] < ServerRevision[g]
    /\ revision' = [revision EXCEPT ![g] = @ + 1]
    /\ UNCHANGED <<enqueued, job, queue, flags, processed, launches>>

\* The embedded change is tried only from the revision before it, in a database that
\* has the group.
EmbeddedChangeApplies(j) ==
    /\ groupsV2processProtosInGroupUpdates
    /\ revision[GroupOf[j]] > 0
    /\ MessageRevision[j] = revision[GroupOf[j]] + 1

\* tryToUpdateUsingEmbeddedGroupUpdate; an error that is not retryable makes it try
\* the service.  It discards where the thread of the group holds no v2 model; the other
\* messages it discards are Unwanted and need no update.
tryToUpdateUsingEmbeddedGroupUpdate(c) ==
    /\ step[c] = "embedded"
    /\ \E j \in batch[c] :
        \/ /\ HasRevision(j)
           /\ step' = [step EXCEPT ![c] = "successShouldProcess"]
           /\ UNCHANGED revision
        \/ /\ ~HasRevision(j)
           /\ step' = [step EXCEPT ![c] = "service"]
           /\ UNCHANGED revision
        \/ /\ revision[GroupOf[j]] = 0
           /\ step' = [step EXCEPT ![c] = "failureShouldDiscard"]
           /\ UNCHANGED revision
        \/ /\ EmbeddedChangeApplies(j)
           /\ step' = [step EXCEPT ![c] = "successShouldProcess"]
           /\ revision' = [revision EXCEPT ![GroupOf[j]] = MessageRevision[j]]
        \/ /\ EmbeddedChangeApplies(j)
           /\ step' = [step EXCEPT ![c] = "failureShouldRetry"]
           /\ UNCHANGED revision
    /\ UNCHANGED <<enqueued, job, isDrainingQueue, triggers, batch, flags,
                   processed, launches>>

\* tryToUpdateUsingService: the changes bring the group to the revision the message
\* names, the snapshot to any later one; the model never goes back.
ServiceUpdates(c) ==
    /\ step[c] = "service"
    /\ \E j \in batch[c] : \E r \in MessageRevision[j] .. ServerRevision[GroupOf[j]] :
        revision' = [revision EXCEPT ![GroupOf[j]] = IF r > @ THEN r ELSE @]
    /\ step' = [step EXCEPT ![c] = "successShouldProcess"]
    /\ UNCHANGED <<enqueued, job, isDrainingQueue, triggers, batch, flags,
                   processed, launches>>

\* tryToUpdateUsingService, when it fails.
ServiceFails(c) ==
    /\ step[c] = "service"
    /\ \E outcome \in {"failureShouldRetry", "failureShouldDiscard"} :
        step' = [step EXCEPT ![c] = outcome]
    /\ UNCHANGED <<store, isDrainingQueue, triggers, batch, flags, processed, launches>>

\* The completion in a transaction of its own, after an update that succeeded.
FinishUpdate(c) ==
    /\ step[c] = "successShouldProcess"
    /\ Settle(batch[c])
    /\ step' = [step EXCEPT ![c] = "workStep"]
    /\ batch' = [batch EXCEPT ![c] = {}]
    /\ UNCHANGED <<enqueued, revision, isDrainingQueue, triggers, flags, launches>>

\* The same after one that cannot succeed: the job is removed.
DiscardJob(c) ==
    /\ step[c] = "failureShouldDiscard"
    /\ job' = [j \in Jobs |-> IF j \in batch[c] THEN "settled" ELSE job[j]]
    /\ step' = [step EXCEPT ![c] = "workStep"]
    /\ batch' = [batch EXCEPT ![c] = {}]
    /\ UNCHANGED <<enqueued, revision, isDrainingQueue, triggers, flags,
                   processed, launches>>

\* The same after one to be tried again: the job stays.
KeepJob(c) ==
    /\ step[c] = "failureShouldRetry"
    /\ step' = [step EXCEPT ![c] = "backingOff"]
    /\ batch' = [batch EXCEPT ![c] = {}]
    /\ UNCHANGED <<store, isDrainingQueue, triggers, flags, processed, launches>>

\* Mutant: the flag is left to the delayed call.
KeepDraining == UNCHANGED isDrainingQueue

StopDraining == isDrainingQueue' = FALSE

\* The block of the serial queue that ends this chain and delays a call of drainQueue.
BackOff(c) ==
    /\ step[c] = "backingOff"
    /\ SerialQueueIsFree
    /\ StopDraining
    /\ retryTimer' = TRUE
    /\ step' = [step EXCEPT ![c] = "idle"]
    /\ UNCHANGED <<store, drainCalls, batch, flags, processed, launches>>

RetryAfterDelay ==
    /\ retryTimer
    /\ retryTimer' = FALSE
    /\ drainCalls' = TRUE
    /\ UNCHANGED <<store, isDrainingQueue, step, batch, flags, processed, launches>>

------------------------------------------------------------------------------

drainQueueWorkStep(c) == RefuseToDrain(c) \/ ReadBatch(c) \/ DrainIsDone(c) \/ StartUpdate(c)

Update(c) ==
    tryToUpdateUsingEmbeddedGroupUpdate(c) \/ ServiceUpdates(c) \/ ServiceFails(c)

Complete(c) == ProcessBatch(c) \/ FinishUpdate(c) \/ DiscardJob(c) \/ KeepJob(c) \/ BackOff(c)

Next ==
    \/ Relaunch
    \/ enqueue
    \/ drainQueueWhenReady \/ drainQueue \/ RetryAfterDelay
    \/ \E g \in Groups : UpdatedElsewhere(g)
    \/ \E c \in Chains : drainQueueWorkStep(c) \/ Update(c) \/ Complete(c)

\* Dispatch queues run their blocks, timers fire and promises are kept; the service,
\* asked again and again, answers in the end.
Fairness ==
    /\ WF_vars(drainQueue)
    /\ WF_vars(RetryAfterDelay)
    /\ \A c \in Chains :
        /\ WF_vars(drainQueueWorkStep(c))
        /\ WF_vars(Complete(c))
        /\ WF_vars(Update(c))
        /\ SF_vars(ServiceUpdates(c))
        /\ SF_vars(tryToUpdateUsingEmbeddedGroupUpdate(c) /\ step'[c] # "failureShouldRetry")

Spec == Init /\ [][Next]_vars /\ Fairness

------------------------------------------------------------------------------
(***************************************************************************)
(* Properties                                                              *)
(***************************************************************************)

\* The flag keeps drains apart: never do two chains of drainQueueWorkStep exist, and
\* while there is one the flag is set, through updates that leave the serial queue.
OneDrain ==
    /\ \A c, d \in Chains : step[c] # "idle" /\ step[d] # "idle" => c = d
    /\ \A c \in Chains : step[c] # "idle" => isDrainingQueue

\* A message is handed to MessageManager at most once, whatever is killed, retried or
\* triggered again while a batch is being worked on.
ProcessedAtMostOnce == \A j \in Jobs : processed[j] <= 1

\* A message is handed to MessageManager only when the local model of its group has
\* reached the revision the message names.
GroupIsUpToDate ==
    \A j \in Jobs : processed[j] > 0 => MessageRevision[j] <= revision[GroupOf[j]]

\* Messages leave the queue in the order they came, across groups as well.
SettledInOrder ==
    \A j, k \in Jobs : j < k /\ job[k] = "settled" => job[j] \in {"settled", "ignored"}

\* Where the queue refuses to drain, it is empty: no message waits for a version of
\* the app that would process it.
NothingIsStranded == Queued # {} => goodCitizen

\* A message never waits without a drain, a call of drainQueue or a timer for one.
NoLostDrain ==
    Queued # {} => drainCalls \/ retryTimer \/ \E c \in Chains : step[c] # "idle"

\* Every message leaves the queue in the end.
EveryMessageSettled == \A j \in Jobs : job[j] = "queued" ~> job[j] = "settled"
==============================================================================
