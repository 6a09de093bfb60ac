--------------------- MODULE MessageSenderJobQueueProofs ----------------------
(***************************************************************************)
(* Theorems about MessageSenderJobQueue, for any number of jobs, threads,  *)
(* media messages and launches.                                            *)
(***************************************************************************)
EXTENDS MessageSenderJobQueue, JobQueueProofs, WellFoundedInduction

------------------------------------------------------------------------------
(***************************************************************************)
(* The bookkeeping of JobQueue: it does not depend on which operation a    *)
(* queue starts next.                                                      *)
(***************************************************************************)

LEMMA SendingBegins ==
    ASSUME NEW j \in Jobs, startSend(j)
    PROVE  Begins(j)
<1>1. op[j] = "queued"
  BY DEF startSend, SendIsNext, IsNext, TextOperations, MediaOperations
<1> QED
  BY <1>1 DEF startSend, Begins

LEMMA SendStepsOfTheQueue ==
    ASSUME [SendNext]_sendVars
    PROVE  FreeStep
<1>1. ASSUME NEW j \in Jobs, SendOperation(j)
      PROVE  FreeStep
  <2>1. CASE startSend(j)
    BY <2>1, SendingBegins DEF FreeStep
  <2>2. CASE RunBarrier(j)
    BY <2>2 DEF RunBarrier, FreeStep, QueueStep
  <2>3. CASE OperationGoesOn(j)
    BY <2>3 DEF FreeStep, QueueStep
  <2> QED
    BY <1>1, <2>1, <2>2, <2>3 DEF SendOperation, OperationGoesOn
<1>2. CASE UNCHANGED sendVars
  BY <1>2 DEF sendVars, FreeStep, QueueStep
<1> QED
  BY <1>1, <1>2 DEF SendNext, SendRelaunch, sendWorkStep, SendStepStarts, SendStepRejects,
     FreeStep, QueueStep, workStep

\* What is proved of the bookkeeping of JobQueue holds of the sender's queue.
THEOREM SenderBookkeeping == SendSpec => [](TypeOK /\ Bookkeeping)
<1>1. SendInit => TypeOK /\ Bookkeeping
  BY TypeInit, BookkeepingInit DEF SendInit
<1>2. TypeOK /\ Bookkeeping /\ [SendNext]_sendVars => TypeOK' /\ Bookkeeping'
  BY SendStepsOfTheQueue, TypeStep, FreeStepKeepsBookkeeping
<1> QED
  BY <1>1, <1>2, PTL DEF SendSpec

------------------------------------------------------------------------------
(***************************************************************************)
(* Text queues, media queues and barriers                                  *)
(***************************************************************************)

SendTypeOK ==
    /\ renderable \in Contents
    /\ barrier \in [Jobs -> {"none", "queued", "finished"}]

\* A barrier is in the text queue of a media job whose operation is still queued.
BarrierOfQueuedMedia ==
    \A j \in Jobs : IsBarrier(j) =>
        j \in MediaJobs /\ op[j] = "queued" /\ ThreadOf[j] \in senderQueues

\* A text message that was given an operation is in the text queue of its thread.
TextHasQueue ==
    \A k \in Jobs \ MediaJobs : op[k] # "none" => ThreadOf[k] \in senderQueues

\* The barriers of a thread are passed in the order of their jobs.
BarriersInOrder ==
    \A j, k \in MediaJobs :
        k < j /\ ThreadOf[k] = ThreadOf[j] /\ IsBarrier(k) /\ op[j] # "none" => IsBarrier(j)

\* k is a message that the media message j, or the text j, may not overtake.
MustPrecede(k, j) ==
    k < j /\ ThreadOf[k] = ThreadOf[j] /\ queuePriority(k) >= queuePriority(j)

\* Past its barrier a media message has no earlier text before it.
PastBarrier ==
    \A j \in MediaJobs : \A k \in Jobs \ MediaJobs :
        op[j] # "none" /\ ~IsBarrier(j) /\ MustPrecede(k, j) => ~Live(k)

SendsInOrder ==
    \A j, k \in Jobs :
        Executing(j) /\ MustPrecede(k, j) /\ (k \in MediaJobs => j \in MediaJobs) => ~Live(k)

SendInv ==
    /\ BarrierOfQueuedMedia
    /\ TextHasQueue
    /\ BarriersInOrder
    /\ PastBarrier
    /\ SendsInOrder
    /\ LaterTextDoesNotDelayMedia

LEMMA JobsAndPriorities ==
    ASSUME SendTypeOK
    PROVE  /\ Jobs \subseteq Nat
           /\ MediaJobs \subseteq Jobs
           /\ \A j \in Jobs : queuePriority(j) \in {0, 1}
           /\ \A j \in MediaJobs : queuePriority(j) = 1
BY BoundsAssumption, ContentsAssumption DEF SendTypeOK, Jobs, queuePriority

\* What a queue starts next comes before the greater jobs that are ready, unless
\* they have a higher priority.
LEMMA NextIsFirst ==
    ASSUME TypeOK, Bookkeeping, NEW ready, NEW j \in Jobs, NEW k \in Jobs,
           IsNext(j, ready), k \in ready, k < j
    PROVE  PriorityOf(k) < PriorityOf(j)
<1>1. j # k /\ j \in Nat /\ k \in Nat
  BY BoundsAssumption DEF Jobs
<1>2. ~AddedBefore(j, k)
  BY <1>1 DEF AddedBefore, Bookkeeping, Increasing
<1> QED
  BY <1>1, <1>2 DEF IsNext

\* A step that begins no operation, and gives none to a job.
Calm ==
    \A k \in Jobs :
        /\ op'[k] = "none" <=> op[k] = "none"
        /\ op'[k] = "queued" <=> op[k] = "queued"
        /\ Live(k)' => Live(k)
        /\ Executing(k)' => Executing(k)

LEMMA CalmSteps ==
    ASSUME TypeOK, Bookkeeping
    PROVE  /\ UNCHANGED op => Calm
           /\ \A j \in Jobs : OperationGoesOn(j) => Calm
<1>1. UNCHANGED op => Calm
  BY DEF Calm, Live, Executing
<1>2. ASSUME NEW j \in Jobs, OperationGoesOn(j)
      PROVE  Calm
  <2>1. CASE Quiet
    BY <2>1 DEF Quiet, Calm, Live, Executing
  <2>2. CASE durableOperationDidSucceed(j) \/ durableOperationDidFail(j)
    BY <2>2 DEF durableOperationDidSucceed, durableOperationDidFail, TypeOK, Calm, Live,
       Executing
  <2>3. CASE markAsComplete(j)
    BY <2>3 DEF markAsComplete, TypeOK, Calm, Live, Executing
  <2> QED
    BY <1>2, <2>1, <2>2, <2>3, OperationIsQuiet DEF OperationGoesOn
<1> QED
  BY <1>1, <1>2

CalmForSending ==
    /\ Calm
    /\ UNCHANGED <<renderable, barrier>>
    /\ senderQueues \subseteq senderQueues'

LEMMA SendSteps ==
    ASSUME TypeOK, Bookkeeping, [SendNext]_sendVars
    PROVE  \/ SendRelaunch
           \/ CalmForSending
           \/ \E j \in Jobs : SendStepStarts(j) \/ RunBarrier(j) \/ startSend(j)
<1>1. CASE UNCHANGED op /\ UNCHANGED sending
  BY <1>1, CalmSteps DEF CalmForSending, sending
<1>2. ASSUME NEW j \in Jobs, SendStepRejects(j)
      PROVE  CalmForSending
  <2>1. UNCHANGED op
    BY <1>2 DEF SendStepRejects, WorkStepRejects, operations
  <2>2. senderQueues \subseteq senderQueues'
    BY <1>2 DEF SendStepRejects, operationQueue
  <2> QED
    BY <1>2, <2>1, <2>2, CalmSteps DEF CalmForSending, SendStepRejects
<1>3. ASSUME NEW j \in Jobs, OperationGoesOn(j), UNCHANGED sending
      PROVE  CalmForSending
  BY <1>3, CalmSteps DEF CalmForSending, sending
<1>4. CASE UNCHANGED sendVars
  BY <1>1, <1>4 DEF sendVars, vars, operations
<1>5. CASE /\ RestartOldJobs \/ FinishSetup \/ add \/ startWork \/ becameReachable
           /\ UNCHANGED sending
  BY <1>1, <1>5 DEF RestartOldJobs, FinishSetup, add, startWork, becameReachable, operations
<1>6. CASE WorkStepIdle /\ UNCHANGED sending
  BY <1>1, <1>6 DEF WorkStepIdle, operations
<1> QED
  BY <1>2, <1>3, <1>4, <1>5, <1>6 DEF SendNext, sendWorkStep, SendOperation, OperationGoesOn

LEMMA CalmKeepsSending ==
    ASSUME SendTypeOK, SendInv, CalmForSending
    PROVE  SendTypeOK' /\ SendInv'
<1> USE DEF CalmForSending, Calm, IsBarrier, queuePriority
<1>1. SendTypeOK' /\ MediaJobs \subseteq Jobs
  BY JobsAndPriorities DEF SendTypeOK
<1>2. BarrierOfQueuedMedia' /\ TextHasQueue'
  BY DEF SendInv, BarrierOfQueuedMedia, TextHasQueue
<1>3. BarriersInOrder'
  BY <1>1 DEF SendInv, BarriersInOrder
<1>4. PastBarrier'
  BY <1>1 DEF SendInv, PastBarrier, MustPrecede
<1>5. SendsInOrder'
  BY DEF SendInv, SendsInOrder, MustPrecede
<1>6. LaterTextDoesNotDelayMedia'
  BY DEF SendInv, LaterTextDoesNotDelayMedia
<1> QED
  BY <1>1, <1>2, <1>3, <1>4, <1>5, <1>6 DEF SendInv

\* A barrier is passed: no text before it is in the text queue, executing or queued.
LEMMA PassingKeepsSending ==
    ASSUME TypeOK, Bookkeeping, SendTypeOK, SendInv, NEW j \in Jobs, RunBarrier(j)
    PROVE  SendTypeOK' /\ SendInv'
<1>1. /\ BarrierIsNext(j) /\ IsBarrier(j)
      /\ barrier' = [barrier EXCEPT ![j] = "finished"]
      /\ UNCHANGED <<renderable, senderQueues, op>>
  BY DEF RunBarrier, BarrierIsNext, vars, operations
<1>2. /\ SendTypeOK'
      /\ \A k \in Jobs : IsBarrier(k)' <=> IsBarrier(k) /\ k # j
      /\ j \in MediaJobs
  BY <1>1 DEF SendTypeOK, IsBarrier, SendInv, BarrierOfQueuedMedia
<1>3. \A k \in Jobs : /\ queuePriority(k)' = queuePriority(k)
                      /\ Live(k)' <=> Live(k)
                      /\ Executing(k)' <=> Executing(k)
  BY <1>1 DEF queuePriority, Live, Executing
<1>4. \A k \in TextOperations(ThreadOf[j]) : k \in Jobs /\ k < j => PriorityOf(k) < PriorityOf(j)
  BY <1>1, NextIsFirst DEF BarrierIsNext, TextOperations
<1>5. MediaJobs \subseteq Jobs /\ \A k \in Jobs : queuePriority(k) \in Nat
  BY JobsAndPriorities
<1>6. BarrierOfQueuedMedia' /\ TextHasQueue'
  BY <1>1, <1>2 DEF SendInv, BarrierOfQueuedMedia, TextHasQueue
<1>7. BarriersInOrder'
  <2> SUFFICES ASSUME NEW i \in MediaJobs, NEW k \in MediaJobs,
                      k < i, ThreadOf[k] = ThreadOf[i], IsBarrier(k), op[i] # "none", i = j
               PROVE  FALSE
    BY <1>1, <1>2, <1>5 DEF SendInv, BarriersInOrder
  <2>1. k \in TextOperations(ThreadOf[j])
    BY <1>5 DEF TextOperations
  <2>2. PriorityOf(k) = 1 /\ PriorityOf(j) = 1
    BY <1>1, <1>2, JobsAndPriorities DEF PriorityOf, barrierPriority
  <2> QED
    BY <1>4, <1>5, <2>1, <2>2
<1>8. PastBarrier'
  <2> SUFFICES ASSUME NEW k \in Jobs \ MediaJobs, MustPrecede(k, j), Live(k)
               PROVE  FALSE
    BY <1>1, <1>2, <1>3, <1>5 DEF SendInv, PastBarrier, MustPrecede
  <2>1. op[k] = "queued"
    BY <1>1 DEF BarrierIsNext, TextQueueIsFree, MustPrecede, Executing, Live
  <2>2. k \in TextOperations(ThreadOf[j])
    BY <2>1 DEF TextOperations, MustPrecede
  <2>3. PriorityOf(k) = queuePriority(k) /\ PriorityOf(j) = queuePriority(j)
    BY <1>1 DEF PriorityOf, barrierPriority, SendInv, BarrierOfQueuedMedia
  <2> QED
    BY <1>4, <1>5, <2>2, <2>3 DEF MustPrecede
<1>9. SendsInOrder'
  BY <1>3 DEF SendInv, SendsInOrder, MustPrecede
<1>10. LaterTextDoesNotDelayMedia'
  BY <1>2, <1>3 DEF SendInv, LaterTextDoesNotDelayMedia
<1> QED
  BY <1>2, <1>6, <1>7, <1>8, <1>9, <1>10 DEF SendInv

\* A job is given an operation after all earlier jobs.
LEMMA AddingKeepsSending ==
    ASSUME TypeOK, Bookkeeping, SendTypeOK, SendInv, NEW j \in Jobs, SendStepStarts(j)
    PROVE  SendTypeOK' /\ SendInv'
<1>1. /\ status[j] = "ready"
      /\ op' = [op EXCEPT ![j] = "queued"]
      /\ renderable' = renderable
      /\ senderQueues' = IF j \in MediaJobs THEN senderQueues
                         ELSE senderQueues \union {ThreadOf[j]}
      /\ barrier' = IF j \in MediaJobs /\ ThreadOf[j] \in senderQueues
                    THEN [barrier EXCEPT ![j] = "queued"] ELSE barrier
  BY DEF SendStepStarts, WorkStepStarts, IsNextReady, operationQueue, addBarrier
<1>2. Jobs \subseteq Nat /\ MediaJobs \subseteq Jobs
  BY JobsAndPriorities
<1>3. op[j] = "none" /\ ~Live(j)
  BY <1>1, OperationHasRecord DEF Bookkeeping, CompleteIsTerminal, Terminal, Live
<1>4. \A k \in Jobs : op[k] # "none" => k < j
  BY <1>1, <1>2, <1>3 DEF Bookkeeping, OldestFirst
<1>5. /\ op'[j] = "queued" /\ ~Executing(j)'
      /\ \A k \in Jobs : k # j => /\ op'[k] = op[k]
                                  /\ Live(k)' <=> Live(k)
                                  /\ Executing(k)' <=> Executing(k)
                                  /\ IsBarrier(k)' <=> IsBarrier(k)
  BY <1>1 DEF TypeOK, Live, Executing, IsBarrier, SendTypeOK
<1>6. /\ ~IsBarrier(j)
      /\ IsBarrier(j)' <=> j \in MediaJobs /\ ThreadOf[j] \in senderQueues
  BY <1>1, <1>3 DEF SendTypeOK, IsBarrier, SendInv, BarrierOfQueuedMedia
<1>7. SendTypeOK'
  BY <1>1 DEF SendTypeOK
<1>8. \A k \in Jobs : queuePriority(k)' = queuePriority(k)
  BY <1>1 DEF queuePriority
<1>9. BarrierOfQueuedMedia' /\ TextHasQueue'
  BY <1>1, <1>5, <1>6 DEF SendInv, BarrierOfQueuedMedia, TextHasQueue
<1>10. BarriersInOrder'
  <2> SUFFICES ASSUME NEW i \in MediaJobs, NEW k \in MediaJobs, k < i,
                      ThreadOf[k] = ThreadOf[i], IsBarrier(k)', op'[i] # "none"
               PROVE  IsBarrier(i)'
    BY DEF BarriersInOrder
  <2>1. CASE i # j /\ k # j
    BY <1>2, <1>5, <2>1 DEF SendInv, BarriersInOrder
  <2>2. CASE i = j
    BY <1>2, <1>5, <1>6, <2>2 DEF SendInv, BarrierOfQueuedMedia
  <2>3. CASE k = j
    BY <1>2, <1>4, <1>5, <2>3
  <2> QED
    BY <2>1, <2>2, <2>3
<1>11. PastBarrier'
  <2> SUFFICES ASSUME NEW i \in MediaJobs, NEW k \in Jobs \ MediaJobs, op'[i] # "none",
                      ~IsBarrier(i)', MustPrecede(k, i)'
               PROVE  ~Live(k)'
    BY DEF PastBarrier
  <2>0. MustPrecede(k, i) /\ i \in Jobs /\ i \in Nat /\ k \in Nat
    BY <1>2, <1>8 DEF MustPrecede
  <2>1. CASE i # j /\ k # j
    BY <1>5, <2>0, <2>1 DEF SendInv, PastBarrier
  <2>2. CASE i = j
    BY <1>5, <1>6, <2>0, <2>2 DEF SendInv, TextHasQueue, MustPrecede, Live
  <2>3. CASE k = j
    BY <1>2, <1>4, <1>5, <2>0, <2>3 DEF MustPrecede
  <2> QED
    BY <2>1, <2>2, <2>3
<1>12. SendsInOrder'
  <2> SUFFICES ASSUME NEW i \in Jobs, NEW k \in Jobs, Executing(i)', MustPrecede(k, i)',
                      k \in MediaJobs => i \in MediaJobs
               PROVE  ~Live(k)'
    BY DEF SendsInOrder
  <2>1. /\ i # j /\ Executing(i) /\ op[i] # "none" /\ MustPrecede(k, i)
        /\ i \in Nat /\ k \in Nat /\ j \in Nat
    BY <1>2, <1>5, <1>8 DEF MustPrecede, Executing
  <2>2. k # j
    BY <1>4, <2>1 DEF MustPrecede
  <2> QED
    BY <1>5, <2>1, <2>2 DEF SendInv, SendsInOrder
<1>13. LaterTextDoesNotDelayMedia'
  <2> SUFFICES ASSUME NEW i \in Jobs, NEW k \in Jobs, IsBarrier(i)', i < k, k \notin MediaJobs,
                      ThreadOf[k] = ThreadOf[i], Executing(k)'
               PROVE  queuePriority(k)' > queuePriority(i)'
    BY DEF LaterTextDoesNotDelayMedia
  <2>1. k # j /\ Executing(k) /\ op[k] # "none" /\ i \in Nat /\ k \in Nat /\ j \in Nat
    BY <1>2, <1>5 DEF Executing
  <2>2. i # j
    BY <1>4, <2>1
  <2> QED
    BY <1>5, <1>8, <2>1, <2>2 DEF SendInv, LaterTextDoesNotDelayMedia
<1> QED
  BY <1>7, <1>9, <1>10, <1>11, <1>12, <1>13 DEF SendInv

\* A queue that is free starts the message that comes before all it holds.
LEMMA StartingKeepsSending ==
    ASSUME TypeOK, Bookkeeping, SendTypeOK, SendInv, NEW j \in Jobs, startSend(j)
    PROVE  SendTypeOK' /\ SendInv'
<1>1. /\ op[j] = "queued" /\ ~IsBarrier(j) /\ SendIsNext(j) /\ QueueIsFree(j)
      /\ op' = [op EXCEPT ![j] = "running"]
      /\ UNCHANGED <<renderable, senderQueues, barrier>>
  BY SendingBegins DEF startSend, SendIsNext, Begins, sending
<1>2. /\ Jobs \subseteq Nat /\ MediaJobs \subseteq Jobs
      /\ \A k \in Jobs : queuePriority(k) \in Nat
  BY JobsAndPriorities
<1>3. /\ \A k \in Jobs : /\ op'[k] = "none" <=> op[k] = "none"
                         /\ Live(k)' <=> Live(k)
                         /\ k # j => op'[k] = op[k] /\ (Executing(k)' <=> Executing(k))
                         /\ IsBarrier(k)' <=> IsBarrier(k)
                         /\ queuePriority(k)' = queuePriority(k)
      /\ SendTypeOK'
  BY <1>1 DEF TypeOK, Live, Executing, IsBarrier, queuePriority, SendTypeOK
<1>4. BarrierOfQueuedMedia' /\ TextHasQueue'
  BY <1>1, <1>3 DEF SendInv, BarrierOfQueuedMedia, TextHasQueue
<1>5. BarriersInOrder'
  BY <1>2, <1>3 DEF SendInv, BarriersInOrder
<1>6. PastBarrier'
  BY <1>2, <1>3 DEF SendInv, PastBarrier, MustPrecede
<1>7. \A k \in Jobs : k < j =>
        /\ j \in MediaJobs /\ k \in MediaOperations(ThreadOf[j]) => PriorityOf(k) < PriorityOf(j)
        /\ j \notin MediaJobs /\ k \in TextOperations(ThreadOf[j]) => PriorityOf(k) < PriorityOf(j)
  BY <1>1, NextIsFirst DEF SendIsNext
<1>8. PriorityOf(j) = queuePriority(j)
  BY <1>1 DEF PriorityOf
<1>9. ASSUME NEW k \in Jobs, MustPrecede(k, j), k \in MediaJobs => j \in MediaJobs, Live(k)
      PROVE  FALSE
  <2>1. CASE k \in MediaJobs <=> j \in MediaJobs
    <3>1. QueueOf[k] = QueueOf[j]
      BY <1>9, <2>1, operationQueueAssumption DEF MustPrecede
    <3>2. op[k] = "queued"
      BY <1>1, <1>9, <3>1 DEF QueueIsFree, Executing, Live
    <3>3. ~IsBarrier(k)
      <4>1. CASE k \in MediaJobs
        BY <1>1, <1>9, <2>1, <4>1 DEF SendInv, BarriersInOrder, MustPrecede
      <4>2. CASE k \notin MediaJobs
        BY <4>2 DEF SendInv, BarrierOfQueuedMedia
      <4> QED
        BY <4>1, <4>2
    <3>4. PriorityOf(k) = queuePriority(k)
      BY <3>3 DEF PriorityOf
    <3>5. PriorityOf(k) < PriorityOf(j)
      BY <1>7, <1>9, <2>1, <3>2, <3>3 DEF MediaOperations, TextOperations, MustPrecede
    <3> QED
      BY <1>2, <1>8, <1>9, <3>4, <3>5 DEF MustPrecede
  <2>2. CASE k \notin MediaJobs /\ j \in MediaJobs
    BY <1>1, <1>9, <2>2 DEF SendInv, PastBarrier
  <2> QED
    BY <1>9, <2>1, <2>2
<1>10. SendsInOrder'
  <2> SUFFICES ASSUME NEW i \in Jobs, NEW k \in Jobs, Executing(i)', MustPrecede(k, i)',
                      k \in MediaJobs => i \in MediaJobs
               PROVE  ~Live(k)'
    BY DEF SendsInOrder
  <2>1. MustPrecede(k, i)
    BY <1>3 DEF MustPrecede
  <2>2. CASE i = j
    BY <1>3, <1>9, <2>1, <2>2
  <2>3. CASE i # j
    BY <1>3, <2>1, <2>3 DEF SendInv, SendsInOrder
  <2> QED
    BY <2>2, <2>3
<1>11. LaterTextDoesNotDelayMedia'
  <2> SUFFICES ASSUME NEW i \in Jobs, NEW k \in Jobs, IsBarrier(i), i < k, k \notin MediaJobs,
                      ThreadOf[k] = ThreadOf[i], Executing(k)'
               PROVE  queuePriority(k) > queuePriority(i)
    BY <1>3 DEF LaterTextDoesNotDelayMedia
  <2>1. CASE k = j
    <3>1. i \in TextOperations(ThreadOf[j])
      BY <2>1 DEF TextOperations
    <3>2. PriorityOf(i) < PriorityOf(j)
      BY <1>7, <2>1, <3>1
    <3>3. PriorityOf(i) = queuePriority(i)
      BY DEF PriorityOf, barrierPriority
    <3> QED
      BY <1>2, <1>8, <2>1, <3>2, <3>3
  <2>2. CASE k # j
    BY <1>3, <2>2 DEF SendInv, LaterTextDoesNotDelayMedia
  <2> QED
    BY <2>1, <2>2
<1> QED
  BY <1>3, <1>4, <1>5, <1>6, <1>10, <1>11 DEF SendInv

LEMMA RelaunchKeepsSending ==
    ASSUME SendTypeOK, SendRelaunch
    PROVE  SendTypeOK' /\ SendInv'
<1>1. /\ op' = [j \in Jobs |-> "none"] /\ barrier' = [j \in Jobs |-> "none"]
      /\ renderable' = renderable
  BY DEF SendRelaunch, Relaunch
<1>2. MediaJobs \subseteq Jobs
  BY JobsAndPriorities
<1>3. \A k \in Jobs : op'[k] = "none" /\ ~Executing(k)' /\ ~IsBarrier(k)' /\ ~Live(k)'
  BY <1>1 DEF Executing, IsBarrier, Live
<1>4. SendTypeOK'
  BY <1>1 DEF SendTypeOK
<1>5. SendInv'
  BY <1>2, <1>3 DEF SendInv, BarrierOfQueuedMedia, TextHasQueue, BarriersInOrder, PastBarrier,
     SendsInOrder, LaterTextDoesNotDelayMedia
<1> QED
  BY <1>4, <1>5

LEMMA SendInvInit == SendInit => SendTypeOK /\ SendInv
<1> SUFFICES ASSUME SendInit PROVE SendTypeOK /\ SendInv
  OBVIOUS
<1>1. /\ op = [j \in Jobs |-> "none"] /\ barrier = [j \in Jobs |-> "none"]
      /\ renderable \in Contents
  BY DEF SendInit, Init
<1>2. SendTypeOK /\ MediaJobs \subseteq Jobs
  BY <1>1, ContentsAssumption DEF SendTypeOK
<1>3. \A k \in Jobs : op[k] = "none" /\ ~Executing(k) /\ ~IsBarrier(k) /\ ~Live(k)
  BY <1>1 DEF Executing, IsBarrier, Live
<1> QED
  BY <1>2, <1>3 DEF SendInv, BarrierOfQueuedMedia, TextHasQueue, BarriersInOrder, PastBarrier,
     SendsInOrder, LaterTextDoesNotDelayMedia

\* The strengthening under which the order of the sends is inductive.
THEOREM SendInvariant == SendSpec => [](TypeOK /\ Bookkeeping /\ SendTypeOK /\ SendInv)
<1>1. /\ TypeOK /\ Bookkeeping /\ SendTypeOK /\ SendInv
      /\ [SendNext]_sendVars
      => SendTypeOK' /\ SendInv'
  BY SendSteps, RelaunchKeepsSending, CalmKeepsSending, PassingKeepsSending,
     AddingKeepsSending, StartingKeepsSending
<1> QED
  BY <1>1, SendInvInit, SenderBookkeeping, PTL DEF SendSpec

\* While a message is being sent, the earlier messages of its thread that it must not
\* overtake are settled, across both queues of the thread, retries and restarts.
THEOREM MessagesAreSentInOrder == SendSpec => []SentInOrder
<1>1. ASSUME TypeOK, Bookkeeping, SendTypeOK, SendInv
      PROVE  SentInOrder
  <2> SUFFICES ASSUME NEW j \in Jobs, NEW k \in Jobs, Executing(j), MustPrecede(k, j),
                      k \in MediaJobs => j \in MediaJobs
               PROVE  status[k] \in Terminal
    BY DEF SentInOrder, MustPrecede
  <2>1. op[j] # "none" /\ setup = "done" /\ j <= lastId
    BY <1>1, OperationHasRecord DEF Executing
  <2>2. ~Live(k)
    BY <1>1 DEF SendInv, SendsInOrder
  <2>3. k < j /\ k \in Nat /\ j \in Nat
    BY <1>1, JobsAndPriorities DEF MustPrecede
  <2>4. status[k] # "none"
    BY <1>1, <2>1, <2>3 DEF Bookkeeping, IdsGivenOut, TypeOK
  <2>5. status[k] # "ready"
    BY <1>1, <2>1, <2>3 DEF Bookkeeping, OldestFirst
  <2>6. status[k] # "running"
    BY <1>1, <2>1, <2>2 DEF Bookkeeping, Registered
  <2> QED
    BY <1>1, <2>4, <2>5, <2>6 DEF TypeOK, Statuses, Terminal
<1> QED
  BY <1>1, SendInvariant, PTL

\* Text added after a media message does not run before its barrier, unless its
\* priority is higher.
THEOREM MediaIsNotHeldBack == SendSpec => []LaterTextDoesNotDelayMedia
<1>1. SendInv => LaterTextDoesNotDelayMedia
  BY DEF SendInv
<1> QED
  BY <1>1, SendInvariant, PTL

------------------------------------------------------------------------------
(***************************************************************************)
(* The queues of a thread never wait for each other                        *)
(***************************************************************************)

LEMMA LeastJob ==
    ASSUME NEW T, T \subseteq Nat, T # {}
    PROVE  \E x \in T : \A y \in T : x <= y
<1>1. IsWellFoundedOn(OpToRel(<, Nat), Nat)
  BY NatLessThanWellFounded
<1>2. PICK x \in T : \A y \in T : ~(<<y, x>> \in OpToRel(<, Nat))
  BY <1>1, WFMin
<1>3. \A y \in T : ~(y < x)
  BY <1>2 DEF OpToRel
<1> QED
  BY <1>3

\* A queue that holds operations has one to start next.
LEMMA OneIsNext ==
    ASSUME TypeOK, Bookkeeping, SendTypeOK, NEW ready, ready \subseteq Jobs, ready # {},
           \A k \in ready : Live(k)
    PROVE  \E k \in ready : IsNext(k, ready)
<1>1. Jobs \subseteq Nat /\ \A k \in ready : PriorityOf(k) \in {0, 1}
  BY JobsAndPriorities DEF PriorityOf, barrierPriority
<1>2. PICK first : /\ first \subseteq ready /\ first # {}
                   /\ \A k \in first : \A m \in ready :
                        PriorityOf(m) < PriorityOf(k) \/ (m \in first /\ PriorityOf(m) = PriorityOf(k))
  <2>1. PICK high : high = {k \in ready : PriorityOf(k) = 1}
    OBVIOUS
  <2>2. CASE high # {}
    BY <1>1, <2>1, <2>2
  <2>3. CASE high = {}
    BY <1>1, <2>1, <2>3
  <2> QED
    BY <2>2, <2>3
<1>3. PICK x \in first : \A y \in first : x <= y
  BY <1>1, <1>2, LeastJob
<1>4. ASSUME NEW m \in ready \ {x}
      PROVE  \/ PriorityOf(m) < PriorityOf(x)
             \/ PriorityOf(m) = PriorityOf(x) /\ AddedBefore(x, m)
  <2>1. CASE m \in first /\ PriorityOf(m) = PriorityOf(x)
    <3>1. x < m /\ x \in Jobs /\ m \in Jobs
      BY <1>1, <1>2, <1>3, <1>4, <2>1
    <3>2. Live(x) /\ Live(m)
      BY <1>2, <1>3, <1>4
    <3> QED
      BY <2>1, <3>1, <3>2, LiveJobsWereAddedInOrder DEF AddedBefore
  <2> QED
    BY <1>2, <1>3, <1>4, <2>1
<1>5. IsNext(x, ready)
  BY <1>2, <1>3, <1>4 DEF IsNext
<1> QED
  BY <1>2, <1>3, <1>5

\* An operation that is queued is behind one of its thread that executes, or is next: the
\* barrier never has the text and the media queue of a thread wait for each other.
THEOREM NoThreadStalls == SendSpec => []QueuesNeverStall
<1>1. ASSUME TypeOK, Bookkeeping, SendTypeOK, SendInv,
             NEW j \in Jobs, op[j] = "queued",
             \A k \in Jobs : ThreadOf[k] = ThreadOf[j] => ~Executing(k)
      PROVE  \E k \in Jobs : ThreadOf[k] = ThreadOf[j] /\ (BarrierIsNext(k) \/ SendIsNext(k))
  <2>1. PICK thread : thread = ThreadOf[j]
    OBVIOUS
  <2>2. TextQueueIsFree(thread)
    BY <1>1, <2>1 DEF TextQueueIsFree
  <2>3. ASSUME NEW k \in Jobs, ThreadOf[k] = thread
        PROVE  QueueIsFree(k)
    BY <1>1, <2>1, <2>3, operationQueueAssumption DEF QueueIsFree
  <2>4. CASE IsBarrier(j) \/ j \notin MediaJobs
    <3>1. j \in TextOperations(thread) /\ TextOperations(thread) \subseteq Jobs
      BY <1>1, <2>1, <2>4 DEF TextOperations
    <3>2. \A k \in TextOperations(thread) : Live(k)
      BY <1>1 DEF TextOperations, Live, SendInv, BarrierOfQueuedMedia
    <3>3. PICK k \in TextOperations(thread) : IsNext(k, TextOperations(thread))
      BY <1>1, <3>1, <3>2, OneIsNext
    <3>4. k \in Jobs /\ ThreadOf[k] = thread
      BY <3>3 DEF TextOperations
    <3>5. CASE IsBarrier(k)
      <4>1. ThreadOf[k] \in senderQueues
        BY <1>1, <3>4, <3>5 DEF SendInv, BarrierOfQueuedMedia
      <4>2. BarrierIsNext(k)
        BY <2>2, <3>3, <3>4, <3>5, <4>1 DEF BarrierIsNext
      <4> QED
        BY <2>1, <3>4, <4>2
    <3>6. CASE ~IsBarrier(k)
      <4>1. k \notin MediaJobs
        BY <3>3, <3>6 DEF TextOperations
      <4>2. SendIsNext(k)
        BY <2>3, <3>3, <3>4, <3>6, <4>1 DEF SendIsNext
      <4> QED
        BY <2>1, <3>4, <4>2
    <3> QED
      BY <3>5, <3>6
  <2>5. CASE ~IsBarrier(j) /\ j \in MediaJobs
    <3>1. /\ j \in MediaOperations(thread) /\ MediaOperations(thread) \subseteq Jobs
          /\ MediaOperations(thread) \subseteq MediaJobs
      BY <1>1, <2>1, <2>5, JobsAndPriorities DEF MediaOperations
    <3>2. \A k \in MediaOperations(thread) : Live(k)
      BY DEF MediaOperations, Live
    <3>3. PICK k \in MediaOperations(thread) : IsNext(k, MediaOperations(thread))
      BY <1>1, <3>1, <3>2, OneIsNext
    <3>4. k \in Jobs /\ k \in MediaJobs /\ ThreadOf[k] = thread /\ ~IsBarrier(k)
      BY <3>1, <3>3 DEF MediaOperations
    <3>5. SendIsNext(k)
      BY <2>3, <3>3, <3>4 DEF SendIsNext
    <3> QED
      BY <2>1, <3>4, <3>5
  <2> QED
    BY <2>4, <2>5
<1>2. TypeOK /\ Bookkeeping /\ SendTypeOK /\ SendInv => QueuesNeverStall
  BY <1>1 DEF QueuesNeverStall
<1> QED
  BY <1>2, SendInvariant, PTL
==============================================================================
