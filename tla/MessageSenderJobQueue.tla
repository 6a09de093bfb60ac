------------------------ MODULE MessageSenderJobQueue ------------------------
(***************************************************************************)
(* The job queue of outgoing messages (MessageSenderJobQueue.swift): the   *)
(* durable queue of JobQueue with a text queue and a media queue for every *)
(* thread, priorities, and the operation that keeps a media message behind *)
(* the text messages that were there before it.                            *)
(*                                                                         *)
(* That operation, the barrier of a media job, waits in the text queue of  *)
(* the thread; the job in the media queue depends on it.                   *)
(***************************************************************************)
EXTENDS JobQueue

CONSTANTS
    ThreadOf,           \* threadId of a job record
    MediaJobs,          \* the jobs whose record has isMediaMessage
    Contents            \* bound: the values of renderable that are considered

ASSUME operationQueueAssumption ==
    \A j, k \in Jobs :
        QueueOf[j] = QueueOf[k] <=>
            /\ ThreadOf[j] = ThreadOf[k]
            /\ j \in MediaJobs <=> k \in MediaJobs

\* A media message has an attachment, which is renderable content.
ASSUME ContentsAssumption ==
    \A content \in Contents : content \subseteq Jobs /\ MediaJobs \subseteq content

VARIABLES
    renderable,         \* the jobs whose message hasRenderableContent, never changed
    senderQueues,       \* the threads that have a text queue
    barrier             \* orderMaintainingOperation of a media job

sending  == <<renderable, senderQueues, barrier>>
sendVars == <<vars, sending>>

SendInit ==
    /\ Init
    /\ renderable \in Contents
    /\ senderQueues = {}
    /\ barrier = [j \in Jobs |-> "none"]

SendRelaunch ==
    /\ Relaunch
    /\ senderQueues' = {}
    /\ barrier' = [j \in Jobs |-> "none"]
    /\ UNCHANGED renderable

------------------------------------------------------------------------------
\* From records to operations

operationQueue(j) ==
    senderQueues' = IF j \in MediaJobs THEN senderQueues ELSE senderQueues \union {ThreadOf[j]}

\* Mutant: no operation is added to the text queue.
NoBarrier(j) == UNCHANGED barrier

\* Mutant: the job depends on an operation that no queue may ever hold.
BarrierOutsideQueues(j) ==
    barrier' = IF j \in MediaJobs THEN [barrier EXCEPT ![j] = "queued"] ELSE barrier

addBarrier(j) ==
    barrier' = IF j \in MediaJobs /\ ThreadOf[j] \in senderQueues
               THEN [barrier EXCEPT ![j] = "queued"]
               ELSE barrier

SendStepStarts(j) ==
    /\ WorkStepStarts(j)
    /\ operationQueue(j)
    /\ addBarrier(j)
    /\ UNCHANGED renderable

\* The message no longer exists; its queue has been made all the same.
SendStepRejects(j) ==
    /\ WorkStepRejects(j)
    /\ status'[j] = "obsolete"
    /\ operationQueue(j)
    /\ UNCHANGED <<renderable, barrier>>

sendWorkStep ==
    \/ WorkStepIdle /\ UNCHANGED sending
    \/ \E j \in Jobs : SendStepStarts(j) \/ SendStepRejects(j)

------------------------------------------------------------------------------
\* What the operation queues start

queuePriority(j) == IF j \in renderable THEN 1 ELSE 0

\* Mutant: the barrier is left with the priority of a new operation.
DefaultPriority(j) == 0

barrierPriority(j) == queuePriority(j)

IsBarrier(j) == barrier[j] = "queued"

\* The ready operations of the text queue and of the media queue of a thread.
TextOperations(thread) ==
    {j \in Jobs : ThreadOf[j] = thread /\ (IsBarrier(j) \/ (j \notin MediaJobs /\ op[j] = "queued"))}

MediaOperations(thread) ==
    {j \in MediaJobs : ThreadOf[j] = thread /\ op[j] = "queued" /\ ~IsBarrier(j)}

PriorityOf(j) == IF IsBarrier(j) THEN barrierPriority(j) ELSE queuePriority(j)

\* The operation of j was added to its queue before that of k.
AddedBefore(j, k) ==
    \E m, n \in DOMAIN runningOperations :
        m < n /\ runningOperations[m] = j /\ runningOperations[n] = k

\* The highest priority first, and in the order they were added within a priority.
IsNext(j, ready) ==
    /\ j \in ready
    /\ \A k \in ready \ {j} :
        \/ PriorityOf(k) < PriorityOf(j)
        \/ PriorityOf(k) = PriorityOf(j) /\ AddedBefore(j, k)

TextQueueIsFree(thread) ==
    \A k \in Jobs \ MediaJobs : ThreadOf[k] = thread => ~Executing(k)

BarrierIsNext(j) ==
    /\ IsBarrier(j)
    /\ ThreadOf[j] \in senderQueues
    /\ TextQueueIsFree(ThreadOf[j])
    /\ IsNext(j, TextOperations(ThreadOf[j]))

SendIsNext(j) ==
    /\ ~IsBarrier(j)
    /\ QueueIsFree(j)
    /\ IF j \in MediaJobs
       THEN IsNext(j, MediaOperations(ThreadOf[j]))
       ELSE IsNext(j, TextOperations(ThreadOf[j]))

\* The empty operation of the barrier, which runs and finishes at once.
RunBarrier(j) ==
    /\ BarrierIsNext(j)
    /\ barrier' = [barrier EXCEPT ![j] = "finished"]
    /\ UNCHANGED <<vars, renderable, senderQueues>>

startSend(j) ==
    /\ SendIsNext(j)
    /\ op' = [op EXCEPT ![j] = "running"]
    /\ UNCHANGED <<records, queue, remainingRetries, retryTimer, retryBlocks, history,
                   sending>>

------------------------------------------------------------------------------

SendOperation(j) ==
    \/ startSend(j)
    \/ RunBarrier(j)
    \/ /\ \/ RunSucceeds(j) \/ durableOperationDidSucceed(j)
          \/ RunFails(j) \/ reportError(j) \/ durableOperationDidFail(j)
          \/ markAsComplete(j)
          \/ ScheduleRetry(j) \/ TimerFires(j) \/ runAnyQueuedRetry(j) \/ Rerun(j)
       /\ UNCHANGED sending

SendNext ==
    \/ SendRelaunch
    \/ /\ RestartOldJobs \/ FinishSetup \/ add \/ startWork \/ becameReachable
       /\ UNCHANGED sending
    \/ sendWorkStep
    \/ \E j \in Jobs : SendOperation(j)

SendSpec == SendInit /\ [][SendNext]_sendVars

------------------------------------------------------------------------------
(***************************************************************************)
(* Properties                                                              *)
(***************************************************************************)

\* "Messages are delivered to the service in the order the user sent them": while
\* a message is being sent, the earlier messages of its thread are settled, unless
\* they have a lower priority, or are media and this one is text.  A media message
\* is in another queue than the text it must not overtake, and that text may be
\* waiting for a retry, or be sent again after a restart.
SentInOrder ==
    \A j, k \in Jobs :
        /\ Executing(j)
        /\ k < j
        /\ ThreadOf[k] = ThreadOf[j]
        /\ k \in MediaJobs => j \in MediaJobs
        /\ queuePriority(k) >= queuePriority(j)
        => status[k] \in Terminal

\* Text that was added after a media message does not hold it back: unless the
\* text has a higher priority, the barrier gets its turn before it.
LaterTextDoesNotDelayMedia ==
    \A j, k \in Jobs :
        /\ IsBarrier(j)
        /\ j < k
        /\ k \notin MediaJobs
        /\ ThreadOf[k] = ThreadOf[j]
        /\ Executing(k)
        => queuePriority(k) > queuePriority(j)

\* The two queues of a thread never wait for each other: as long as an operation is
\* queued in the thread, one of the thread executes or is next in a queue.
QueuesNeverStall ==
    \A j \in Jobs :
        op[j] = "queued" =>
            \E k \in Jobs :
                /\ ThreadOf[k] = ThreadOf[j]
                /\ Executing(k) \/ BarrierIsNext(k) \/ SendIsNext(k)
==============================================================================
