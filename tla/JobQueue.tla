------------------------------- MODULE JobQueue ------------------------------
(***************************************************************************)
(* The durable job queue of SignalServiceKit (JobQueue.swift) with the     *)
(* records it persists (SSKJobRecord.m) and the operations that execute    *)
(* them (OWSOperation.m).                                                  *)
(*                                                                         *)
(* A job is named by the sortId its record gets from the database, so      *)
(* jobs are 1 .. MaxJobs in the order they are added.  One action is one   *)
(* atomic piece of the code: a write transaction, a block a dispatch queue *)
(* runs, or a callback.  Everything but the records is lost when the       *)
(* process dies.                                                           *)
(***************************************************************************)
EXTENDS Naturals, Sequences

CONSTANTS
    MaxJobs,            \* bound: how many jobs are ever added
    QueueOf,            \* operationQueue(jobRecord:), each queue being serial
    MaxRetries,         \* maxRetries
    RequiresInternet,   \* requiresInternet
    MaxLaunches,        \* bound: how often the process is launched
    MaxReachable        \* bound: how often the network becomes reachable

Jobs == 1 .. MaxJobs

ASSUME BoundsAssumption ==
    /\ MaxJobs \in Nat
    /\ MaxLaunches \in Nat
    /\ MaxReachable \in Nat

ASSUME MaxRetriesAssumption == MaxRetries \in Nat

ASSUME RequiresInternetAssumption == RequiresInternet \in BOOLEAN

VARIABLES
    \* the job records, in the database
    status,             \* SSKJobRecordStatus, "none" before insert, "removed" after
    failureCount,
    lastId,             \* the last sortId the database gave out
    \* the queue object
    setup,              \* how far defaultSetup has come
    starts,             \* pending calls of startWorkWhenAppIsReady
    workSteps,          \* pending calls of workStep
    runningOperations,
    \* the operations, at most one for a job and a launch
    op,                 \* where an operation is
    remainingRetries,
    retryTimer,
    retryBlocks,        \* pending main-queue blocks of runAnyQueuedRetry
    \* history
    completions,        \* how often the work of a job was carried out
    launches,
    reachable           \* how often the network became reachable

records    == <<status, failureCount, lastId>>
queue      == <<setup, starts, workSteps, runningOperations>>
operations == <<op, remainingRetries, retryTimer, retryBlocks>>
history    == <<completions, launches, reachable>>
vars       == <<records, queue, operations, history>>

Statuses == {"none", "ready", "running", "permanentlyFailed", "obsolete", "removed"}

(***************************************************************************)
(* An operation is "queued" in its NSOperationQueue until the queue starts *)
(* it.  It then executes, holding the serial queue, until markAsComplete:  *)
(* "running" while the code of run() is at work, "reporting..." when a     *)
(* callback has called reportSuccess or reportError, "scheduling" until    *)
(* the main queue sets the retry timer, "waiting" on that timer,           *)
(* "rerunning" until a global queue calls run() again, "failing" before    *)
(* the transaction of didFail and "complete" before markAsComplete.        *)
(***************************************************************************)
Phases == {"none", "queued", "running", "reportingSuccess", "reportingRetryable",
           "reportingUnretryable", "scheduling", "waiting", "rerunning", "failing",
           "complete", "finished"}

Executing(j) == op[j] \notin {"none", "queued", "finished"}

\* The operations of the records that are still to be settled.
Live(j) == op[j] \notin {"none", "complete", "finished"}

isSetup == setup = "done"

TypeOK ==
    /\ status \in [Jobs -> Statuses]
    /\ failureCount \in [Jobs -> Nat]
    /\ lastId \in 0 .. MaxJobs
    /\ setup \in {"launched", "restarted", "done"}
    /\ starts \in Nat
    /\ workSteps \in Nat
    /\ runningOperations \in Seq(Jobs)
    /\ op \in [Jobs -> Phases]
    /\ remainingRetries \in [Jobs -> Nat]
    /\ retryTimer \in [Jobs -> {"nil", "armed", "fired"}]
    /\ retryBlocks \in [Jobs -> Nat]
    /\ completions \in [Jobs -> Nat]
    /\ launches \in Nat
    /\ reachable \in Nat

------------------------------------------------------------------------------
\* The process

Init ==
    /\ status = [j \in Jobs |-> "none"]
    /\ failureCount = [j \in Jobs |-> 0]
    /\ lastId = 0
    /\ setup = "launched"
    /\ starts = 0
    /\ workSteps = 0
    /\ runningOperations = <<>>
    /\ op = [j \in Jobs |-> "none"]
    /\ remainingRetries = [j \in Jobs |-> 0]
    /\ retryTimer = [j \in Jobs |-> "nil"]
    /\ retryBlocks = [j \in Jobs |-> 0]
    /\ completions = [j \in Jobs |-> 0]
    /\ launches = 1
    /\ reachable = 0

\* The process is killed at any moment and launched again: only the committed
\* records survive.
Relaunch ==
    /\ launches < MaxLaunches
    /\ launches' = launches + 1
    /\ setup' = "launched"
    /\ starts' = 0
    /\ workSteps' = 0
    /\ runningOperations' = <<>>
    /\ op' = [j \in Jobs |-> "none"]
    /\ remainingRetries' = [j \in Jobs |-> 0]
    /\ retryTimer' = [j \in Jobs |-> "nil"]
    /\ retryBlocks' = [j \in Jobs |-> 0]
    /\ UNCHANGED <<records, completions, reachable>>

\* Mutant: the records of a dead process are not made ready again.
LeaveRunning(s) == s

saveRunningAsReady(s) == IF s = "running" THEN "ready" ELSE s

\* restartOldJobs, the first half of defaultSetup.
RestartOldJobs ==
    /\ setup = "launched"
    /\ status' = [j \in Jobs |-> saveRunningAsReady(status[j])]
    /\ setup' = "restarted"
    /\ UNCHANGED <<failureCount, lastId, starts, workSteps, runningOperations,
                   operations, history>>

\* Mutant: jobs added before the queue was set up are not looked for.
FinishSetupWithoutStart ==
    /\ setup = "restarted"
    /\ setup' = "done"
    /\ UNCHANGED <<records, starts, workSteps, runningOperations, operations, history>>

\* The .done block of defaultSetup, on the main queue.
FinishSetup ==
    /\ setup = "restarted"
    /\ setup' = "done"
    /\ starts' = starts + 1
    /\ UNCHANGED <<records, workSteps, runningOperations, operations, history>>

------------------------------------------------------------------------------
\* Adding jobs and turning records into operations

add ==
    /\ lastId < MaxJobs
    /\ lastId' = lastId + 1
    /\ status' = [status EXCEPT ![lastId + 1] = "ready"]
    /\ starts' = starts + 1
    /\ UNCHANGED <<failureCount, setup, workSteps, runningOperations, operations, history>>

\* The block of startWorkWhenAppIsReady, once the app is ready.
startWork ==
    /\ starts > 0
    /\ starts' = starts - 1
    /\ workSteps' = IF isSetup THEN workSteps + 1 ELSE workSteps
    /\ UNCHANGED <<records, setup, runningOperations, operations, history>>

\* Mutant: the records are not read in the order of their ids.
IsAnyReady(j) == status[j] = "ready"

\* AnyJobRecordFinder.getNextReady: the ready record with the least id.
IsNextReady(j) ==
    /\ status[j] = "ready"
    /\ \A k \in Jobs : status[k] = "ready" => j <= k

\* Mutant: every launch grants all the retries again.
RetriesLeftAnew(failures) == MaxRetries

RetriesLeft(failures) ==
    IF MaxRetries > failures THEN MaxRetries - failures ELSE 0

saveAsStarted(j) == status' = [status EXCEPT ![j] = "running"]

WorkStepStarts(j) ==
    /\ workSteps > 0
    /\ isSetup
    /\ IsNextReady(j)
    /\ saveAsStarted(j)
    /\ op' = [op EXCEPT ![j] = "queued"]
    /\ remainingRetries' = [remainingRetries EXCEPT ![j] = RetriesLeft(failureCount[j])]
    /\ runningOperations' = Append(runningOperations, j)
    /\ UNCHANGED <<failureCount, lastId, setup, starts, workSteps, retryTimer,
                   retryBlocks, history>>

\* buildOperation throws, and the record ends as obsolete or permanently failed.
WorkStepRejects(j) ==
    /\ workSteps > 0
    /\ isSetup
    /\ IsNextReady(j)
    /\ \E final \in {"obsolete", "permanentlyFailed"} :
            status' = [status EXCEPT ![j] = final]
    /\ UNCHANGED <<failureCount, lastId, queue, operations, history>>

WorkStepIdle ==
    /\ workSteps > 0
    /\ isSetup
    /\ \A j \in Jobs : status[j] # "ready"
    /\ workSteps' = workSteps - 1
    /\ UNCHANGED <<records, setup, starts, runningOperations, operations, history>>

workStep ==
    \/ WorkStepIdle
    \/ \E j \in Jobs : WorkStepStarts(j) \/ WorkStepRejects(j)

------------------------------------------------------------------------------
\* The life of an operation

\* Mutant: maxConcurrentOperationCount is not 1.
QueueIsConcurrent(j) == TRUE

\* The operation queues are serial.
QueueIsFree(j) == \A k \in Jobs : QueueOf[k] = QueueOf[j] => ~Executing(k)

\* The operation queue holds its operations in the order they were added.
IsFirstQueued(j) ==
    \A m, n \in DOMAIN runningOperations :
        /\ m < n
        /\ runningOperations[n] = j
        /\ QueueOf[runningOperations[m]] = QueueOf[j]
        => op[runningOperations[m]] # "queued"

\* The operation queue starts its first operation when none executes.
start(j) ==
    /\ op[j] = "queued"
    /\ QueueIsFree(j)
    /\ IsFirstQueued(j)
    /\ op' = [op EXCEPT ![j] = "running"]
    /\ UNCHANGED <<records, queue, remainingRetries, retryTimer, retryBlocks, history>>

RunSucceeds(j) ==
    /\ op[j] = "running"
    /\ op' = [op EXCEPT ![j] = "reportingSuccess"]
    /\ completions' = [completions EXCEPT ![j] = @ + 1]
    /\ UNCHANGED <<records, queue, remainingRetries, retryTimer, retryBlocks,
                   launches, reachable>>

RunFails(j) ==
    /\ op[j] = "running"
    /\ \E outcome \in {"reportingRetryable", "reportingUnretryable"} :
            op' = [op EXCEPT ![j] = outcome]
    /\ UNCHANGED <<records, queue, remainingRetries, retryTimer, retryBlocks, history>>

\* AtomicArray.remove
Without(s, x) ==
    IF \E i \in DOMAIN s : s[i] = x
    THEN LET i == CHOOSE i \in DOMAIN s : s[i] = x
         IN  [k \in 1 .. Len(s) - 1 |-> IF k < i THEN s[k] ELSE s[k + 1]]
    ELSE s

\* reportSuccess: didSucceed hands over to durableOperationDidSucceed.
durableOperationDidSucceed(j) ==
    /\ op[j] = "reportingSuccess"
    /\ op' = [op EXCEPT ![j] = "complete"]
    /\ runningOperations' = Without(runningOperations, j)
    /\ status' = [status EXCEPT ![j] = "removed"]
    /\ UNCHANGED <<failureCount, lastId, setup, starts, workSteps, remainingRetries,
                   retryTimer, retryBlocks, history>>

\* SSKJobRecord.addFailure, and what durableOperation(didReportError:) does when
\* it throws.
addFailure(j) ==
    IF status[j] = "running"
    THEN /\ failureCount' = [failureCount EXCEPT ![j] = @ + 1]
         /\ UNCHANGED status
    ELSE /\ status' = [status EXCEPT ![j] = "permanentlyFailed"]
         /\ UNCHANGED failureCount

\* reportError: the transaction of didReportError, then the decision to retry.
reportError(j) ==
    /\ op[j] \in {"reportingRetryable", "reportingUnretryable"}
    /\ addFailure(j)
    /\ IF op[j] = "reportingUnretryable" \/ remainingRetries[j] = 0
       THEN /\ op' = [op EXCEPT ![j] = "failing"]
            /\ UNCHANGED remainingRetries
       ELSE /\ op' = [op EXCEPT ![j] = "scheduling"]
            /\ remainingRetries' = [remainingRetries EXCEPT ![j] = @ - 1]
    /\ UNCHANGED <<lastId, queue, retryTimer, retryBlocks, history>>

\* failOperationWithError: didFail hands over to durableOperation(didFailWithError:).
durableOperationDidFail(j) ==
    /\ op[j] = "failing"
    /\ op' = [op EXCEPT ![j] = "complete"]
    /\ runningOperations' = Without(runningOperations, j)
    /\ status' = [status EXCEPT ![j] = "permanentlyFailed"]
    /\ UNCHANGED <<failureCount, lastId, setup, starts, workSteps, remainingRetries,
                   retryTimer, retryBlocks, history>>

markAsComplete(j) ==
    /\ op[j] = "complete"
    /\ op' = [op EXCEPT ![j] = "finished"]
    /\ UNCHANGED <<records, queue, remainingRetries, retryTimer, retryBlocks, history>>

\* The main-queue block of reportError.
ScheduleRetry(j) ==
    /\ op[j] = "scheduling"
    /\ op' = [op EXCEPT ![j] = "waiting"]
    /\ retryTimer' = [retryTimer EXCEPT ![j] = "armed"]
    /\ UNCHANGED <<records, queue, remainingRetries, retryBlocks, history>>

\* The timer calls runAnyQueuedRetry, which dispatches its block.
TimerFires(j) ==
    /\ retryTimer[j] = "armed"
    /\ retryTimer' = [retryTimer EXCEPT ![j] = "fired"]
    /\ retryBlocks' = [retryBlocks EXCEPT ![j] = @ + 1]
    /\ UNCHANGED <<records, queue, op, remainingRetries, history>>

\* Mutant: the timer that was used stays set.
LeaveTimer(j) == UNCHANGED retryTimer

takeTimer(j) == retryTimer' = [retryTimer EXCEPT ![j] = "nil"]

\* The block of runAnyQueuedRetry.
runAnyQueuedRetry(j) ==
    /\ retryBlocks[j] > 0
    /\ retryBlocks' = [retryBlocks EXCEPT ![j] = @ - 1]
    /\ takeTimer(j)
    /\ op' = IF retryTimer[j] # "nil" THEN [op EXCEPT ![j] = "rerunning"] ELSE op
    /\ UNCHANGED <<records, queue, remainingRetries, history>>

Rerun(j) ==
    /\ op[j] = "rerunning"
    /\ op' = [op EXCEPT ![j] = "running"]
    /\ UNCHANGED <<records, queue, remainingRetries, retryTimer, retryBlocks, history>>

\* The observer defaultSetup installs, and the queue's runAnyQueuedRetry.
becameReachable ==
    /\ RequiresInternet
    /\ isSetup
    /\ reachable < MaxReachable
    /\ reachable' = reachable + 1
    /\ retryBlocks' =
            IF runningOperations = <<>> THEN retryBlocks
            ELSE [retryBlocks EXCEPT ![Head(runningOperations)] = @ + 1]
    /\ UNCHANGED <<records, queue, op, remainingRetries, retryTimer, completions, launches>>

------------------------------------------------------------------------------

Operation(j) ==
    \/ start(j)
    \/ RunSucceeds(j) \/ durableOperationDidSucceed(j)
    \/ RunFails(j) \/ reportError(j) \/ durableOperationDidFail(j)
    \/ markAsComplete(j)
    \/ ScheduleRetry(j) \/ TimerFires(j) \/ runAnyQueuedRetry(j) \/ Rerun(j)

Next ==
    \/ Relaunch \/ RestartOldJobs \/ FinishSetup
    \/ add \/ startWork \/ workStep
    \/ becameReachable
    \/ \E j \in Jobs : Operation(j)

\* Dispatch queues run every block, operation queues every operation, timers
\* fire, and run() always ends in one of its callbacks.  Nobody has to add a job.
Fairness ==
    /\ WF_vars(RestartOldJobs)
    /\ WF_vars(FinishSetup)
    /\ WF_vars(startWork)
    /\ WF_vars(workStep)
    /\ \A j \in Jobs : WF_vars(Operation(j))

Spec == Init /\ [][Next]_vars /\ Fairness

------------------------------------------------------------------------------
(***************************************************************************)
(* Properties                                                              *)
(***************************************************************************)

Terminal == {"permanentlyFailed", "obsolete", "removed"}

\* Once the queue is set up, the records marked running, the operations that are
\* to settle them and the entries of runningOperations are the same jobs: no
\* record is left running with nobody to run it, and none is run behind the
\* queue's back.  Between a launch and restartOldJobs nothing is in flight.
RecordsMatchOperations ==
    IF isSetup
    THEN \A j \in Jobs :
            /\ status[j] = "running" <=> Live(j)
            /\ Live(j) <=> \E i \in DOMAIN runningOperations : runningOperations[i] = j
    ELSE /\ runningOperations = <<>>
         /\ \A j \in Jobs : ~Live(j)

\* While a job executes, no earlier job of its queue is still to be settled: the
\* order in which jobs were added survives retries, restarts and the addition of
\* jobs at any moment.
InOrder ==
    \A j, k \in Jobs :
        Executing(j) /\ k < j /\ QueueOf[k] = QueueOf[j] => status[k] \in Terminal

\* The retries an operation has left in memory are those the failure count in the
\* database leaves it, so that a restart neither grants nor takes away attempts.
RetryBudget ==
    \A j \in Jobs :
        op[j] \in {"queued", "running", "reportingSuccess", "reportingRetryable",
                   "reportingUnretryable", "scheduling", "waiting", "rerunning"}
        => remainingRetries[j] = RetriesLeft(failureCount[j])

\* A job fails at most once more often than it may be retried, and once more for
\* every time the process dies between recording a failure and giving up.
AttemptsBounded == \A j \in Jobs : failureCount[j] <= MaxRetries + launches

\* A ready record never waits without a pending call that will find it: every path
\* that makes a record ready also leaves a call of workStep behind, once set up.
NoLostWakeup ==
    isSetup /\ (\E j \in Jobs : status[j] = "ready") => starts + workSteps > 0

\* The assertion of reportError that no retry timer is set when one is about to be
\* set, and more: a timer exists exactly while the operation waits, so a timer and
\* a reachability change never get the same operation to run twice at a time.
OneRunAtATime ==
    \A j \in Jobs : retryTimer[j] # "nil" <=> op[j] = "waiting"

\* A job's work is carried out at most once in the life of a process; only a death
\* between the work and the transaction that removes the record repeats it.
WorkDoneOncePerLaunch == \A j \in Jobs : completions[j] <= launches

\* An operation is created only for a job that has none in this process.
OneOperationPerJob ==
    [][\A j \in Jobs : op[j] # "none" => op'[j] # "queued" \/ op[j] = "queued"]_vars

\* Every job that was added is settled in the end.
EveryJobSettles ==
    \A j \in Jobs : status[j] \in {"ready", "running"} ~> status[j] \in Terminal

\* The queue implements the abstract one: transactions, operations, retries and
\* restarts are invisible to whoever adds jobs.
Settled(s) ==
    CASE s \in {"ready", "running"} -> "pending"
      [] s = "removed" -> "done"
      [] s = "permanentlyFailed" -> "failed"
      [] OTHER -> s

jobView == [j \in Jobs |-> Settled(status[j])]

performedView == [j \in Jobs |-> completions[j] > 0]

Abstract == INSTANCE OrderedJobs WITH job <- jobView, performed <- performedView

ImplementsOrderedJobs == Abstract!Spec
==============================================================================
