---------------------------- MODULE JobQueueProofs ---------------------------
(***************************************************************************)
(* Theorems about JobQueue, for every number of jobs, assignment of jobs   *)
(* to serial queues, number of retries, launches and reachability changes. *)
(***************************************************************************)
EXTENDS JobQueue, TLAPS

------------------------------------------------------------------------------
(***************************************************************************)
(* The list of running operations                                          *)
(***************************************************************************)

Increasing(s) == \A m, n \in DOMAIN s : m < n => s[m] < s[n]

Occurs(s, x) == \E i \in DOMAIN s : s[i] = x

\* Removing an element from a sequence gives a sequence over the same set.
LEMMA WithoutType ==
    ASSUME NEW S, NEW s \in Seq(S), NEW x
    PROVE  Without(s, x) \in Seq(S)
<1>1. CASE Occurs(s, x)
  <2> DEFINE i == CHOOSE i \in DOMAIN s : s[i] = x
  <2>1. i \in DOMAIN s
    BY <1>1 DEF Occurs
  <2>2. Without(s, x) = [k \in 1 .. Len(s) - 1 |-> IF k < i THEN s[k] ELSE s[k + 1]]
    BY <1>1 DEF Without, Occurs
  <2> HIDE DEF i
  <2>3. Len(s) \in Nat /\ i \in 1 .. Len(s) /\ Len(s) - 1 \in Nat
    BY <2>1
  <2>4. \A k \in 1 .. Len(s) - 1 : s[k] \in S /\ s[k + 1] \in S
    BY <2>3
  <2> QED
    BY <2>2, <2>3, <2>4
<1>2. CASE ~Occurs(s, x)
  BY <1>2 DEF Without, Occurs
<1> QED
  BY <1>1, <1>2

\* Removing an element of an increasing sequence removes that element only.
LEMMA WithoutIncreasing ==
    ASSUME NEW s \in Seq(Jobs), Increasing(s), NEW x
    PROVE  /\ Increasing(Without(s, x))
           /\ \A y : Occurs(Without(s, x), y) <=> y # x /\ Occurs(s, y)
<1>1. CASE Occurs(s, x)
  <2> DEFINE i == CHOOSE i \in DOMAIN s : s[i] = x
             t == [k \in 1 .. Len(s) - 1 |-> IF k < i THEN s[k] ELSE s[k + 1]]
  <2>1. i \in DOMAIN s /\ s[i] = x
    BY <1>1 DEF Occurs
  <2>2. Without(s, x) = t
    BY <1>1 DEF Without, Occurs
  <2> HIDE DEF i
  <2>3. Len(s) \in Nat /\ DOMAIN s = 1 .. Len(s) /\ DOMAIN t = 1 .. Len(s) - 1
    OBVIOUS
  <2>4. \A k \in DOMAIN s : s[k] \in Nat
    <3>1. \A k \in DOMAIN s : s[k] \in Jobs
      OBVIOUS
    <3> QED
      BY <3>1, BoundsAssumption DEF Jobs
  <2>5. \A k \in DOMAIN t : t[k] = IF k < i THEN s[k] ELSE s[k + 1]
    OBVIOUS
  <2> HIDE DEF t
  <2>6. Increasing(t)
    BY <2>1, <2>3, <2>4, <2>5 DEF Increasing
  <2>7. ASSUME NEW y, Occurs(t, y) PROVE y # x /\ Occurs(s, y)
    <3>1. PICK k \in DOMAIN t : t[k] = y
      BY <2>7 DEF Occurs
    <3>2. CASE k < i
      BY <3>1, <3>2, <2>1, <2>3, <2>4, <2>5 DEF Increasing, Occurs
    <3>3. CASE ~(k < i)
      <4>1. k + 1 \in DOMAIN s /\ i < k + 1 /\ s[k + 1] = y
        BY <3>1, <3>3, <2>1, <2>3, <2>5
      <4> QED
        BY <4>1, <2>1, <2>4 DEF Increasing, Occurs
    <3> QED
      BY <3>2, <3>3
  <2>8. ASSUME NEW y, y # x, Occurs(s, y) PROVE Occurs(t, y)
    <3>1. PICK k \in DOMAIN s : s[k] = y
      BY <2>8 DEF Occurs
    <3>2. CASE k < i
      BY <3>1, <3>2, <2>1, <2>3, <2>5 DEF Occurs
    <3>3. CASE ~(k < i)
      <4>1. k # i
        BY <3>1, <2>1, <2>8
      <4>2. k - 1 \in DOMAIN t /\ ~(k - 1 < i) /\ (k - 1) + 1 = k
        BY <4>1, <3>3, <2>1, <2>3, <3>1
      <4>3. t[k - 1] = s[(k - 1) + 1]
        BY <4>2, <2>5
      <4> QED
        BY <4>2, <4>3, <3>1 DEF Occurs
    <3> QED
      BY <3>2, <3>3
  <2> QED
    BY <2>2, <2>6, <2>7, <2>8
<1>2. CASE ~Occurs(s, x)
  BY <1>2 DEF Without, Occurs
<1> QED
  BY <1>1, <1>2

\* Appending a greater number to an increasing sequence.
LEMMA AppendIncreasing ==
    ASSUME NEW s \in Seq(Jobs), Increasing(s), NEW x \in Jobs,
           \A y \in Jobs : Occurs(s, y) => y < x
    PROVE  /\ Increasing(Append(s, x))
           /\ \A y : Occurs(Append(s, x), y) <=> y = x \/ Occurs(s, y)
<1> DEFINE t == Append(s, x)
<1>1. /\ Len(s) \in Nat
      /\ DOMAIN s = 1 .. Len(s)
      /\ DOMAIN t = 1 .. Len(s) + 1
      /\ t[Len(s) + 1] = x
      /\ \A k \in DOMAIN s : t[k] = s[k] /\ s[k] \in Jobs
  OBVIOUS
<1> HIDE DEF t
<1>2. \A k \in DOMAIN s : s[k] < x
  BY <1>1 DEF Occurs
<1>3. Increasing(t)
  BY <1>1, <1>2 DEF Increasing
<1>4. \A y : Occurs(t, y) <=> y = x \/ Occurs(s, y)
  BY <1>1 DEF Occurs
<1> QED
  BY <1>3, <1>4 DEF t

------------------------------------------------------------------------------
(***************************************************************************)
(* Types                                                                   *)
(***************************************************************************)

LEMMA RetriesLeftType == \A n \in Nat : RetriesLeft(n) \in Nat
BY MaxRetriesAssumption DEF RetriesLeft

LEMMA OperationType ==
    ASSUME TypeOK, NEW j \in Jobs, Operation(j)
    PROVE  TypeOK'
<1> USE DEF TypeOK, Phases, records, queue, operations, history
<1>1. CASE start(j)
  BY <1>1 DEF start
<1>2. CASE RunSucceeds(j)
  BY <1>2 DEF RunSucceeds
<1>3. CASE durableOperationDidSucceed(j)
  <2>1. runningOperations' \in Seq(Jobs)
    BY <1>3, WithoutType DEF durableOperationDidSucceed
  <2> QED
    BY <1>3, <2>1 DEF durableOperationDidSucceed, Statuses
<1>4. CASE RunFails(j)
  BY <1>4 DEF RunFails
<1>5. CASE reportError(j)
  <2>1. status' \in [Jobs -> Statuses] /\ failureCount' \in [Jobs -> Nat]
    <3>1. CASE status[j] = "running"
      <4>1. status' = status /\ failureCount' = [failureCount EXCEPT ![j] = @ + 1]
        BY <1>5, <3>1 DEF reportError, addFailure
      <4> QED
        BY <4>1
    <3>2. CASE status[j] # "running"
      BY <1>5, <3>2 DEF reportError, addFailure, Statuses
    <3> QED
      BY <3>1, <3>2
  <2>2. op' \in [Jobs -> Phases] /\ remainingRetries' \in [Jobs -> Nat]
    <3>1. CASE op[j] = "reportingUnretryable" \/ remainingRetries[j] = 0
      BY <1>5, <3>1 DEF reportError
    <3>2. CASE ~(op[j] = "reportingUnretryable" \/ remainingRetries[j] = 0)
      <4>1. remainingRetries[j] - 1 \in Nat
        BY <3>2
      <4>2. /\ op' = [op EXCEPT ![j] = "scheduling"]
            /\ remainingRetries' = [remainingRetries EXCEPT ![j] = @ - 1]
        BY <1>5, <3>2 DEF reportError
      <4> QED
        BY <4>1, <4>2
    <3> QED
      BY <3>1, <3>2
  <2> QED
    BY <1>5, <2>1, <2>2 DEF reportError
<1>6. CASE durableOperationDidFail(j)
  <2>1. runningOperations' \in Seq(Jobs)
    BY <1>6, WithoutType DEF durableOperationDidFail
  <2> QED
    BY <1>6, <2>1 DEF durableOperationDidFail, Statuses
<1>7. CASE markAsComplete(j)
  BY <1>7 DEF markAsComplete
<1>8. CASE ScheduleRetry(j)
  BY <1>8 DEF ScheduleRetry
<1>9. CASE TimerFires(j)
  BY <1>9 DEF TimerFires
<1>10. CASE runAnyQueuedRetry(j)
  BY <1>10 DEF runAnyQueuedRetry, takeTimer
<1>11. CASE Rerun(j)
  BY <1>11 DEF Rerun
<1> QED
  BY <1>1, <1>2, <1>3, <1>4, <1>5, <1>6, <1>7, <1>8, <1>9, <1>10, <1>11 DEF Operation

\* An operation begins, whatever its operation queue has chosen it by.
Begins(j) ==
    /\ op[j] = "queued"
    /\ op' = [op EXCEPT ![j] = "running"]
    /\ UNCHANGED <<records, queue, remainingRetries, retryTimer, retryBlocks, history>>

OperationGoesOn(j) ==
    \/ RunSucceeds(j) \/ durableOperationDidSucceed(j)
    \/ RunFails(j) \/ reportError(j) \/ durableOperationDidFail(j)
    \/ markAsComplete(j)
    \/ ScheduleRetry(j) \/ TimerFires(j) \/ runAnyQueuedRetry(j) \/ Rerun(j)

\* Every step but the beginning of an operation.
QueueStep ==
    \/ Relaunch \/ RestartOldJobs \/ FinishSetup
    \/ add \/ startWork \/ workStep
    \/ becameReachable
    \/ \E j \in Jobs : OperationGoesOn(j)
    \/ UNCHANGED vars

\* The steps that are left when the operation queues choose freely.
FreeStep == QueueStep \/ \E j \in Jobs : Begins(j)

LEMMA StepsOfTheQueue ==
    ASSUME [Next]_vars
    PROVE  FreeStep /\ (QueueStep \/ \E j \in Jobs : start(j))
BY DEF Next, Operation, OperationGoesOn, start, Begins, QueueStep, FreeStep

LEMMA TypeInit == Init => TypeOK
BY BoundsAssumption DEF Init, TypeOK, Statuses, Phases, Jobs

LEMMA TypeStep ==
    ASSUME TypeOK, FreeStep
    PROVE  TypeOK'
<1> USE DEF TypeOK, Phases, Statuses, records, queue, operations, history
<1>1. CASE Relaunch
  BY <1>1 DEF Relaunch
<1>2. CASE RestartOldJobs
  BY <1>2 DEF RestartOldJobs, saveRunningAsReady
<1>3. CASE FinishSetup
  BY <1>3 DEF FinishSetup
<1>4. CASE add
  <2>1. lastId + 1 \in Jobs /\ lastId' \in 0 .. MaxJobs
    BY <1>4, BoundsAssumption DEF add, Jobs
  <2>2. status' \in [Jobs -> Statuses]
    BY <1>4 DEF add
  <2> QED
    BY <1>4, <2>1, <2>2 DEF add
<1>5. CASE startWork
  BY <1>5 DEF startWork
<1>6. CASE WorkStepIdle
  BY <1>6 DEF WorkStepIdle
<1>7. ASSUME NEW j \in Jobs, WorkStepStarts(j)
      PROVE  TypeOK'
  <2>1. runningOperations' \in Seq(Jobs)
    BY <1>7 DEF WorkStepStarts
  <2>2. remainingRetries' \in [Jobs -> Nat]
    BY <1>7, RetriesLeftType DEF WorkStepStarts
  <2> QED
    BY <1>7, <2>1, <2>2 DEF WorkStepStarts, saveAsStarted
<1>8. ASSUME NEW j \in Jobs, WorkStepRejects(j)
      PROVE  TypeOK'
  BY <1>8 DEF WorkStepRejects
<1>9. CASE becameReachable
  BY <1>9 DEF becameReachable
<1>10. ASSUME NEW j \in Jobs, OperationGoesOn(j)
       PROVE  TypeOK'
  BY <1>10, OperationType DEF OperationGoesOn, Operation
<1>11. CASE UNCHANGED vars
  BY <1>11 DEF vars
<1>12. ASSUME NEW j \in Jobs, Begins(j)
       PROVE  TypeOK'
  BY <1>12 DEF Begins
<1> QED
  BY <1>1, <1>2, <1>3, <1>4, <1>5, <1>6, <1>7, <1>8, <1>9, <1>10, <1>11, <1>12
     DEF FreeStep, QueueStep, workStep

\* Every variable keeps its type: the counters stay natural numbers although they
\* are decremented, and only jobs are ever in runningOperations.
THEOREM TypeCorrect == Spec => []TypeOK
<1>1. TypeOK /\ [Next]_vars => TypeOK'
  BY StepsOfTheQueue, TypeStep
<1> QED
  BY <1>1, TypeInit, PTL DEF Spec

------------------------------------------------------------------------------
(***************************************************************************)
(* The inductive invariant of the bookkeeping.  RecordsMatchOperations and *)
(* InOrder do not survive a step on their own: which job workStep picks    *)
(* next depends on the order of the ids, and which operation a queue       *)
(* starts on the order of runningOperations.                               *)
(***************************************************************************)

\* Before the end of defaultSetup this process has no operation.
NothingBeforeSetup ==
    setup # "done" =>
        /\ workSteps = 0
        /\ runningOperations = <<>>
        /\ \A j \in Jobs : op[j] = "none"
        /\ setup = "restarted" => \A j \in Jobs : status[j] # "running"

\* The ids given out are those of the records.
IdsGivenOut == \A j \in Jobs : status[j] = "none" <=> j > lastId

Registered ==
    setup = "done" => \A j \in Jobs :
        /\ status[j] = "running" <=> Live(j)
        /\ Live(j) <=> Occurs(runningOperations, j)

CompleteIsTerminal ==
    \A j \in Jobs : op[j] \in {"complete", "finished"} => status[j] \in Terminal

\* Once a job has an operation, no earlier job is left to be picked.
OldestFirst ==
    \A j, k \in Jobs : op[j] # "none" /\ k < j => status[k] # "ready"

Bookkeeping ==
    /\ NothingBeforeSetup
    /\ IdsGivenOut
    /\ Registered
    /\ CompleteIsTerminal
    /\ OldestFirst
    /\ Increasing(runningOperations)
    /\ OneRunAtATime

\* A step inside the life of an operation: it touches no record's status and no
\* entry of the queue, and what executes goes on executing.
Quiet ==
    /\ UNCHANGED <<status, lastId, setup, workSteps, runningOperations>>
    /\ \A k \in Jobs :
            \/ op'[k] = op[k]
            \/ Live(k) /\ Executing(k) /\ Live(k)' /\ Executing(k)'
    /\ OneRunAtATime'

LEMMA QuietKeepsBookkeeping ==
    ASSUME TypeOK, Bookkeeping, Quiet
    PROVE  Bookkeeping'
<1> USE DEF Bookkeeping, Quiet
<1>1. \A k \in Jobs :
        /\ Live(k)' <=> Live(k)
        /\ Executing(k)' <=> Executing(k)
        /\ op'[k] = "none" <=> op[k] = "none"
        /\ op'[k] \in {"complete", "finished"} => op'[k] = op[k]
  BY DEF Live, Executing
<1>2. NothingBeforeSetup' /\ IdsGivenOut' /\ CompleteIsTerminal' /\ OldestFirst'
  BY <1>1 DEF NothingBeforeSetup, IdsGivenOut, CompleteIsTerminal, OldestFirst
<1>3. Registered'
  BY <1>1 DEF Registered, Occurs
<1>4. Increasing(runningOperations)'
  BY DEF Increasing
<1> QED
  BY <1>2, <1>3, <1>4

\* An operation belongs to a record that is running, or has just settled it.
LEMMA OperationHasRecord ==
    ASSUME TypeOK, Bookkeeping, NEW j \in Jobs, op[j] # "none"
    PROVE  setup = "done" /\ j <= lastId /\ (Live(j) => status[j] = "running")
BY DEF TypeOK, Bookkeeping, NothingBeforeSetup, IdsGivenOut, Registered,
       CompleteIsTerminal, Live, Terminal, Jobs

LEMMA OperationIsQuiet ==
    ASSUME TypeOK, Bookkeeping, NEW j \in Jobs,
           \/ RunSucceeds(j) \/ RunFails(j) \/ reportError(j)
           \/ ScheduleRetry(j) \/ TimerFires(j) \/ runAnyQueuedRetry(j) \/ Rerun(j)
    PROVE  Quiet
<1> USE DEF TypeOK, Bookkeeping, OneRunAtATime, Quiet, Live, Executing,
            records, queue, operations, history
<1>1. CASE RunSucceeds(j)
  BY <1>1 DEF RunSucceeds
<1>2. CASE RunFails(j)
  BY <1>2 DEF RunFails
<1>3. CASE reportError(j)
  <2>1. status[j] = "running"
    BY <1>3, OperationHasRecord DEF reportError
  <2>2. UNCHANGED status
    BY <1>3, <2>1 DEF reportError, addFailure
  <2>3. PICK p \in {"failing", "scheduling"} : op' = [op EXCEPT ![j] = p]
    BY <1>3 DEF reportError
  <2> QED
    BY <1>3, <2>2, <2>3 DEF reportError
<1>4. CASE ScheduleRetry(j)
  BY <1>4 DEF ScheduleRetry
<1>5. CASE TimerFires(j)
  BY <1>5 DEF TimerFires
<1>6. CASE runAnyQueuedRetry(j)
  <2>1. CASE retryTimer[j] # "nil"
    BY <1>6, <2>1 DEF runAnyQueuedRetry, takeTimer
  <2>2. CASE retryTimer[j] = "nil"
    BY <1>6, <2>2 DEF runAnyQueuedRetry, takeTimer
  <2> QED
    BY <2>1, <2>2
<1>7. CASE Rerun(j)
  BY <1>7 DEF Rerun
<1> QED
  BY <1>1, <1>2, <1>3, <1>4, <1>5, <1>6, <1>7

\* Settling removes one operation from the queue and makes its record terminal.
LEMMA SettlingKeepsBookkeeping ==
    ASSUME TypeOK, Bookkeeping, NEW j \in Jobs,
           durableOperationDidSucceed(j) \/ durableOperationDidFail(j)
    PROVE  Bookkeeping'
<1> USE DEF Bookkeeping
<1>1. PICK final \in {"removed", "permanentlyFailed"} :
         status' = [status EXCEPT ![j] = final]
  BY DEF durableOperationDidSucceed, durableOperationDidFail
<1>2. /\ op[j] \in {"reportingSuccess", "failing"}
      /\ op' = [op EXCEPT ![j] = "complete"]
      /\ runningOperations' = Without(runningOperations, j)
      /\ UNCHANGED <<lastId, setup, workSteps, retryTimer>>
  BY DEF durableOperationDidSucceed, durableOperationDidFail
<1>3. /\ Live(j) /\ ~Live(j)' /\ Executing(j) /\ Executing(j)'
      /\ status[j] = "running" /\ setup = "done" /\ j <= lastId
      /\ status'[j] \in Terminal
  BY <1>1, <1>2, OperationHasRecord DEF TypeOK, Live, Executing, Terminal
<1>4. \A k \in Jobs : k # j => /\ op'[k] = op[k] /\ status'[k] = status[k]
                               /\ Live(k)' <=> Live(k)
                               /\ Executing(k)' <=> Executing(k)
  BY <1>1, <1>2 DEF TypeOK, Live, Executing
<1>5. /\ Increasing(runningOperations')
      /\ \A y : Occurs(runningOperations', y) <=> y # j /\ Occurs(runningOperations, y)
  BY <1>2, WithoutIncreasing DEF TypeOK
<1>6. NothingBeforeSetup' /\ IdsGivenOut' /\ CompleteIsTerminal'
  BY <1>2, <1>3, <1>4 DEF NothingBeforeSetup, IdsGivenOut, CompleteIsTerminal, Terminal, Jobs
<1>7. Registered'
  BY <1>2, <1>3, <1>4, <1>5 DEF Registered, Terminal
<1>8. OldestFirst'
  BY <1>2, <1>3, <1>4 DEF OldestFirst, Terminal, Live
<1>9. OneRunAtATime'
  BY <1>2, <1>4 DEF OneRunAtATime, TypeOK
<1> QED
  BY <1>5, <1>6, <1>7, <1>8, <1>9

LEMMA CompletingKeepsBookkeeping ==
    ASSUME TypeOK, Bookkeeping, NEW j \in Jobs, markAsComplete(j)
    PROVE  Bookkeeping'
<1> USE DEF Bookkeeping, records, queue
<1>1. /\ op[j] = "complete"
      /\ op' = [op EXCEPT ![j] = "finished"]
      /\ UNCHANGED <<status, lastId, setup, workSteps, runningOperations, retryTimer>>
  BY DEF markAsComplete
<1>2. \A k \in Jobs : /\ Live(k)' <=> Live(k)
                      /\ Executing(k)' => Executing(k)
                      /\ op'[k] = "none" <=> op[k] = "none"
                      /\ op'[k] = "waiting" <=> op[k] = "waiting"
  BY <1>1 DEF TypeOK, Live, Executing
<1>3. NothingBeforeSetup' /\ IdsGivenOut' /\ OldestFirst' /\ OneRunAtATime'
  BY <1>1, <1>2 DEF NothingBeforeSetup, IdsGivenOut, OldestFirst, OneRunAtATime
<1>4. CompleteIsTerminal'
  BY <1>1 DEF CompleteIsTerminal, TypeOK
<1>5. Registered'
  BY <1>1, <1>2 DEF Registered, Occurs
<1>6. Increasing(runningOperations)'
  BY <1>1 DEF Increasing
<1> QED
  BY <1>3, <1>4, <1>5, <1>6

LEMMA BeginningKeepsBookkeeping ==
    ASSUME TypeOK, Bookkeeping, NEW j \in Jobs, Begins(j)
    PROVE  Bookkeeping'
<1> USE DEF Bookkeeping, records, queue
<1>1. /\ op[j] = "queued"
      /\ op' = [op EXCEPT ![j] = "running"]
      /\ UNCHANGED <<status, lastId, setup, workSteps, runningOperations, retryTimer>>
  BY DEF Begins
<1>2. \A k \in Jobs : /\ Live(k)' <=> Live(k)
                      /\ k # j => (Executing(k)' <=> Executing(k))
                      /\ op'[k] = "none" <=> op[k] = "none"
                      /\ op'[k] = "waiting" <=> op[k] = "waiting"
  BY <1>1 DEF TypeOK, Live, Executing
<1>3. NothingBeforeSetup' /\ IdsGivenOut' /\ OldestFirst' /\ OneRunAtATime'
  BY <1>1, <1>2 DEF NothingBeforeSetup, IdsGivenOut, OldestFirst, OneRunAtATime
<1>4. CompleteIsTerminal'
  BY <1>1 DEF CompleteIsTerminal, TypeOK
<1>5. Registered'
  BY <1>1, <1>2 DEF Registered, Occurs
<1>6. Increasing(runningOperations)'
  BY <1>1 DEF Increasing
<1> QED
  BY <1>3, <1>4, <1>5, <1>6

\* workStep gives an operation to the oldest ready record: every job that has one
\* already is older.
LEMMA WorkStepKeepsBookkeeping ==
    ASSUME TypeOK, Bookkeeping, NEW j \in Jobs, WorkStepStarts(j)
    PROVE  Bookkeeping'
<1> USE DEF Bookkeeping
<1>1. /\ setup = "done" /\ status[j] = "ready"
      /\ status' = [status EXCEPT ![j] = "running"]
      /\ op' = [op EXCEPT ![j] = "queued"]
      /\ runningOperations' = Append(runningOperations, j)
      /\ UNCHANGED <<lastId, setup, workSteps, retryTimer>>
  BY DEF WorkStepStarts, IsNextReady, saveAsStarted, isSetup
<1>2. op[j] = "none" /\ ~Live(j)
  BY <1>1, OperationHasRecord DEF CompleteIsTerminal, Terminal, Live
<1>3. \A k \in Jobs : op[k] # "none" => k < j
  BY <1>1, <1>2, BoundsAssumption DEF OldestFirst, Jobs
<1>4. Live(j)' /\ ~Executing(j)'
  BY <1>1 DEF TypeOK, Live, Executing
<1>5. \A k \in Jobs : k # j => /\ op'[k] = op[k] /\ status'[k] = status[k]
                               /\ Live(k)' <=> Live(k)
                               /\ Executing(k)' <=> Executing(k)
  BY <1>1 DEF TypeOK, Live, Executing
<1>6. \A y \in Jobs : Occurs(runningOperations, y) => y < j
  BY <1>1, <1>3 DEF Registered, Live
<1>7. /\ Increasing(runningOperations')
      /\ \A y : Occurs(runningOperations', y) <=> y = j \/ Occurs(runningOperations, y)
  BY <1>1, <1>6, AppendIncreasing DEF TypeOK
<1>8. NothingBeforeSetup' /\ IdsGivenOut' /\ CompleteIsTerminal'
  BY <1>1, <1>4, <1>5 DEF NothingBeforeSetup, IdsGivenOut, CompleteIsTerminal, Live, TypeOK
<1>9. Registered'
  BY <1>1, <1>4, <1>5, <1>7 DEF Registered, TypeOK
<1>10. OldestFirst'
  <2> SUFFICES ASSUME NEW i \in Jobs, NEW k \in Jobs, op'[i] # "none", k < i
               PROVE  status'[k] # "ready"
    BY DEF OldestFirst
  <2>1. i \in Nat /\ j \in Nat /\ k \in Nat
    BY BoundsAssumption DEF Jobs
  <2>2. k # j
    <3>1. CASE i = j
      BY <3>1, <2>1
    <3>2. CASE i # j
      BY <3>2, <1>3, <1>5, <2>1
    <3> QED
      BY <3>1, <3>2
  <2>3. status[k] # "ready"
    <3>1. CASE i = j
      BY <3>1, <2>1 DEF WorkStepStarts, IsNextReady
    <3>2. CASE i # j
      BY <3>2, <1>5 DEF OldestFirst
    <3> QED
      BY <3>1, <3>2
  <2> QED
    BY <1>5, <2>2, <2>3
<1>11. OneRunAtATime'
  BY <1>1, <1>2, <1>5 DEF OneRunAtATime, TypeOK
<1> QED
  BY <1>7, <1>8, <1>9, <1>10, <1>11

LEMMA FreeStepKeepsBookkeeping ==
    ASSUME TypeOK, Bookkeeping, FreeStep
    PROVE  Bookkeeping'
<1> USE DEF records, queue, operations, history
<1>1. CASE Relaunch
  BY <1>1 DEF Relaunch, Bookkeeping, NothingBeforeSetup, IdsGivenOut, Registered,
              CompleteIsTerminal, OldestFirst, Executing, Increasing,
              OneRunAtATime
<1>2. CASE RestartOldJobs
  <2>1. /\ setup = "launched" /\ setup' = "restarted"
        /\ status' = [k \in Jobs |-> saveRunningAsReady(status[k])]
        /\ UNCHANGED <<lastId, workSteps, runningOperations, op, retryTimer>>
    BY <1>2 DEF RestartOldJobs
  <2>2. runningOperations = <<>> /\ workSteps = 0 /\ \A k \in Jobs : op[k] = "none"
    BY <2>1 DEF Bookkeeping, NothingBeforeSetup
  <2>3. \A k \in Jobs : /\ status'[k] # "running"
                        /\ status'[k] = "none" <=> status[k] = "none"
    BY <2>1 DEF saveRunningAsReady
  <2> QED
    BY <2>1, <2>2, <2>3
       DEF Bookkeeping, NothingBeforeSetup, IdsGivenOut, Registered, CompleteIsTerminal,
           OldestFirst, Executing, Increasing, OneRunAtATime
<1>3. CASE FinishSetup
  <2>1. /\ setup = "restarted" /\ setup' = "done"
        /\ UNCHANGED <<status, lastId, workSteps, runningOperations, op, retryTimer>>
    BY <1>3 DEF FinishSetup
  <2>2. /\ runningOperations = <<>>
        /\ \A k \in Jobs : op[k] = "none" /\ status[k] # "running"
    BY <2>1 DEF Bookkeeping, NothingBeforeSetup
  <2> QED
    BY <2>1, <2>2
       DEF Bookkeeping, NothingBeforeSetup, IdsGivenOut, Registered, Occurs, Live,
           CompleteIsTerminal, OldestFirst, Executing, Increasing,
           OneRunAtATime
<1>4. CASE add
  <2>1. /\ lastId < MaxJobs /\ lastId' = lastId + 1 /\ lastId \in Nat
        /\ status' = [status EXCEPT ![lastId + 1] = "ready"]
        /\ UNCHANGED <<setup, workSteps, runningOperations, op, retryTimer>>
    BY <1>4, BoundsAssumption DEF add, TypeOK
  <2>2. lastId + 1 \in Jobs /\ op[lastId + 1] = "none"
    <3>1. lastId + 1 \in Jobs
      BY <2>1, BoundsAssumption DEF Jobs
    <3> QED
      BY <3>1, <2>1, OperationHasRecord
  <2>3. \A k \in Jobs : k # lastId + 1 => status'[k] = status[k]
    BY <2>1 DEF TypeOK
  <2>4. status'[lastId + 1] = "ready" /\ status[lastId + 1] = "none"
    BY <2>1, <2>2 DEF TypeOK, Bookkeeping, IdsGivenOut
  <2>5. \A k \in Jobs : k \in Nat
    BY BoundsAssumption DEF Jobs
  <2>6. OldestFirst'
    <3> SUFFICES ASSUME NEW j \in Jobs, NEW k \in Jobs, op[j] # "none", k < j
                 PROVE  status'[k] # "ready"
      BY <2>1 DEF OldestFirst
    <3>1. k # lastId + 1
      BY <2>1, <2>5, OperationHasRecord
    <3> QED
      BY <3>1, <2>3 DEF Bookkeeping, OldestFirst
  <2>7. IdsGivenOut'
    BY <2>1, <2>3, <2>4, <2>5 DEF Bookkeeping, IdsGivenOut
  <2>8. Registered'
    BY <2>1, <2>2, <2>3, <2>4 DEF Bookkeeping, Registered, Occurs, Live
  <2>9. CompleteIsTerminal'
    BY <2>1, <2>2, <2>3 DEF Bookkeeping, CompleteIsTerminal
  <2>10. NothingBeforeSetup' /\ Increasing(runningOperations)'
         /\ OneRunAtATime'
    BY <2>1, <2>3, <2>4
       DEF Bookkeeping, NothingBeforeSetup, Executing, Live, Increasing,
           OneRunAtATime
  <2> QED
    BY <2>6, <2>7, <2>8, <2>9, <2>10 DEF Bookkeeping
<1>5. CASE startWork
  <2>1. setup # "done" => workSteps' = workSteps
    BY <1>5 DEF startWork, isSetup
  <2> QED
    BY <1>5, <2>1
       DEF startWork, Bookkeeping, NothingBeforeSetup, IdsGivenOut, Registered, Occurs,
           CompleteIsTerminal, OldestFirst, Executing, Live, Increasing,
           OneRunAtATime
<1>6. CASE WorkStepIdle
  BY <1>6
     DEF WorkStepIdle, isSetup, Bookkeeping, NothingBeforeSetup, IdsGivenOut, Registered,
         Occurs, CompleteIsTerminal, OldestFirst, Executing, Live,
         Increasing, OneRunAtATime
<1>7. ASSUME NEW j \in Jobs, WorkStepStarts(j)
      PROVE  Bookkeeping'
  BY <1>7, WorkStepKeepsBookkeeping
<1>8. ASSUME NEW j \in Jobs, WorkStepRejects(j)
      PROVE  Bookkeeping'
  <2>1. PICK final \in {"obsolete", "permanentlyFailed"} :
            status' = [status EXCEPT ![j] = final]
    BY <1>8 DEF WorkStepRejects
  <2>2. /\ status[j] = "ready" /\ setup = "done"
        /\ UNCHANGED <<lastId, setup, workSteps, runningOperations, op, retryTimer>>
    BY <1>8 DEF WorkStepRejects, IsNextReady, isSetup
  <2>3. op[j] = "none"
    BY <2>2, OperationHasRecord DEF Bookkeeping, CompleteIsTerminal, Terminal, Live
  <2>4. /\ status'[j] = final
        /\ \A k \in Jobs : k # j => status'[k] = status[k]
    BY <2>1 DEF TypeOK
  <2>5. NothingBeforeSetup' /\ IdsGivenOut' /\ CompleteIsTerminal' /\ OldestFirst'
    BY <2>2, <2>3, <2>4
       DEF Bookkeeping, NothingBeforeSetup, IdsGivenOut, CompleteIsTerminal, OldestFirst,
           Terminal
  <2>6. Registered'
    BY <2>2, <2>3, <2>4 DEF Bookkeeping, Registered, Occurs, Live
  <2>7. Increasing(runningOperations)' /\ OneRunAtATime'
    BY <2>2 DEF Bookkeeping, Executing, Live, Increasing, OneRunAtATime
  <2> QED
    BY <2>5, <2>6, <2>7 DEF Bookkeeping
<1>9. CASE becameReachable
  BY <1>9
     DEF becameReachable, Bookkeeping, NothingBeforeSetup, IdsGivenOut, Registered,
         Occurs, CompleteIsTerminal, OldestFirst, Executing, Live,
         Increasing, OneRunAtATime
<1>10. ASSUME NEW j \in Jobs, OperationGoesOn(j)
       PROVE  Bookkeeping'
  BY <1>10, SettlingKeepsBookkeeping, CompletingKeepsBookkeeping, OperationIsQuiet,
     QuietKeepsBookkeeping DEF OperationGoesOn
<1>11. CASE UNCHANGED vars
  BY <1>11
     DEF vars, Bookkeeping, NothingBeforeSetup, IdsGivenOut, Registered, Occurs,
         CompleteIsTerminal, OldestFirst, Executing, Live, Increasing,
         OneRunAtATime
<1> QED
  BY <1>1, <1>2, <1>3, <1>4, <1>5, <1>6, <1>7, <1>8, <1>9, <1>10, <1>11,
     BeginningKeepsBookkeeping DEF FreeStep, QueueStep, workStep

LEMMA BookkeepingInit == Init => Bookkeeping
BY BoundsAssumption
   DEF Init, Bookkeeping, NothingBeforeSetup, IdsGivenOut, Registered, CompleteIsTerminal,
       OldestFirst, Executing, Increasing, OneRunAtATime, Jobs

\* What memory, the operation queue and the records know of a job agrees, with work steps,
\* adds, setups and operations in any order.
THEOREM BookkeepingInvariant == Spec => []Bookkeeping
<1>1. TypeOK /\ Bookkeeping /\ [Next]_vars => Bookkeeping'
  BY StepsOfTheQueue, FreeStepKeepsBookkeeping
<1> QED
  BY <1>1, BookkeepingInit, TypeCorrect, PTL DEF Spec

\* Only workStep brings a job to life, and only its beginning has it execute.
LEMMA LifeSteps ==
    ASSUME TypeOK, Bookkeeping, NEW k \in Jobs
    PROVE  /\ QueueStep => /\ Live(k)' => Live(k) \/ WorkStepStarts(k)
                           /\ Executing(k)' => Executing(k)
           /\ \A j \in Jobs : Begins(j) => /\ Live(k)' => Live(k)
                                           /\ Executing(k)' => Executing(k) \/ k = j
<1>1. ASSUME NEW j \in Jobs, OperationGoesOn(j)
      PROVE  (Live(k)' => Live(k)) /\ (Executing(k)' => Executing(k))
  <2>1. CASE Quiet
    BY <2>1 DEF Quiet, Live, Executing
  <2>2. CASE durableOperationDidSucceed(j) \/ durableOperationDidFail(j)
    BY <2>2 DEF durableOperationDidSucceed, durableOperationDidFail, TypeOK, Live, Executing
  <2>3. CASE markAsComplete(j)
    BY <2>3 DEF markAsComplete, TypeOK, Live, Executing
  <2> QED
    BY <1>1, <2>1, <2>2, <2>3, OperationIsQuiet DEF OperationGoesOn
<1>2. CASE Relaunch
  BY <1>2 DEF Relaunch, Live, Executing
<1>3. ASSUME NEW j \in Jobs, WorkStepStarts(j)
      PROVE  (Live(k)' => Live(k) \/ WorkStepStarts(k)) /\ (Executing(k)' => Executing(k))
  BY <1>3 DEF WorkStepStarts, TypeOK, Live, Executing
<1>4. CASE UNCHANGED op
  BY <1>4 DEF Live, Executing
<1>5. ASSUME NEW j \in Jobs, Begins(j)
      PROVE  (Live(k)' => Live(k)) /\ (Executing(k)' => Executing(k) \/ k = j)
  BY <1>5 DEF Begins, TypeOK, Live, Executing
<1> QED
  BY <1>1, <1>2, <1>3, <1>4, <1>5
     DEF QueueStep, RestartOldJobs, FinishSetup, add, startWork, workStep, WorkStepIdle,
         WorkStepRejects, becameReachable, vars, operations

\* Since runningOperations is increasing, an operation was added before those of
\* greater jobs.
LEMMA LiveJobsWereAddedInOrder ==
    ASSUME TypeOK, Bookkeeping, NEW j \in Jobs, NEW k \in Jobs, Live(j), Live(k), k < j
    PROVE  \E m, n \in DOMAIN runningOperations :
                m < n /\ runningOperations[m] = k /\ runningOperations[n] = j
<1>1. setup = "done"
  BY OperationHasRecord DEF Live
<1>2. PICK m \in DOMAIN runningOperations : runningOperations[m] = k
  BY <1>1 DEF Bookkeeping, Registered, Occurs
<1>3. PICK n \in DOMAIN runningOperations : runningOperations[n] = j
  BY <1>1 DEF Bookkeeping, Registered, Occurs
<1>4. m \in Nat /\ n \in Nat /\ k \in Nat /\ j \in Nat
  <2>1. DOMAIN runningOperations \subseteq Nat
    <3>1. runningOperations \in Seq(Jobs)
      BY DEF TypeOK
    <3> QED
      BY <3>1
  <2> QED
    BY <1>2, <1>3, <2>1, BoundsAssumption DEF Jobs
<1>5. m < n
  BY <1>2, <1>3, <1>4 DEF Bookkeeping, Increasing
<1> QED
  BY <1>2, <1>3, <1>5

\* A job executes after all earlier ones of its serial queue.
ExecutesInOrder ==
    \A j, k \in Jobs : Executing(j) /\ k < j /\ QueueOf[k] = QueueOf[j] => ~Live(k)

LEMMA OrderStep == TypeOK /\ Bookkeeping /\ ExecutesInOrder /\ [Next]_vars => ExecutesInOrder'
<1> SUFFICES ASSUME TypeOK, Bookkeeping, ExecutesInOrder, [Next]_vars,
                    NEW j \in Jobs, NEW k \in Jobs,
                    Executing(j)', k < j, QueueOf[k] = QueueOf[j], Live(k)'
             PROVE  FALSE
  BY DEF ExecutesInOrder
<1>1. Executing(j) \/ start(j)
  BY StepsOfTheQueue, LifeSteps DEF start, Begins
<1>2. op[j] # "none"
  BY <1>1 DEF start, Executing
<1>3. Live(k)
  <2>1. ~WorkStepStarts(k)
    BY <1>2 DEF Bookkeeping, OldestFirst, WorkStepStarts, IsNextReady
  <2> QED
    BY <2>1, StepsOfTheQueue, LifeSteps DEF start, Begins
<1>4. start(j) /\ ~Executing(j)
  BY <1>1, <1>3 DEF ExecutesInOrder
<1>5. op[k] = "queued"
  BY <1>3, <1>4 DEF start, QueueIsFree, Executing, Live, TypeOK, Phases
<1>6. Live(j)
  BY <1>4 DEF start, Live
<1> QED
  BY <1>3, <1>4, <1>5, <1>6, LiveJobsWereAddedInOrder DEF start, IsFirstQueued

LEMMA OrderInvariant == Spec => []ExecutesInOrder
<1>1. Init => ExecutesInOrder
  BY DEF Init, ExecutesInOrder, Executing
<1> QED
  BY <1>1, OrderStep, TypeCorrect, BookkeepingInvariant, PTL DEF Spec

\* Running records, live operations and entries of runningOperations are the same
\* jobs, whatever the interleaving of transactions, callbacks and deaths.
THEOREM RecordsAndOperationsMatch == Spec => []RecordsMatchOperations
<1>1. Bookkeeping => RecordsMatchOperations
  BY DEF Bookkeeping, NothingBeforeSetup, Registered, Occurs, RecordsMatchOperations,
         isSetup, Live
<1> QED
  BY <1>1, BookkeepingInvariant, PTL

\* No job executes while an earlier one of its serial queue is unsettled.
THEOREM JobsRunInOrder == Spec => []InOrder
<1>1. TypeOK /\ Bookkeeping /\ ExecutesInOrder => InOrder
  <2> SUFFICES ASSUME TypeOK, Bookkeeping, ExecutesInOrder, NEW j \in Jobs, NEW k \in Jobs,
                      Executing(j), k < j, QueueOf[k] = QueueOf[j]
               PROVE  status[k] \in Terminal
    BY DEF InOrder
  <2>1. op[j] # "none" /\ setup = "done" /\ j <= lastId
    BY OperationHasRecord DEF Executing
  <2>2. status[k] # "none"
    BY <2>1, BoundsAssumption DEF Bookkeeping, IdsGivenOut, TypeOK, Jobs
  <2>3. status[k] # "ready"
    BY <2>1 DEF Bookkeeping, OldestFirst
  <2>4. status[k] # "running"
    BY <2>1 DEF Bookkeeping, ExecutesInOrder, Registered
  <2> QED
    BY <2>2, <2>3, <2>4 DEF TypeOK, Statuses, Terminal
<1> QED
  BY <1>1, TypeCorrect, BookkeepingInvariant, OrderInvariant, PTL

\* A retry timer exists exactly while its operation waits for it.
THEOREM RunsAreExclusive == Spec => []OneRunAtATime
<1>1. Bookkeeping => OneRunAtATime
  BY DEF Bookkeeping
<1> QED
  BY <1>1, BookkeepingInvariant, PTL

\* workStep gives an operation only to a job that has none in this process.
THEOREM NoSecondOperation == Spec => OneOperationPerJob
<1>1. ASSUME TypeOK, Bookkeeping, [Next]_vars, NEW i \in Jobs, op[i] # "none"
      PROVE  op'[i] # "queued" \/ op[i] = "queued"
  <2> USE DEF operations, queue, records, history
  <2>1. ASSUME NEW j \in Jobs, Operation(j)
        PROVE  op'[i] # "queued" \/ op[i] = "queued"
    <3>1. CASE start(j) \/ Rerun(j)
      BY <3>1, <1>1 DEF start, Rerun, TypeOK
    <3>2. CASE RunSucceeds(j) \/ RunFails(j)
      BY <3>2, <1>1 DEF RunSucceeds, RunFails, TypeOK
    <3>3. CASE reportError(j)
      <4>1. PICK p \in {"failing", "scheduling"} : op' = [op EXCEPT ![j] = p]
        BY <3>3 DEF reportError
      <4> QED
        BY <4>1, <1>1 DEF TypeOK
    <3>4. CASE durableOperationDidSucceed(j) \/ durableOperationDidFail(j)
      BY <3>4, <1>1 DEF durableOperationDidSucceed, durableOperationDidFail, TypeOK
    <3>5. CASE markAsComplete(j) \/ ScheduleRetry(j)
      BY <3>5, <1>1 DEF markAsComplete, ScheduleRetry, TypeOK
    <3>6. CASE TimerFires(j) \/ runAnyQueuedRetry(j)
      BY <3>6, <1>1 DEF TimerFires, runAnyQueuedRetry, TypeOK
    <3> QED
      BY <2>1, <3>1, <3>2, <3>3, <3>4, <3>5, <3>6 DEF Operation
  <2>2. ASSUME NEW j \in Jobs, WorkStepStarts(j)
        PROVE  op'[i] = op[i]
    <3>1. op[j] = "none"
      BY <1>1, <2>2, OperationHasRecord
         DEF WorkStepStarts, IsNextReady, Bookkeeping, CompleteIsTerminal, Terminal, Live
    <3> QED
      BY <2>2, <3>1, <1>1 DEF WorkStepStarts, TypeOK
  <2> QED
    BY <1>1, <2>1, <2>2
       DEF Next, workStep, Relaunch, RestartOldJobs, FinishSetup, add, startWork,
           WorkStepIdle, WorkStepRejects, becameReachable, vars
<1>2. TypeOK /\ Bookkeeping /\ [Next]_vars
      => [\A j \in Jobs : op[j] # "none" => op'[j] # "queued" \/ op[j] = "queued"]_vars
  BY <1>1
<1> QED
  BY <1>2, TypeCorrect, BookkeepingInvariant, PTL DEF Spec, OneOperationPerJob

------------------------------------------------------------------------------
(***************************************************************************)
(* Wakeups                                                                 *)
(***************************************************************************)

\* However adding, setting up and stepping interleave, a ready record is never
\* left without a pending call that leads to workStep.
THEOREM NoWakeupIsLost == Spec => []NoLostWakeup
<1>1. Init => NoLostWakeup
  BY DEF Init, NoLostWakeup, isSetup
<1>2. TypeOK /\ NoLostWakeup /\ [Next]_vars => NoLostWakeup'
  <2> SUFFICES ASSUME TypeOK, NoLostWakeup, [Next]_vars
               PROVE  NoLostWakeup'
    OBVIOUS
  <2> USE DEF NoLostWakeup, isSetup, TypeOK, records, queue, operations, history
  <2>1. CASE Relaunch \/ RestartOldJobs
    BY <2>1 DEF Relaunch, RestartOldJobs
  <2>2. CASE FinishSetup \/ add
    BY <2>2 DEF FinishSetup, add
  <2>3. CASE startWork
    BY <2>3 DEF startWork
  <2>4. CASE WorkStepIdle
    BY <2>4 DEF WorkStepIdle
  <2>5. ASSUME NEW j \in Jobs, WorkStepStarts(j) \/ WorkStepRejects(j)
        PROVE  NoLostWakeup'
    BY <2>5 DEF WorkStepStarts, WorkStepRejects
  <2>6. CASE becameReachable
    BY <2>6 DEF becameReachable
  <2>7. ASSUME NEW j \in Jobs, Operation(j)
        PROVE  NoLostWakeup'
    <3>1. UNCHANGED <<setup, starts, workSteps>>
      BY <2>7
         DEF Operation, start, RunSucceeds, durableOperationDidSucceed, RunFails,
             reportError, durableOperationDidFail, markAsComplete, ScheduleRetry,
             TimerFires, runAnyQueuedRetry, Rerun
    <3>2. \A k \in Jobs : status'[k] = "ready" => status[k] = "ready"
      BY <2>7
         DEF Operation, start, RunSucceeds, durableOperationDidSucceed, RunFails,
             reportError, addFailure, durableOperationDidFail, markAsComplete,
             ScheduleRetry, TimerFires, runAnyQueuedRetry, Rerun
    <3> QED
      BY <3>1, <3>2
  <2>8. CASE UNCHANGED vars
    BY <2>8 DEF vars
  <2> QED
    BY <2>1, <2>2, <2>3, <2>4, <2>5, <2>6, <2>7, <2>8 DEF Next, workStep
<1> QED
  BY <1>1, <1>2, TypeCorrect, PTL DEF Spec

------------------------------------------------------------------------------
(***************************************************************************)
(* Counters: the retries in memory against the failures in the database,   *)
(* failures and completions against launches.                              *)
(***************************************************************************)

\* What AttemptsBounded needs to survive a step: one more failure is possible only
\* for an operation that has not failed for good, one more after every launch.
FailureBound ==
    \A j \in Jobs :
        /\ failureCount[j] <= MaxRetries + launches
        /\ op[j] \notin {"failing", "complete", "finished"}
           => failureCount[j] < MaxRetries + launches

CompletionBound ==
    \A j \in Jobs :
        /\ completions[j] <= launches
        /\ op[j] \notin {"reportingSuccess", "complete", "finished"} => completions[j] < launches
        /\ op[j] = "reportingSuccess" => completions[j] > 0

Counters ==
    /\ launches > 0
    /\ RetryBudget
    /\ FailureBound
    /\ CompletionBound

LEMMA OperationKeepsCounters ==
    ASSUME TypeOK, Bookkeeping, Counters, NEW j \in Jobs, Operation(j)
    PROVE  Counters'
<1> USE DEF Counters, TypeOK, RetryBudget, FailureBound, CompletionBound,
            records, queue, operations, history
<1>1. CASE start(j)
  BY <1>1 DEF start
<1>2. CASE RunSucceeds(j)
  BY <1>2 DEF RunSucceeds
<1>3. CASE durableOperationDidSucceed(j)
  BY <1>3 DEF durableOperationDidSucceed
<1>4. CASE RunFails(j)
  BY <1>4 DEF RunFails
<1>5. CASE reportError(j)
  <2>1. status[j] = "running"
    BY <1>5, OperationHasRecord DEF reportError, Live
  <2>2. failureCount' = [failureCount EXCEPT ![j] = @ + 1]
    BY <1>5, <2>1 DEF reportError, addFailure
  <2>3. /\ remainingRetries[j] = RetriesLeft(failureCount[j])
        /\ failureCount[j] < MaxRetries + launches
        /\ completions[j] < launches
        /\ UNCHANGED <<completions, launches>>
    BY <1>5 DEF reportError
  <2>4. CASE op[j] = "reportingUnretryable" \/ remainingRetries[j] = 0
    <3>1. op' = [op EXCEPT ![j] = "failing"] /\ UNCHANGED remainingRetries
      BY <1>5, <2>4 DEF reportError
    <3>2. /\ failureCount'[j] = failureCount[j] + 1 /\ op'[j] = "failing"
          /\ failureCount'[j] <= MaxRetries + launches'
          /\ \A k \in Jobs : k # j => /\ failureCount'[k] = failureCount[k]
                                      /\ op'[k] = op[k]
      BY <2>2, <2>3, <3>1, MaxRetriesAssumption
    <3>3. RetryBudget' /\ FailureBound' /\ CompletionBound'
      BY <2>3, <3>1, <3>2
    <3> QED
      BY <2>3, <3>3
  <2>5. CASE ~(op[j] = "reportingUnretryable" \/ remainingRetries[j] = 0)
    <3>1. /\ op' = [op EXCEPT ![j] = "scheduling"]
          /\ remainingRetries' = [remainingRetries EXCEPT ![j] = @ - 1]
      BY <1>5, <2>5 DEF reportError
    <3>2. failureCount[j] < MaxRetries
      BY <2>3, <2>5 DEF RetriesLeft
    <3>3. remainingRetries[j] - 1 = RetriesLeft(failureCount[j] + 1)
      BY <2>3, <3>2, MaxRetriesAssumption DEF RetriesLeft
    <3> QED
      <4>1. RetryBudget'
        BY <2>2, <3>1, <3>3
      <4>2. FailureBound'
        <5>1. /\ failureCount'[j] < MaxRetries + launches'
              /\ failureCount'[j] <= MaxRetries + launches'
          BY <2>2, <2>3, <3>2, MaxRetriesAssumption
        <5>2. \A k \in Jobs : k # j => /\ failureCount'[k] = failureCount[k]
                                       /\ op'[k] = op[k]
          BY <2>2, <3>1
        <5> QED
          BY <2>3, <5>1, <5>2
      <4>3. CompletionBound'
        BY <2>3, <3>1
      <4> QED
        BY <2>3, <4>1, <4>2, <4>3
  <2> QED
    BY <2>4, <2>5
<1>6. CASE durableOperationDidFail(j)
  BY <1>6 DEF durableOperationDidFail
<1>7. CASE markAsComplete(j)
  BY <1>7 DEF markAsComplete
<1>8. CASE ScheduleRetry(j)
  BY <1>8 DEF ScheduleRetry
<1>9. CASE TimerFires(j)
  BY <1>9 DEF TimerFires
<1>10. CASE runAnyQueuedRetry(j)
  <2>1. CASE retryTimer[j] = "nil"
    BY <1>10, <2>1 DEF runAnyQueuedRetry
  <2>2. CASE retryTimer[j] # "nil"
    BY <1>10, <2>2 DEF runAnyQueuedRetry, Bookkeeping, OneRunAtATime
  <2> QED
    BY <2>1, <2>2
<1>11. CASE Rerun(j)
  BY <1>11 DEF Rerun
<1> QED
  BY <1>1, <1>2, <1>3, <1>4, <1>5, <1>6, <1>7, <1>8, <1>9, <1>10, <1>11 DEF Operation

LEMMA CountersStep == TypeOK /\ Bookkeeping /\ Counters /\ [Next]_vars => Counters'
<1> SUFFICES ASSUME TypeOK, Bookkeeping, Counters, [Next]_vars
             PROVE  Counters'
  OBVIOUS
<1> USE DEF Counters, RetryBudget, FailureBound, CompletionBound,
            records, queue, operations, history
<1>1. CASE Relaunch
  <2>1. /\ launches' = launches + 1
        /\ op' = [j \in Jobs |-> "none"]
        /\ UNCHANGED <<failureCount, completions>>
    BY <1>1 DEF Relaunch
  <2>2. /\ launches \in Nat
        /\ \A j \in Jobs : failureCount[j] \in Nat /\ completions[j] \in Nat
    BY DEF TypeOK
  <2> QED
    BY <2>1, <2>2, MaxRetriesAssumption
<1>2. CASE RestartOldJobs \/ FinishSetup
  BY <1>2 DEF RestartOldJobs, FinishSetup
<1>3. CASE add \/ startWork \/ WorkStepIdle
  BY <1>3 DEF add, startWork, WorkStepIdle
<1>4. ASSUME NEW j \in Jobs, WorkStepStarts(j)
      PROVE  Counters'
  <2>1. op[j] = "none"
    BY <1>4, OperationHasRecord
       DEF WorkStepStarts, IsNextReady, Bookkeeping, CompleteIsTerminal, Terminal, Live
  <2> QED
    BY <1>4, <2>1 DEF WorkStepStarts, TypeOK
<1>5. ASSUME NEW j \in Jobs, WorkStepRejects(j)
      PROVE  Counters'
  BY <1>5 DEF WorkStepRejects
<1>6. CASE becameReachable
  BY <1>6 DEF becameReachable
<1>7. ASSUME NEW j \in Jobs, Operation(j)
      PROVE  Counters'
  BY <1>7, OperationKeepsCounters DEF Counters
<1>8. CASE UNCHANGED vars
  BY <1>8 DEF vars
<1> QED
  BY <1>1, <1>2, <1>3, <1>4, <1>5, <1>6, <1>7, <1>8 DEF Next, workStep

LEMMA CountersInvariant == Spec => []Counters
<1>1. Init => Counters
  BY MaxRetriesAssumption
     DEF Init, Counters, RetryBudget, FailureBound, CompletionBound
<1> QED
  BY <1>1, CountersStep, TypeCorrect, BookkeepingInvariant, PTL DEF Spec

\* The retries left in memory and the failures in the database never disagree.
THEOREM BudgetIsKept == Spec => []RetryBudget
<1>1. Counters => RetryBudget
  BY DEF Counters
<1> QED
  BY <1>1, CountersInvariant, PTL

\* Only a death of the process grants a job one more failure than its retries do.
THEOREM AttemptsAreBounded == Spec => []AttemptsBounded
<1>1. Counters => AttemptsBounded
  BY DEF Counters, FailureBound, AttemptsBounded
<1> QED
  BY <1>1, CountersInvariant, PTL

\* The work of a job is carried out at most once in each launch.
THEOREM WorkIsNotRepeated == Spec => []WorkDoneOncePerLaunch
<1>1. Counters => WorkDoneOncePerLaunch
  BY DEF Counters, CompletionBound, WorkDoneOncePerLaunch
<1> QED
  BY <1>1, CountersInvariant, PTL

------------------------------------------------------------------------------
(***************************************************************************)
(* Refinement                                                              *)
(***************************************************************************)

LEMMA UnsettledView ==
    \A s \in Statuses :
        /\ Settled(s) = "pending" <=> s \in {"ready", "running"}
        /\ Settled(s) = "none" <=> s = "none"
        /\ Settled(s) = "done" <=> s = "removed"
        /\ Settled(s) = "failed" <=> s = "permanentlyFailed"
        /\ Settled(s) = "obsolete" <=> s = "obsolete"
BY DEF Settled, Statuses

LEMMA InitRefines == Init => Abstract!Init
<1> SUFFICES ASSUME Init PROVE Abstract!Init
  OBVIOUS
<1>1. jobView = [j \in Jobs |-> "none"]
  BY DEF Init, jobView, Settled
<1>2. performedView = [j \in Jobs |-> FALSE]
  <2>1. \A j \in Jobs : completions[j] = 0
    BY DEF Init
  <2>2. \A j \in Jobs : (completions[j] > 0) = FALSE
    BY <2>1
  <2> QED
    BY <2>2 DEF performedView
<1> QED
  BY <1>1, <1>2, Zenon DEF Abstract!Init, Abstract!Jobs, Jobs

LEMMA AddRefines ==
    ASSUME TypeOK, Bookkeeping, add
    PROVE  \E j \in Jobs : Abstract!Submit(j)
<1> DEFINE j == lastId + 1
<1>1. j \in Jobs /\ \A k \in Jobs : k \in Nat
  BY BoundsAssumption DEF add, TypeOK, Jobs
<1>2. /\ status' = [status EXCEPT ![j] = "ready"]
      /\ UNCHANGED completions
  BY DEF add, history
<1>3. \A k \in Jobs : status[k] = "none" <=> k >= j
  BY <1>1 DEF Bookkeeping, IdsGivenOut, TypeOK
<1> HIDE DEF j
<1>4. jobView[j] = "none" /\ \A k \in Jobs : k < j => jobView[k] # "none"
  BY <1>1, <1>3, UnsettledView DEF jobView, TypeOK
<1>5. jobView' = [jobView EXCEPT ![j] = "pending"]
  BY <1>1, <1>2 DEF jobView, Settled, TypeOK
<1>6. performedView' = performedView
  BY <1>2 DEF performedView
<1> QED
  BY <1>1, <1>4, <1>5, <1>6 DEF Abstract!Submit, Abstract!Jobs, Jobs

\* Settling a pending job: done, failed or obsolete.
LEMMA SettlingRefines ==
    ASSUME TypeOK, Bookkeeping, Counters, NEW j \in Jobs,
           durableOperationDidSucceed(j) \/ durableOperationDidFail(j) \/ WorkStepRejects(j)
    PROVE  Abstract!Finish(j) \/ Abstract!Fail(j) \/ Abstract!Discard(j)
<1>1. PICK final \in {"removed", "permanentlyFailed", "obsolete"} :
         /\ status' = [status EXCEPT ![j] = final]
         /\ final = "removed" => op[j] = "reportingSuccess"
  BY DEF durableOperationDidSucceed, durableOperationDidFail, WorkStepRejects
<1>2. status[j] \in {"ready", "running"} /\ UNCHANGED completions
  BY OperationHasRecord
     DEF durableOperationDidSucceed, durableOperationDidFail, WorkStepRejects, IsNextReady,
         Live, history
<1>3. jobView[j] = "pending"
  BY <1>2 DEF jobView, Settled
<1>4. jobView' = [jobView EXCEPT ![j] = Settled(final)]
  BY <1>1 DEF jobView, TypeOK
<1>5. performedView' = performedView
  BY <1>2 DEF performedView
<1>6. CASE final = "removed"
  <2>1. performedView[j]
    BY <1>1, <1>6 DEF Counters, CompletionBound, performedView
  <2> QED
    BY <1>3, <1>4, <1>5, <1>6, <2>1 DEF Abstract!Finish, Settled
<1>7. CASE final = "permanentlyFailed"
  BY <1>3, <1>4, <1>5, <1>7 DEF Abstract!Fail, Settled
<1>8. CASE final = "obsolete"
  BY <1>3, <1>4, <1>5, <1>8 DEF Abstract!Discard, Settled
<1> QED
  BY <1>6, <1>7, <1>8

\* Carrying out the work of a job is visible the first time.
LEMMA PerformingRefines ==
    ASSUME TypeOK, Bookkeeping, InOrder, NEW j \in Jobs, RunSucceeds(j)
    PROVE  Abstract!Perform(j)
<1>1. /\ op[j] = "running" /\ UNCHANGED status
      /\ completions' = [completions EXCEPT ![j] = @ + 1]
  BY DEF RunSucceeds, records
<1>2. jobView[j] = "pending" /\ UNCHANGED jobView
  BY <1>1, OperationHasRecord DEF jobView, Settled, Live
<1>3. \A k \in Jobs : k < j /\ QueueOf[k] = QueueOf[j] => jobView[k] # "pending"
  BY <1>1, UnsettledView DEF InOrder, Executing, Terminal, jobView, Settled
<1>4. performedView' = [performedView EXCEPT ![j] = TRUE]
  <2>1. completions'[j] > 0
    BY <1>1 DEF TypeOK
  <2>2. (completions'[j] > 0) = TRUE
    BY <2>1, Zenon
  <2>3. \A k \in Jobs : k # j => completions'[k] = completions[k]
    BY <1>1 DEF TypeOK
  <2>4. \A k \in Jobs : performedView'[k] = [performedView EXCEPT ![j] = TRUE][k]
    BY <2>2, <2>3, Zenon DEF performedView
  <2> QED
    BY <2>4, Zenon DEF performedView
<1> QED
  BY <1>2, <1>3, <1>4
     DEF Abstract!Perform, Abstract!EarlierSettled, Abstract!Unsettled, Abstract!Jobs, Jobs

\* Everything else is invisible.
LEMMA OtherStepsStutter ==
    ASSUME TypeOK, Bookkeeping,
           \/ Relaunch \/ RestartOldJobs \/ FinishSetup \/ startWork \/ WorkStepIdle
           \/ becameReachable \/ UNCHANGED vars
           \/ \E j \in Jobs :
                \/ WorkStepStarts(j) \/ start(j) \/ RunFails(j) \/ reportError(j)
                \/ markAsComplete(j) \/ ScheduleRetry(j) \/ TimerFires(j)
                \/ runAnyQueuedRetry(j) \/ Rerun(j)
    PROVE  UNCHANGED <<jobView, performedView>>
<1>1. UNCHANGED completions
  BY DEF Relaunch, RestartOldJobs, FinishSetup, startWork, WorkStepIdle, becameReachable,
         vars, history, WorkStepStarts, start, RunFails, reportError, markAsComplete,
         ScheduleRetry, TimerFires, runAnyQueuedRetry, Rerun
<1>2. ASSUME RestartOldJobs
      PROVE  UNCHANGED jobView
  <2>1. \A k \in Jobs : Settled(status'[k]) = Settled(status[k])
    BY <1>2 DEF RestartOldJobs, saveRunningAsReady, Settled
  <2> QED
    BY <2>1 DEF jobView
<1>3. ASSUME NEW j \in Jobs, WorkStepStarts(j)
      PROVE  UNCHANGED jobView
  BY <1>3 DEF WorkStepStarts, saveAsStarted, IsNextReady, jobView, Settled, TypeOK
<1>4. ASSUME NEW j \in Jobs, reportError(j)
      PROVE  UNCHANGED jobView
  <2>1. status[j] = "running"
    BY <1>4, OperationHasRecord DEF reportError, Live
  <2> QED
    BY <1>4, <2>1 DEF reportError, addFailure, jobView
<1>5. UNCHANGED jobView
  BY <1>2, <1>3, <1>4
     DEF Relaunch, FinishSetup, startWork, WorkStepIdle, becameReachable, vars, records,
         start, RunFails, markAsComplete, ScheduleRetry, TimerFires, runAnyQueuedRetry,
         Rerun, jobView
<1> QED
  BY <1>1, <1>5 DEF performedView

\* The job queue implements the queue it promises to be.
THEOREM JobQueueImplementsOrderedJobs == Spec => ImplementsOrderedJobs
<1>1. TypeOK /\ Bookkeeping /\ Counters /\ InOrder /\ [Next]_vars
      => [Abstract!Next]_(Abstract!vars)
  <2> SUFFICES ASSUME TypeOK, Bookkeeping, Counters, InOrder, [Next]_vars
               PROVE  Abstract!Next \/ UNCHANGED <<jobView, performedView>>
    BY DEF Abstract!vars
  <2>1. ASSUME NEW j \in Jobs,
               \/ Abstract!Submit(j) \/ Abstract!Perform(j) \/ Abstract!Finish(j)
               \/ Abstract!Fail(j) \/ Abstract!Discard(j)
        PROVE  Abstract!Next
    BY <2>1 DEF Abstract!Next, Abstract!Jobs, Jobs
  <2>2. CASE add
    BY <2>1, <2>2, AddRefines
  <2>3. ASSUME NEW j \in Jobs,
               \/ durableOperationDidSucceed(j) \/ durableOperationDidFail(j)
               \/ WorkStepRejects(j)
        PROVE  Abstract!Next
    BY <2>1, <2>3, SettlingRefines
  <2>4. ASSUME NEW j \in Jobs, RunSucceeds(j)
        PROVE  Abstract!Next
    BY <2>1, <2>4, PerformingRefines
  <2> QED
    BY <2>2, <2>3, <2>4, OtherStepsStutter DEF Next, workStep, Operation
<1> QED
  BY <1>1, InitRefines, TypeCorrect, BookkeepingInvariant, CountersInvariant,
     JobsRunInOrder, PTL DEF Spec, ImplementsOrderedJobs, Abstract!Spec
==============================================================================
