----------------------------- MODULE GroupV2Updates -----------------------------
(***************************************************************************)
(* How the local model of a group is brought up to date                    *)
(* (GroupV2UpdatesImpl.swift and what it calls of GroupManager,            *)
(* GroupsV2Impl and GroupsV2Changes): refreshes on two operation queues,   *)
(* that apply the changes the service answers with or its snapshot, next   *)
(* to changes of the local user that are applied without a queue.          *)
(*                                                                         *)
(* One group.  A revision is a number, 0 where the database has no group.  *)
(* The state of the group at a revision is given by the changes that led   *)
(* there and the timer of disappearing messages.                           *)
(***************************************************************************)
EXTENDS Naturals, Sequences

CONSTANTS
    MaxRevision,        \* bound: the last revision the group reaches
    Timer,              \* the disappearing messages timer at each revision
    MessageRevision,    \* of the incoming messages, in the order of their queue
    RemainingRetries,   \* of a GroupV2UpdateOperation
    MaxRefreshes,       \* bound: refreshes that no message and no change asks for
    MaxFailures         \* bound: requests that fail or time out

Revisions == 1 .. MaxRevision

Messages == DOMAIN MessageRevision

ASSUME BoundsAssumption ==
    /\ MaxRevision \in Nat \ {0}
    /\ DOMAIN Timer = Revisions
    /\ MessageRevision \in Seq(Revisions)
    /\ RemainingRetries \in Nat
    /\ MaxRefreshes \in Nat
    /\ MaxFailures \in Nat

Queues == {"immediate", "afterMessageProcessing"}

VARIABLES
    serviceRevision,
    group,              \* the local model: revision, changes it reflects, timer
    ownChanges,         \* changes the service accepted from us, not applied yet
    lastSuccessfulRefresh,  \* "never", "recent" or "old": more than five minutes ago
    changeCache,
    operations,         \* the operation queues; the first of each is executing
    remainingRetries,   \* of the one that executes
    work,               \* what it waits for
    late,               \* what operations waited for that have timed out
    \* the queue of incoming messages, of which the first may wait for an update
    arrived,
    settled,
    updating,
    \* history
    processed,          \* messages handed to MessageManager
    refreshes,
    failures

messages == <<arrived, settled, updating, processed>>
history  == <<refreshes, failures>>
local    == <<group, ownChanges>>
queues   == <<operations, remainingRetries, work, late>>
vars     == <<serviceRevision, local, lastSuccessfulRefresh, changeCache, queues,
              messages, history>>

------------------------------------------------------------------------------
\* GroupUpdateMode; upTo is 0 where there is no revision to stop at

upToSpecificRevisionImmediately(r) == [mode |-> "specific", upTo |-> r]

upToCurrentRevisionImmediately == [mode |-> "current", upTo |-> 0]

upToCurrentRevisionAfterMessageProcessWithThrottling == [mode |-> "throttled", upTo |-> 0]

Operations ==
    {upToCurrentRevisionImmediately, upToCurrentRevisionAfterMessageProcessWithThrottling}
        \cup {upToSpecificRevisionImmediately(r) : r \in Revisions}

shouldBlockOnMessageProcessing(op) == op.mode = "throttled"

\* Mutant: one queue for all.
ImmediateQueue(op) == "immediate"

operationQueue(op) ==
    IF shouldBlockOnMessageProcessing(op) THEN "afterMessageProcessing" ELSE "immediate"

\* What an operation waits for: an answer of the service, or the database.  Changes
\* from .. to were or will be fetched, each with the state of the group it leads to if
\* states; a snapshot is at revision to.
Work(op, stage, from, to, states) ==
    [op |-> op, stage |-> stage, from |-> from, to |-> to, states |-> states]

Stages == {"idle", "askChanges", "askSnapshot", "changes", "snapshot",
           "applyChanges", "applySnapshot"}

Works == [op : Operations, stage : Stages, from : 0 .. MaxRevision + 1,
          to : 0 .. MaxRevision, states : BOOLEAN]

Idle == Work(upToCurrentRevisionImmediately, "idle", 0, 0, FALSE)

NoChanges == [from |-> 1, to |-> 0, states |-> FALSE]

\* The timer of a thread that has no configuration.
disabledToken == "off"

Groups == [revision : 0 .. MaxRevision, changes : SUBSET Revisions,
           timer : {Timer[r] : r \in Revisions} \cup {disabledToken}]

TypeOK ==
    /\ serviceRevision \in Revisions
    /\ group \in Groups
    /\ ownChanges \subseteq Revisions
    /\ lastSuccessfulRefresh \in {"never", "recent", "old"}
    /\ changeCache \in [from : 1 .. MaxRevision + 1, to : 0 .. MaxRevision, states : BOOLEAN]
    /\ operations \in [Queues -> Seq(Operations)]
    /\ remainingRetries \in [Queues -> 0 .. RemainingRetries]
    /\ work \in [Queues -> Works]
    /\ late \subseteq Works
    /\ arrived \in 0 .. Len(MessageRevision)
    /\ settled \in 0 .. Len(MessageRevision)
    /\ updating \in BOOLEAN
    /\ processed \subseteq Messages
    /\ refreshes \in 0 .. MaxRefreshes
    /\ failures \in 0 .. MaxFailures

\* The state of the group at revision r, as the service gives it.
Snapshot(r) == [revision |-> r, changes |-> 1 .. r, timer |-> Timer[r]]

NoGroup == [revision |-> 0, changes |-> {}, timer |-> disabledToken]

\* insertGroupThreadInDatabaseAndCreateInfoMessage: the thread is stored, and no
\* configuration of its timer, whatever token there is.
Inserted(new) == [new EXCEPT !.timer = disabledToken]

\* The group is unknown, or was created or met at its first revision.
Init ==
    /\ serviceRevision = 1
    /\ group \in {NoGroup, Inserted(Snapshot(1))}
    /\ ownChanges = {}
    /\ lastSuccessfulRefresh = "never"
    /\ changeCache = NoChanges
    /\ operations = [q \in Queues |-> <<>>]
    /\ remainingRetries = [q \in Queues |-> RemainingRetries]
    /\ work = [q \in Queues |-> Idle]
    /\ late = {}
    /\ arrived = 0
    /\ settled = 0
    /\ updating = FALSE
    /\ processed = {}
    /\ refreshes = 0
    /\ failures = 0

------------------------------------------------------------------------------
\* Writing the local model

\* Mutant: a stale state is written as well.
NotStaleAtAll(new, old) == TRUE

NotStale(new, old) == new.revision >= old.revision

\* updateExistingGroupThreadInDatabaseAndCreateInfoMessage: step 2 writes the timer, if
\* there is a new one, and step 3 the rest, unless it is stale.
UpdateExisting(old, new, hasTimer) ==
    LET timer == IF hasTimer THEN new.timer ELSE old.timer
    IN  IF NotStale(new, old)
        THEN [new EXCEPT !.timer = timer]
        ELSE [old EXCEPT !.timer = timer]

\* tryToUpsertExistingGroupThreadInDatabaseAndCreateInfoMessage
Upsert(old, new) ==
    IF old.revision = 0 THEN Inserted(new) ELSE UpdateExisting(old, new, TRUE)

\* Mutant: a change is applied to whatever is there.
DiffAlwaysFits(old, r) == TRUE

DiffFits(old, r) == old.revision > 0 /\ r = old.revision + 1

\* applyChangesToGroupModel and the write of its result; the timer is new only where
\* the change is about it.
WithDiff(old, r) ==
    UpdateExisting(old, [revision |-> r, changes |-> old.changes \cup {r}, timer |-> Timer[r]],
                   r = 1 \/ Timer[r] # Timer[r - 1])

Within(r, op) == op.upTo = 0 \/ op.upTo >= r

\* getOrCreateThreadForGroupChanges
Created(old, w) ==
    IF old.revision = 0 /\ w.from <= w.to /\ w.states THEN Upsert(old, Snapshot(w.from)) ELSE old

\* One turn of the loop over the changes: the model after it, and whether the change fits.
AfterChange(old, r, states) ==
    [group |-> IF states THEN UpdateExisting(old, Snapshot(r), TRUE)
               ELSE IF DiffFits(old, r) THEN WithDiff(old, r) ELSE old,
     ok    |-> states \/ DiffFits(old, r)]

\* tryToApplyGroupChangesFromServiceNow, for each revision up to which it may have come:
\* the changes are taken in order, up to the one to stop at.
AfterChangesUpTo(old, w) ==
    LET first == Created(old, w)
        after[r \in 0 .. w.to] ==
            IF r = 0 \/ r < w.from THEN [group |-> first, ok |-> first.revision > 0]
            ELSE IF after[r - 1].ok /\ Within(r, w.op)
            THEN AfterChange(after[r - 1].group, r, w.states)
            ELSE after[r - 1]
    IN  after

\* What becomes of the model, and whether the first change that does not fit has ended
\* the transaction; what was written before it stays.
Applied(old, w) == AfterChangesUpTo(old, w)[w.to]

------------------------------------------------------------------------------
\* The service and the local user

SomeoneChangesGroup ==
    /\ serviceRevision < MaxRevision
    /\ serviceRevision' = serviceRevision + 1
    /\ UNCHANGED <<local, lastSuccessfulRefresh, changeCache, queues, messages, history>>

\* updateExistingGroupOnService: the service accepts only what follows its revision.
ChangeGroup ==
    /\ 0 < group.revision /\ group.revision = serviceRevision
    /\ serviceRevision < MaxRevision
    /\ serviceRevision' = serviceRevision + 1
    /\ ownChanges' = ownChanges \cup {serviceRevision + 1}
    /\ UNCHANGED <<group, lastSuccessfulRefresh, changeCache, queues, messages, history>>

\* updateGroupWithChangeActions, once the avatars are there.
ApplyOwnChange(r) ==
    /\ r \in ownChanges
    /\ ownChanges' = ownChanges \ {r}
    /\ group' = IF DiffFits(group, r) THEN WithDiff(group, r) ELSE group
    /\ UNCHANGED <<serviceRevision, lastSuccessfulRefresh, changeCache, queues, messages, history>>

------------------------------------------------------------------------------
\* Refreshes

\* As the code has it; the old ones are throttled, not the recent ones.
isThrottled == lastSuccessfulRefresh = "old"

FiveMinutesPass ==
    /\ lastSuccessfulRefresh = "recent"
    /\ lastSuccessfulRefresh' = "old"
    /\ UNCHANGED <<serviceRevision, local, changeCache, queues, messages, history>>

Enqueued(ops, op) == [ops EXCEPT ![operationQueue(op)] = Append(@, op)]

\* tryToRefreshV2GroupThread with throttling; skipped, it counts as a success.
AutoRefreshed(ops) ==
    IF isThrottled THEN ops
    ELSE Enqueued(ops, upToCurrentRevisionAfterMessageProcessWithThrottling)

\* A conversation is opened, a request was answered with 403, or the group is restored
\* from the storage service.
AutoRefresh ==
    /\ refreshes < MaxRefreshes
    /\ refreshes' = refreshes + 1
    /\ operations' = AutoRefreshed(operations)
    /\ UNCHANGED <<serviceRevision, local, lastSuccessfulRefresh, changeCache,
                   remainingRetries, work, late, messages, failures>>

\* A change of the local user met a conflict.
RefreshImmediately ==
    /\ 0 < group.revision
    /\ refreshes < MaxRefreshes
    /\ refreshes' = refreshes + 1
    /\ operations' = Enqueued(operations, upToCurrentRevisionImmediately)
    /\ UNCHANGED <<serviceRevision, local, lastSuccessfulRefresh, changeCache,
                   remainingRetries, work, late, messages, failures>>

\* Incoming messages, each with a revision the service has.
MessageArrives ==
    /\ arrived < Len(MessageRevision)
    /\ MessageRevision[arrived + 1] <= serviceRevision
    /\ arrived' = arrived + 1
    /\ UNCHANGED <<serviceRevision, local, lastSuccessfulRefresh, changeCache, queues,
                   settled, updating, processed, history>>

\* The first message is processed, or needs an update first.
ProcessMessage ==
    /\ settled < arrived /\ ~updating
    /\ 0 < group.revision /\ MessageRevision[settled + 1] <= group.revision
    /\ settled' = settled + 1
    /\ processed' = processed \cup {settled + 1}
    /\ UNCHANGED <<serviceRevision, local, lastSuccessfulRefresh, changeCache, queues,
                   arrived, updating, history>>

UpdateForMessage ==
    /\ settled < arrived /\ ~updating
    /\ group.revision < MessageRevision[settled + 1]
    /\ updating' = TRUE
    /\ operations' = Enqueued(operations,
                              upToSpecificRevisionImmediately(MessageRevision[settled + 1]))
    /\ UNCHANGED <<serviceRevision, local, lastSuccessfulRefresh, changeCache,
                   remainingRetries, work, late, arrived, settled, processed, history>>

\* allMessageFetchingAndProcessingPromise, as far as these messages go.
MessageProcessingIsComplete == settled = arrived
------------------------------------------------------------------------------
\* GroupV2UpdateOperation

MayGoOn(op) == shouldBlockOnMessageProcessing(op) => MessageProcessingIsComplete

\* cachedGroupChanges finds the changes up to the revision that is asked for.
CacheServes(op) ==
    /\ 0 < group.revision /\ group.revision < op.upTo
    /\ changeCache.from <= op.upTo /\ op.upTo <= changeCache.to

FirstMissing == IF group.revision < changeCache.from THEN changeCache.from ELSE group.revision + 1

\* cachedGroupChanges removes what it finds of no use.
CacheAfterUse(op) ==
    IF 0 < op.upTo /\ 0 < group.revision /\ ~CacheServes(op) THEN NoChanges ELSE changeCache

\* run, and fetchChangeActionsFromService up to its request; without a group in the
\* database and without a first known revision the snapshot is next.
Run(q) ==
    /\ operations[q] # <<>> /\ work[q].stage = "idle"
    /\ LET op == Head(operations[q]) IN
       /\ MayGoOn(op)
       /\ changeCache' = CacheAfterUse(op)
       /\ work' = [work EXCEPT ![q] =
              IF CacheServes(op)
              THEN Work(op, "changes", FirstMissing, op.upTo, changeCache.states)
              ELSE IF group.revision > 0
              THEN Work(op, "askChanges", group.revision + 1, 0, FALSE)
              ELSE IF op.upTo > 0
              THEN Work(op, "askChanges", op.upTo, 0, FALSE)
              ELSE Work(op, "askSnapshot", 0, 0, FALSE)]
    /\ UNCHANGED <<serviceRevision, local, lastSuccessfulRefresh, operations,
                   remainingRetries, late, messages, history>>

\* fetchGroupChangeActions is answered with the changes up to now, and they are cached.
WithChanges(w, states) == [w EXCEPT !.stage = "changes", !.to = serviceRevision, !.states = states]

Cached(w) ==
    IF w.from <= w.to THEN [from |-> w.from, to |-> w.to, states |-> w.states] ELSE NoChanges

FetchChanges(q) ==
    /\ work[q].stage = "askChanges"
    /\ \E states \in BOOLEAN : work' = [work EXCEPT ![q] = WithChanges(@, states)]
    /\ changeCache' = Cached(work'[q])
    /\ UNCHANGED <<serviceRevision, local, lastSuccessfulRefresh, operations,
                   remainingRetries, late, messages, history>>

\* The service answers that the local user is not in the group: the snapshot is next.
FailOverToSnapshot(q) ==
    /\ work[q].stage = "askChanges"
    /\ failures < MaxFailures
    /\ failures' = failures + 1
    /\ work' = [work EXCEPT ![q].stage = "askSnapshot", ![q].from = 0]
    /\ UNCHANGED <<serviceRevision, local, lastSuccessfulRefresh, changeCache, operations,
                   remainingRetries, late, messages, refreshes>>

FetchSnapshot(q) ==
    /\ work[q].stage = "askSnapshot"
    /\ work' = [work EXCEPT ![q].stage = "snapshot", ![q].to = serviceRevision]
    /\ UNCHANGED <<serviceRevision, local, lastSuccessfulRefresh, changeCache, operations,
                   remainingRetries, late, messages, history>>

\* Messages may have come in the meantime: what was fetched waits for them.
Ready(w) == [w EXCEPT !.stage = IF w.stage = "changes" THEN "applyChanges" ELSE "applySnapshot"]

BlockOnMessageProcessing(q) ==
    /\ work[q].stage \in {"changes", "snapshot"}
    /\ MayGoOn(work[q].op)
    /\ work' = [work EXCEPT ![q] = Ready(@)]
    /\ UNCHANGED <<serviceRevision, local, lastSuccessfulRefresh, changeCache, operations,
                   remainingRetries, late, messages, history>>
------------------------------------------------------------------------------
\* The end of an operation

\* The message that waits for an operation is told how it ended; to try again it
\* remains where it is.
TellMessage(op, outcomes) ==
    /\ updating' = (updating /\ op.mode # "specific")
    /\ IF op.mode = "specific"
       THEN \E outcome \in outcomes :
              /\ settled' = settled + (IF outcome = "failureShouldRetry" THEN 0 ELSE 1)
              /\ processed' = processed \cup
                     (IF outcome = "successShouldProcess" THEN {settled + 1} ELSE {})
       ELSE UNCHANGED <<settled, processed>>
    /\ UNCHANGED arrived

\* reportSuccess and groupRefreshDidSucceed
ReportSuccess(q) ==
    /\ remainingRetries' = [remainingRetries EXCEPT ![q] = RemainingRetries]
    /\ work' = [work EXCEPT ![q] = Idle]
    /\ lastSuccessfulRefresh' = "recent"
    /\ TellMessage(work[q].op, {"successShouldProcess"})

HasRetries(q) == remainingRetries[q] > 0

\* reportError: the operation runs again while it has retries.
ReportError(q, isRetryable, outcomes) ==
    /\ work' = [work EXCEPT ![q] = Idle]
    /\ IF isRetryable /\ HasRetries(q)
       THEN /\ remainingRetries' = [remainingRetries EXCEPT ![q] = @ - 1]
            /\ UNCHANGED <<operations, messages>>
       ELSE /\ remainingRetries' = [remainingRetries EXCEPT ![q] = RemainingRetries]
            /\ operations' = [operations EXCEPT ![q] = Tail(@)]
            /\ TellMessage(work[q].op, outcomes)
    /\ UNCHANGED lastSuccessfulRefresh

\* Requests fail; where the snapshot is refused the local user is not in the group,
\* and the operation does not run again.
RequestFails(q) ==
    /\ work[q].stage \in {"askChanges", "askSnapshot"}
    /\ failures < MaxFailures
    /\ failures' = failures + 1
    /\ \/ ReportError(q, TRUE, {"failureShouldRetry", "failureShouldDiscard"})
       \/ /\ work[q].stage = "askSnapshot"
          /\ ReportError(q, FALSE, {"failureShouldDiscard"})
    /\ UNCHANGED <<serviceRevision, local, changeCache, late, refreshes>>

\* Thirty seconds pass; what the operation waits for goes on without it.
TimeOut(q) ==
    /\ work[q].stage # "idle"
    /\ failures < MaxFailures
    /\ failures' = failures + 1
    /\ late' = late \cup {work[q]}
    /\ ReportError(q, TRUE, {"failureShouldRetry"})
    /\ UNCHANGED <<serviceRevision, local, changeCache, refreshes>>

\* The loop over the changes ended at one that is beyond the revision to stop at.
StopsEarly(old, w) == Created(old, w).revision > 0 /\ w.from <= w.to /\ ~Within(w.to, w.op)

ApplyChanges(q) ==
    /\ work[q].stage = "applyChanges"
    /\ LET result == Applied(group, work[q])
           ops == IF result.ok /\ StopsEarly(group, work[q]) THEN AutoRefreshed(operations)
                  ELSE operations
       IN  /\ group' = result.group
           /\ IF result.ok
              THEN /\ operations' = [ops EXCEPT ![q] = Tail(@)]
                   /\ ReportSuccess(q)
              ELSE ReportError(q, TRUE, {"failureShouldDiscard"})
    /\ UNCHANGED <<serviceRevision, ownChanges, changeCache, late, history>>

ApplySnapshot(q) ==
    /\ work[q].stage = "applySnapshot"
    /\ group' = Upsert(group, Snapshot(work[q].to))
    /\ operations' = [operations EXCEPT ![q] = Tail(@)]
    /\ ReportSuccess(q)
    /\ UNCHANGED <<serviceRevision, ownChanges, changeCache, late, history>>

\* The same steps of what has timed out: nobody waits for the result.
LateAnswer(w) ==
    /\ w \in late
    /\ \/ /\ w.stage = "askChanges"
          /\ \E states \in BOOLEAN :
                /\ late' = (late \ {w}) \cup {WithChanges(w, states)}
                /\ changeCache' = Cached(WithChanges(w, states))
       \/ /\ w.stage = "askSnapshot"
          /\ late' = (late \ {w}) \cup {[w EXCEPT !.stage = "snapshot", !.to = serviceRevision]}
          /\ UNCHANGED changeCache
       \/ /\ w.stage \in {"changes", "snapshot"}
          /\ MayGoOn(w.op)
          /\ late' = (late \ {w}) \cup {Ready(w)}
          /\ UNCHANGED changeCache
    /\ UNCHANGED <<serviceRevision, local, lastSuccessfulRefresh, operations,
                   remainingRetries, work, messages, history>>

LateWrite(w) ==
    /\ w \in late
    /\ late' = late \ {w}
    /\ \/ /\ w.stage = "applyChanges"
          /\ group' = Applied(group, w).group
          /\ operations' = IF Applied(group, w).ok /\ StopsEarly(group, w)
                           THEN AutoRefreshed(operations) ELSE operations
       \/ /\ w.stage = "applySnapshot"
          /\ group' = Upsert(group, Snapshot(w.to))
          /\ UNCHANGED operations
    /\ UNCHANGED <<serviceRevision, ownChanges, lastSuccessfulRefresh, changeCache,
                   remainingRetries, work, messages, history>>

------------------------------------------------------------------------------

Answer(q) == FetchChanges(q) \/ FetchSnapshot(q)

Apply(q) == ApplyChanges(q) \/ ApplySnapshot(q)

Next ==
    \/ SomeoneChangesGroup \/ ChangeGroup \/ FiveMinutesPass
    \/ AutoRefresh \/ RefreshImmediately
    \/ MessageArrives \/ ProcessMessage \/ UpdateForMessage
    \/ \E r \in Revisions : ApplyOwnChange(r)
    \/ \E q \in Queues :
        \/ Run(q) \/ Answer(q) \/ FailOverToSnapshot(q) \/ BlockOnMessageProcessing(q)
        \/ RequestFails(q) \/ TimeOut(q) \/ Apply(q)
    \/ \E w \in late : LateAnswer(w) \/ LateWrite(w)

\* Requests are answered or time out, blocks of dispatch queues run, and the queue of
\* messages is drained.
Fairness ==
    /\ WF_vars(ProcessMessage)
    /\ WF_vars(UpdateForMessage)
    /\ \A q \in Queues :
        /\ WF_vars(Run(q))
        /\ WF_vars(Answer(q))
        /\ WF_vars(BlockOnMessageProcessing(q))
        /\ WF_vars(Apply(q))

Spec == Init /\ [][Next]_vars /\ Fairness

------------------------------------------------------------------------------
(***************************************************************************)
(* Properties                                                              *)
(***************************************************************************)

\* The key check of GroupManager: the model never goes back to an earlier revision,
\* whatever answers are late, and from whichever of the queues or none they come.
RevisionNeverReverts == [][group'.revision >= group.revision]_vars

\* The model is what the service had at its revision: no change is missing or applied
\* twice where refreshes, late answers and own changes meet.
ModelMatchesRevision == group.changes = 1 .. group.revision

\* A message is processed only with a model that has reached the revision it names:
\* an update that reports success went as far as it was asked to.
UpdatesReachTheirRevision ==
    \A m \in processed : MessageRevision[m] <= group.revision

\* Of whatever is late, cached or tried again, the messages see a model that follows the
\* service, and are settled once and in order.
Synced == INSTANCE SyncedGroup WITH revision <- group.revision

ImplementsSyncedGroup == Synced!Spec

\* An operation has a step to take: it is run, answered, no longer blocked, or applied.
CanGoOn(q) ==
    /\ operations[q] # <<>>
    /\ work[q].stage = "idle" => MayGoOn(Head(operations[q]))
    /\ work[q].stage \in {"changes", "snapshot"} => MayGoOn(work[q].op)

\* The first message is processed, or its refresh is enqueued.
MessageCanGoOn ==
    /\ settled < arrived /\ ~updating
    /\ \/ group.revision < MessageRevision[settled + 1]
       \/ 0 < group.revision /\ MessageRevision[settled + 1] <= group.revision

\* Refreshes that wait for messages and messages that wait for refreshes form no circle:
\* what is queued, or the message that everyone is behind, has a step to take.
NobodyWaitsForEachOther ==
    /\ operations["immediate"] # <<>> => CanGoOn("immediate")
    /\ settled < arrived => MessageCanGoOn \/ CanGoOn("immediate")
    /\ operations["afterMessageProcessing"] # <<>> =>
           CanGoOn("afterMessageProcessing") \/ MessageCanGoOn \/ CanGoOn("immediate")

\* Nor does a refresh wait for ever: every operation ends, with success or without.
EveryOperationEnds == \A q \in Queues : operations[q] # <<>> ~> operations[q] = <<>>

\* "We never want to revert group state in the database to an earlier revision ... it
\* is safe to ignore stale writes" (GroupManager.swift:1674-1680): a timer that is
\* written is the one of the revision the model has then.  (One that is not written, as
\* that of a group just inserted, is not what this is about.)
StaleTimerIsIgnored ==
    [][group'.timer # group.timer => group'.timer = Timer[group'.revision]]_vars

==============================================================================
