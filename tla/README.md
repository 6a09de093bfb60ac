# A verification project for Signal-iOS / Yoush

TLA+ models of the parts of the app whose correctness depends on the order in which things
happen: the durable job queue, the path of an incoming message from the socket to the
message manager, requests over the same socket, the queue of groups v2 messages and the updating
of groups, and the sending of a message from its queue to its recipients. TLC checks the models on
small instances; TLAPS proves the invariants and action properties of all of them for every value of the constants.

Paths below are relative to `src/SignalServiceKit/src/` unless they begin with another directory
of the repository.

## 1. Inventory

The app is Swift and Objective-C over one database. `SignalServiceKit` holds the logic,
`SignalMessaging` what the app shares with its extensions, `Signal` the user interface. The parts
that keep state and coordinate:

| part | state | operations | interacts with |
|---|---|---|---|
| Durable job queue (`Util/JobQueue.swift`, `Storage/Jobs/SSKJobRecord.m`, `Util/OWSOperation.m`) | job records in the database; setup flag, running operations, timers in memory | add, restart after launch, work step, run, retry, settle | every queue below that is built on it; reachability |
| Message socket (`Network/WebSockets/OWSWebSocket.m`, `Messages/OWSMessageReceiver.m`) | connection, a serial queue, two flags about the initial queue | connect, close, receive, store, acknowledge, mark as emptied | the service; the decrypt queue, through the database |
| Decryption (`Network/Receiving/MessageDecryptJobQueue.swift`, `Messages/OWSMessageDecrypter.m`) | decrypt jobs, ratchet sessions | decrypt, hand over, drop | the job queue; the content queue, in the same transaction |
| Content queue (`Messages/OWSBatchMessageProcessor.m`) | content jobs, one flag | enqueue, drain in batches | decryption, the message manager, the groups v2 queue |
| Message processing promises (`Messages/MessageProcessing.swift`) | promises waiting for a condition | create, try to resolve | notifications of the queues, the socket and the fetch cycles |
| Groups v2 message queue (`Network/Receiving/GroupsV2MessageProcessor.swift`) | jobs, one flag, a retry timer | enqueue, drain, update the group, retry, discard | the content queue, groups v2 updates |
| Groups v2 updates (`src/SignalMessaging/groups/GroupV2UpdatesImpl.swift`, `GroupsV2Impl.swift`, `GroupsV2Changes.swift`, `groups/GroupManager.swift`) | the local model of a group, two operation queues, a cache of changes | refresh, apply changes, apply a snapshot, change the group | the service, the groups v2 message queue, message processing |
| Fetching of messages (`Messages/MessageFetcherJob.swift`) | active fetch cycles | run, complete | the promises, the socket |
| Requests over the socket (`OWSWebSocket.m` 46-145, 496-690) | requests by id | make, answer, time out, fail all | everybody who asks the service |
| Requests over REST after the socket (`Messages/UD/OWSRequestMaker.swift`) | none of its own | try the socket, fail over | the socket, REST |
| Sending queues (`Network/MessageSenderJobQueue.swift`) | a text and a media queue for each thread, in memory | add, order media behind text, run | the job queue |
| Message sender (`Messages/OWSMessageSender.m`, `OWSMessageSend.swift`, `Messages/Interactions/TSOutgoingMessage.m`, `Messages/OWSFailedMessagesJob.m`) | the state of every recipient, in the message object and in the database | prepare, send to each recipient, judge, sync, retry, mark as failed after a restart | the sending queues, the service, receipts |

What else the app is made of (receipts, disappearing messages, profiles, storage service,
calls, backup, device transfer, caches, the user interface) is listed in `PROJECT.json` with
the reason why it is not modelled.

What is hard, and what makes each part correct:

- **Job queue.** Records survive the process, operations do not; timers, reachability and restarts
  all make an operation run. Correct: jobs of a queue run in the order they were added, no
  job is forgotten, none runs twice at a time, the retry budget survives restarts, everything settles.
- **Socket.** Messages are stored off the thread that receives them and acknowledged later,
  perhaps on another connection. Correct: what the service has been told to forget is stored,
  in order; "the initial queue is emptied" is said only when it is true.
- **Decryption and content queue.** Three transactions take a message from the socket to the manager,
  and the process can die between any two of them. Correct: nothing lost, nothing processed twice,
  order kept, no drain missed.
- **Promises and fetch cycles.** Conditions of four owners are read one after the other while they change, and
  looked at again only when somebody tells. Correct: no promise misses what it waits for, and none resolves too early.
- **Groups v2 messages.** A message may have to wait for its group, off the queue. Correct: one
  drain at a time, order kept across groups, a message processed only with a group model that has
  reached its revision, and settled in the end.
- **Groups v2 updates.** Answers arrive late, after timeouts, from two queues, next to changes of the
  local user. Correct: no way back, no change missing, no wait in a circle.
- **Requests.** The main thread closes the socket while other threads register, write and time out requests.
  Correct: each is completed once, none waits for a socket that is gone.
- **Sending queues.** Two serial queues of one thread depend on each other through an operation with a priority.
  Correct: media after the text before it, never behind the text after it, no standstill.
- **Message sender.** Recipients succeed and fail independently, the job retries as a whole, the states of recipients
  are kept twice. Correct: in a group nobody is sent to again after the service acknowledged, states tell
  what happened, no error is hidden by other recipients' success, every job ends.

## 2. Modules

| module | models | extends |
|---|---|---|
| `OrderedJobs` | what a job queue promises: jobs are performed in the order of their queue and end done, failed or obsolete | - |
| `JobQueue` | `JobQueue.swift`, `SSKJobRecord.m`, `OWSOperation.m` | - |
| `ReliableInbox` | what the receive path promises: what the service forgets is held, and what is held is appended in order to one log, that is processed from its beginning | - |
| `MessageSocket` | the receive path of `OWSWebSocket.m`, `OWSMessageReceiver.m` | - |
| `ReceivePipeline` | socket, decrypt queue and content queue together | `MessageSocket` |
| `MessageProcessing` | the promises of `MessageProcessing.swift` and the fetch cycles of `MessageFetcherJob.swift` over the pipeline | `ReceivePipeline` |
| `SocketRequests` | requests in `OWSWebSocket.m`, `OWSRequestMaker.swift` | - |
| `GroupsV2MessageProcessor` | the queue of groups v2 messages | - |
| `SyncedGroup` | what the updates of a group promise the messages that need it: the model follows the service, each message is settled once, in order, and processed with a model that is new enough | - |
| `GroupV2Updates` | the updating of one group | - |
| `MessageSenderJobQueue` | `MessageSenderJobQueue.swift` | `JobQueue` |
| `MessageSender` | `OWSMessageSender.m` and the recipient states of `TSOutgoingMessage.m` | - |
| `...Proofs` | the theorems about the module named | that module, and the proofs of the module it extends |
| `MC...` | values of the constants for TLC | the module named |

An action is one atomic piece of the code: a write transaction, a block that a dispatch queue runs,
or a callback. What happens inside a transaction or inside a block of a serial queue cannot be
interleaved and is one action; wherever the code gives up its queue or its thread there is a step
boundary. The death of the process is an action (`Relaunch`): variables in the group named as the
database survive it, everything else is lost.

### JobQueue

Jobs are the `sortId`s of the records. `status` and `failureCount` are the record; `setup`,
`starts`, `workSteps` and `runningOperations` the queue object; `op` says where an
operation is between `NSOperationQueue` and `markAsComplete` (the comment above `Phases` lists it);
`retryTimer` and `retryBlocks` are the timer and the main queue blocks of `runAnyQueuedRetry`.
`add`, `startWork`, `workStep`, `RestartOldJobs`, `FinishSetup` and `becameReachable` carry the names of
the code; the steps of an operation are under `Operation(j)`. The subclass of the queue is a
parameter: `QueueOf` for `operationQueue(jobRecord:)`, which must be serial, `MaxRetries` and
`RequiresInternet`. A queue with a limit above one makes no promise about order and is not an
instance of this module. `WorkStepRejects` has the two ends of a `JobError`; the generic catch after them
(`JobQueue.swift:197`), which would leave a running record without an operation, is left out: the six `buildOperation`s of the
repository throw nothing but `JobError.obsolete`, and `saveAsStarted` throws only for a record that is not ready.

`OrderedJobs` is what those who add jobs rely on; `ImplementsOrderedJobs` is the refinement, with
the mapping `jobView`/`performedView`: transactions, operations, retries and restarts are stutters.

### MessageSocket, ReceivePipeline, MessageProcessing

Envelopes are numbered in the order the service got them. The service keeps those it has no
acknowledgement for in `mailbox` and sends them, in order, on each new connection, then
`queue/empty`. `serialQueue` and `mainQueue` are dispatch queues with blocks on them; `persisted`
is the table of received messages. Two kinds of envelope are acknowledged without a record: `Discarded`, which
`OWSMessageReceiver` drops on purpose, and `Unreadable`, whose payload cannot be decrypted or for which storing raises an
exception (`OWSWebSocket.m:803-820`): of these the user is told, and `reported` keeps which.
Whether an envelope is readable is a matter of the envelope, the same at each delivery; an exception thrown now and then for
a good envelope is outside the model, and would lose it (see below). The runs of the pipeline have neither kind. `ReceivePipeline` adds the state of each record of
that table in the decrypt queue, the content jobs, and the
messages handed to `MessageManager`. That the decrypt queue takes records in order, one at a time, is what
`JobQueue` establishes, and is taken from there; its records are single-queue jobs without a retry.
`consumed` is the ratchet: a cipher message can be decrypted while its key has not been used.

`ReliableInbox` is what the service and the code that processes messages rely on. `ImplementsReliableInbox` is the refinement:
`heldView` are the envelopes that have not been lost, be it in a record that can still be decrypted, in the content queue or
processed; `logView` is what was processed followed by what is in the content queue, and the cursor stands between both. Connections,
redelivery, records, the transactions of decryption and restarts are stutters.

`MessageProcessing` adds one promise of either kind, the notifications that have it tried, and the
fetch cycles. `promise` is what it waits for; `tries` says that a block which will look at it is on
the serial queue; the value `"fetched"` is the inside of such a block, after socket and fetch cycles were
found complete and before the database is read. Of those conditions the socket's and the cycles' are read in
one step. A notification is posted to the main thread and from there to the serial queue; the model
has it pending from the step that posts it. The groups v2 queue, which the second step and the second promise also look
at, is empty here; it is modelled on its own.

Taken as given: the device is registered throughout, the debug flag that suppresses work in
the background is off, and the legacy YapDatabase paths are not used. The heartbeat, keep-alive
and the decision when the socket should be open appear as spontaneous connects and closes. Messages are
fetched over the websocket.

### SocketRequests

`state`, `websocket` and `canMakeRequests` are the properties `setState` changes on the main thread, one after
the other, with `setter` saying how far it is; `thread[r]` is where `makeRequest` is for a request, `timer`, `inbound` and
`answers` what is under way to complete it. `maker` is `OWSRequestMaker`, which goes on over REST when the socket
fails and the status is not 413. `completions` keeps every report a request was completed with, `accepted` how often
the service took it.

### GroupsV2MessageProcessor

`revision[g]` is that of the local model of a group (0: none). `drainQueue` starts a chain of
`drainQueueWorkStep`; the model has room for two chains, and that there is one is a property,
`OneDrain`. Updates happen off the serial queue, so that `Update(c)` and other chains interleave.
The compile time flag `groupsV2processProtosInGroupUpdates` ships as FALSE (`Util/FeatureFlags.swift:203`), under
which embedded changes are never applied; it is a variable that no action changes, so that one run covers
the build that ships and one with the flag set.
A message whose group is there with a model that is not v2 is discarded without asking the service; in the model such a group has
revision 0. `UpdatedElsewhere` is an update by one of the operations that `GroupV2Updates` describes.
`goodCitizen` is a remote flag that is sticky, fixed for one launch.

### GroupV2Updates

One group. The state of the group at a revision is given by the set of changes that led there and the
timer of disappearing messages, which is stored apart from the model and can differ from it.
`operations` are the two `OperationQueue`s, `work[q]` is what the first operation of a queue
waits for, `late` what timed-out operations left behind: the promise chain of a timeout is not
cancelled, and writes when it is answered. A group that is not known yet is inserted with the timer unset, which is the same as
disabled (`Inserted`), whatever the snapshot says: only updates of a known group write it. `Applied` is the loop of
`tryToApplyGroupChangesFromServiceNow`, a recursive function on the revisions; a change that does not fit throws, and the
transaction keeps what was written before. Simplifications: the changes of one answer have all
a snapshot each or none has one; `groupRefreshDidSucceed` is part of the success of an operation; a message is
in the queue, being updated for, or settled, its outcome being the one `isRetryableError` derives.
`RemainingRetries` is 3 in the code and 1 in the runs.

This module is also what justifies the action `ServiceUpdates` of `GroupsV2MessageProcessor`: an update
that succeeds has reached the revision it was asked for (`UpdatesReachTheirRevision`) and never lowered
it (`RevisionNeverReverts`). Both, and that the model is never beyond the service, follow from `ImplementsSyncedGroup`: of `SyncedGroup`
an operation that ends is the step that settles its message, with the model it wrote; refreshes without a message, changes of the local
user and late writes are updates; requests, retries, timeouts and the cache are stutters.

`NobodyWaitsForEachOther` says of each state why the two queues are there: a refresh that a message waits for is in the
queue that waits for no messages, so that something can go on whenever anything waits. `EveryOperationEnds` says that, under fairness, it does.

### MessageSenderJobQueue, MessageSender

`MessageSenderJobQueue` is `JobQueue` with two serial queues for each thread, made when first used and gone with the
process. `barrier[j]` is the operation that `buildOperation` puts into the text queue for a media message if
the text queue exists; a media operation starts when its barrier has run. Priorities are those of
`queuePriorityForMessage:`. `renderable` says which messages have content to show.

`MessageSender` is one message. `stored` is its `recipientAddressStates` in the database, `message` the same in the object that
the retries of a job share: `UpdateBoth` is `anyUpdate`, which applies a block to both. `op` is where the job's operation is, `sends`, `attempts`
and `errors` what a run keeps of each recipient. `ServiceAccepts` may be followed by a lost answer. The outcomes
of a request are those `messageSendDidFail` tells apart: mismatched or stale devices, an unregistered user, an untrusted identity,
and everything else, retryable or not. A 409 without a body ends in `failure(nil)` (`OWSMessageSender.m:1561`): the Swift closure that takes it
makes an error of it which no one has marked, and such errors are retryable in production (`Util/NSError+OWSOperation.m:31`); that is one of the
outcomes of `RequestRefused`. `reachable` changes at any time: members leave, contacts are blocked.
Receipts arrive as updates of another object. Left out: the contents for devices and sessions, unidentified
sending, uploads, sync messages and notes to self, unsaved messages, the limits on parallel sends.
`sendRecipientUpdates` is FALSE (`Util/FeatureFlags.swift:223`), so that a second transcript is not sent.

## 3. Runs

Deadlock is not checked in any run: all these systems may come to rest when nothing arrives and the
bounds on launches and connections are used up. Progress is checked by the liveness properties instead.

| run | properties | instance and why it suffices |
|---|---|---|
| `JobQueue` | `RecordsMatchOperations`, `InOrder`, `AttemptsBounded`, `NoLostWakeup`, `WorkDoneOncePerLaunch`, `ImplementsOrderedJobs`, `EveryJobSettles` | 3 jobs of one queue: one with a predecessor and a successor; 1 retry, 2 launches, 1 reachability change: a retry spent before or after the death, timer and reachability racing |
| `SocketDelivery` | `NothingLostByAcknowledging`, `StoredInOrder`, `FirstConnectionEmptied`, `EveryEnvelopeAcknowledged` | 4 envelopes, the second dropped by the receiver without a word and the third unreadable, 2 connections in each of 2 launches: delivery twice, acknowledgement after a reconnect, a flush that outlives its connection, a death between the report to the user and the acknowledgement |
| `SocketEmptied` | violation of `EmptiedMeansStored` | see findings |
| `Pipeline` | `NothingIsLost`, `ProcessedInOrder`, `ImplementsReliableInbox`, `EveryEnvelopeProcessed` | a blocked, a corrupt, a cipher and a plain envelope, batches of 2, 1 connection in each of 2 launches: every transaction of one message next to every one of another, and a death between any two, after which what was not acknowledged is delivered again |
| `FlushPromise` | `DecryptedMeansProcessed`, `NoLostTry`, `PromiseResolves` | 1 envelope, 1 fetch cycle and 1 connection in each of 2 launches; either promise at any moment of them, also after a death that leaves a record and a content job behind |
| `SocketRequests` | `CompletedOnce`, `ClosedSocketLeavesNoneWaiting`, `AcceptedAtMostTwice`, `EveryRequestEnds` | 2 requests, 2 connections: one request registered, written, answered or timed out at every step of closing and connecting, with another before or behind it |
| `GroupMessages` | `OneDrain`, `ProcessedAtMostOnce`, `GroupIsUpToDate`, `SettledInOrder`, `EveryMessageSettled` | 4 messages of 2 groups, both changed once after they were created, one message of a blocked sender; batches of 2, 2 launches |
| `GroupUpdates` | `ModelMatchesRevision`, `NobodyWaitsForEachOther`, `ImplementsSyncedGroup`, `EveryOperationEnds` | 3 revisions, a message that names the last, one more refresh, one failure or timeout: a late answer next to the retry, next to a change of the local user, next to the other queue; cached changes with a gap before them |
| `GroupTimer` | violation of `StaleTimerIsIgnored` | see findings |
| `MessageSenderJobQueue` | `SentInOrder`, `LaterTextDoesNotDelayMedia`, `QueuesNeverStall` | a text, a media message and a text of one thread, the first text with or without renderable content; 1 retry, 2 launches, 1 reachability change: text before, media between, text behind, at either priority |
| `MessageSender` | `AcknowledgedNotSentAgain`, `AcknowledgedStaysSent`, `SentMeansAccepted`, `SuccessHidesNoFailure`, `SyncedWhenDone`, `EveryJobEnds` | a group of 2 others or a contact, 3 attempts, 2 retries, 2 launches: one recipient done and one failed in every run of the job and across the restart |
| `MessageSent` | violation of `SentWhenSucceeded` | see findings |

Every property of a passing run has a mutant: a definition of the model changed as a plausible
mistake in the code would (named in `PROJECT.json`), under which TLC finds the property violated.
The mutants stand before the definition they change, with the comment `Mutant:`.

Types are not among the properties of the runs: the type invariant of every module is a theorem of its proof module.

**Bounds.** Each module names its own: `MaxJobs`, `MaxLaunches`, `MaxReachable`, `MaxEnvelopes`,
`MaxConnections`, `MaxFetchCycles`, `MaxRevision`, `MaxRefreshes`, `MaxFailures` and two `Chains`. They limit what the
environment does, never what the code does in answer, with one exception, the number of chains, of which
the second is never used. `FlushPromise` has one connection in a launch, so that the socket does not close under a
waiting promise; `NoLostTry` is proved for any number of connections, and `PromiseResolves` also holds with
`MaxConnections = 2` and `MaxLaunches = 1` (508 000 states).

**Fairness.** Weak fairness, on the system's own steps: dispatch queues run their blocks, operation
queues start what they are given, timers fire, the service answers or the request times out, and the
socket reconnects (the app's reconnect timer). Nothing is assumed of the user, of arriving
messages, of failures or of deaths. `MessageProcessing` states one condition for all steps of the system instead of one
for each queue: weaker, enough because everything that can happen is finite, and cheaper to check. `MessageSenderJobQueue` states none: its
progress is `QueuesNeverStall`, which is an invariant. Strong fairness appears once, in `GroupsV2MessageProcessor`:
an update that is tried again and again, after a delay each time, succeeds in the end; without it
a message waits for as long as the service fails, as the code means it to.

## 4. Findings

1. **`OWSWebSocket.m:847`** (code). A flush of the serial queue precedes `hasEmptiedInitialQueue`, and
   `willEmptyInitialQueue` calls it off when the socket closes (:837-:843). The flag does not say whose
   flush it expects. When the socket re-opens and receives `queue/empty` again before the old block
   runs, the old block marks the new queue as emptied with messages still to be stored. `FirstConnectionEmptied` is what
   does hold. Run `SocketEmptied`.
2. **`GroupManager.swift:1651`** (code). The disappearing messages timer of an update is written in step 2,
   the check for a stale revision is in step 3: a stale snapshot puts an old timer back, though the comment
   of the check says stale writes are ignored. `StaleTimerIsIgnored` is about writes to a known group; that an inserted group
   has no timer at all is the first item below. Run `GroupTimer`.
3. **`OWSMessageSender.m:987`** (code). When the prekey update of a send cannot be unlocked (:907-:919) no
   recipient has an error, and the handler takes the run for one whose errors are all to be ignored: if any
   recipient was marked as sent before, by an earlier run or a receipt, the send is a success and the other recipients are
   never sent to: they stay "sending" until `OWSFailedMessagesJob` marks them as failed at the next launch, and the job is gone. The operation asserts that the message is sent then (:277). Run `MessageSent`.

Met while reading, with no run of their own, since nothing is promised of them or a run would only restate the line:

- A group that is inserted from a snapshot gets no disappearing messages configuration (`GroupManager.swift:1608`, then :1557-1584,
  where the token goes into the info message only), though the comments at :1556 and :1586 leave the configuration alone only for a nil token.
  Modelled as it is (`Inserted`).
- An exception while an envelope is stored (`OWSWebSocket.m:809`) is taken for an invalid envelope: the user is notified and the
  envelope acknowledged (:822), so that a good one, for which the database failed, would be gone.
- The throttle at `GroupV2UpdatesImpl.swift:115` is the wrong way round: a refresh less than five
  minutes after the last is done, one more than five minutes after is skipped. Modelled as it is (`isThrottled`).
- `JobQueue.swift:92` says reachability reruns any jobs that wait for retry; :288 reruns the first running operation.
- `MessageProcessing.swift:87` promises to block on decryption; pending jobs are ready records, and a record is marked as
  running as soon as a work step sees it (`JobQueue.swift:129`), so that a message being decrypted is not waited for.
  `DecryptedMeansProcessed` is what does hold, of both promises, and no property says more of a record whose decryption runs.
- `MessageSenderJobQueue.swift:110` has media wait for "all previous operations"; text of a lower priority than the media's is
  overtaken. `SentInOrder` is stated with priorities.
- `makeRequest` (`OWSWebSocket.m:554`) leaves a request it could not build in the map until the socket closes; `EveryRequestEnds` excepts it.
- A contact is sent the message again when the transcript for linked devices fails retryably, since the states of a
  contact's retry are not looked at (`OWSMessageSender.m:896`); `AcknowledgedNotSentAgain` is about groups. A retry of the job also prepares anew
  recipients of whom :947 says they can no longer be retried.
- `anyUpdate` applies a block to the object in memory and to the database copy (`TSInteraction+SDS.swift:3132`); where a receipt
  was stored by another object in between, the two differ and what follows goes by the one in memory.
- `MessageFetcherJob.isFetchCycleComplete` (:127-131) answers whether the cycle is still active; nobody creates the promise that asks.
- `hasWebsocketSendFailed` (`OWSMessageSend.swift:46`) is set and never read.

## 5. Proofs

Eight modules hold the proofs. All results are for every value of the constants that the assumptions of the modules
allow: bounds that are naturals, a batch of at least one, kinds that are kinds, and in `MessageSenderJobQueue` that two jobs share a
queue when they share thread and kind.

| module | proves, besides the types | along |
|---|---|---|
| `JobQueueProofs` | `RecordsMatchOperations`, `InOrder`, `OneRunAtATime`, `OneOperationPerJob`, `NoLostWakeup`, `RetryBudget`, `AttemptsBounded`, `WorkDoneOncePerLaunch`, and that `JobQueue` implements `OrderedJobs` | `Bookkeeping`, `ExecutesInOrder`, `Counters` |
| `MessageSocketProofs` | `NothingLostByAcknowledging`, `StoredInOrder`, `FirstConnectionEmptied` | `DeliveryInv`; a second invariant for the first connection |
| `MessageProcessingProofs` | of the pipeline `NothingIsLost`, `ProcessedOnce`, `ProcessedInOrder`, `NoLostDrain`, and that `ReceivePipeline`, with the promises and without, implements `ReliableInbox`; of the promises `DecryptedMeansProcessed`, `NoLostTry` | `PipelineInv`, `InboxInv`, `DrainInv`; `PromiseInv`, `TryInv` |
| `SocketRequestsProofs` | `StateMatchesWebsocket`, `CompletedOnce`, `ClosedSocketLeavesNoneWaiting`, `WaitingIsTimed`, `AcceptedAtMostTwice`, `FulfilledMeansAccepted` | one invariant for each, on those before it |
| `GroupsV2MessageProcessorProofs` | `OneDrain`, `ProcessedAtMostOnce`, `GroupIsUpToDate`, `SettledInOrder`, `NothingIsStranded`, `NoLostDrain` | `OneDrain`, then `Bookkeeping` |
| `GroupV2UpdatesProofs` | `RevisionNeverReverts`, `ModelMatchesRevision`, `UpdatesReachTheirRevision`, `NobodyWaitsForEachOther`, `NothingIsAhead`, and that `GroupV2Updates` implements `SyncedGroup` | `UpdatesInv`, `WaitInv`, `NothingIsAhead` |
| `MessageSenderJobQueueProofs` | `SentInOrder`, `LaterTextDoesNotDelayMedia`, `QueuesNeverStall` | `Bookkeeping` of `JobQueue`, `SendInv` |
| `MessageSenderProofs` | `AcknowledgedNotSentAgain`, `AcknowledgedStaysSent`, `SentMeansAccepted`, `SuccessHidesNoFailure`, `SyncedWhenDone`, `GivenUpIsNotSending` | `RunInv`, `AcknowledgedInv` |

Why the strengthenings are needed:

- **Job queue.** Which record `workStep` picks next depends on the order of ids. `Bookkeeping` adds that ids are given out in
  order (`IdsGivenOut`), that the process has no operation before its setup is done (`NothingBeforeSetup`), that each live job
  occurs in `runningOperations`, which increases (`Registered`, `Increasing`), and that no older job is still ready once a job has an
  operation (`OldestFirst`). It says nothing of a serial queue, so that the sender's queues can use it; that of the jobs of a queue
  the first one executes (`ExecutesInOrder`) comes on top. The refinement has a lemma for each abstract action and one for the stutters.
- **Socket.** An acknowledgement is safe because the block that stores comes first: what was sent on this connection
  is received, the blocks of the serial queue follow each other in order, and an acknowledgement on the main queue is of something
  stored. `FirstConnectionEmptied` needs in addition where the blocks of a connection stand before its flush.
- **Pipeline.** `Delivery(p)` is the sequence of what was processed followed by the content queue; records before the running one are
  gone, a used key has a delivery, deliveries are once and in order. Every step of the pipeline is one of the socket or leaves it
  alone (`PipelineStepsOfSocket`), so that the socket's invariant is not proved twice. That
  an envelope is held from the moment it is stored (`HeldIsStored`) is where all of this comes together: the refinement adds that what is
  delivered is stored and what is dropped is not (`InboxInv`).
- **Promises.** Every step is one of the pipeline, or has to do with `queue/empty`, which the pipeline leaves out
  (`PromiseStepsOfPipeline`). `NoLostTry` needs that a ready record has a work step coming and a content job a drain
  (`ReadyIsFound`, `DrainInv`): a try that finds a queue busy is then told when it is not. Steps that post a notification, steps that
  nobody hears of, and the tries have a lemma each.
- **Groups v2 updates.** A message is processed at the end of the operation that was enqueued for it, in the queue and under the mode of
  that operation. `UpdatesInv` says that at most one such operation is queued, and only while the message waits
  (`updating`), that what an operation waits for is its own, and that changes fetched with an upper revision are enough to reach it. The
  loop over the changes (`AfterChangesUpTo`) keeps a model that was right right and never takes it back: an induction over the
  revisions, done by a least counterexample (`LeastElement`, `IntervalInduction` take a set, where the library's induction theorems
  take an operator). That nobody waits for each other needs the converse: the operation of a message that waits is in the immediate
  queue, with nothing that waits for messages before it (`WaitInv`). The refinement needs that nothing newer than the service is
  ever written: not only the model is behind the service, but so is what is cached, on its way or late (`NothingIsAhead`).
- **Sending queues.** The barrier of a queued media job is behind the text that was there before; `FreeStep` is what
  a step of `JobQueue` does whatever its queues are. For `QueuesNeverStall` every
  queue that holds operations has one that is next by priority and order (`OneIsNext`), and a text operation waits for nothing else.
- **Sender.** Which recipients a run touches is decided by `message`, what survives it by `stored`; `AcknowledgedInv` ties both to
  `acknowledged` in every phase, restarts included. Errors exist only of recipients that failed in this run (`RunInv`).

Only model-checked:

- Liveness (`EveryJobSettles`, `EveryEnvelopeAcknowledged`, `EveryEnvelopeProcessed`, `PromiseResolves`, `EveryRequestEnds`, `EveryMessageSettled`,
  `EveryOperationEnds`, `EveryJobEnds`): the prover does not reason about fairness. `OrderedJobs`, `ReliableInbox` and
  `SyncedGroup` state no fairness, so that the refinements are of safety.

## 6. Not modelled

`PROJECT.json` gives a reason for each part. In short: `MessageManager` is a large dispatch in which each branch is one write; early
messages, typing indicators and view-once messages are lists and timers in memory; disappearing messages are about time, which no module
measures; receipts, prekeys, identities and profiles are single requests or writes with a retry; the storage service, key
backup, device transfer and backup are protocols of their own with much I/O; calls live in binary frameworks; the rest is
user interface, generated accessors and vendored libraries (most of the C in the repository).

Of the parts that are modelled: fetching over REST, the promise for one fetch cycle, the promise for a drained websocket
(the first condition of the promise for everything), the contents of messages, sealed sender, attachments, membership and
profile keys of groups, the creation of groups, the YapDatabase twins.
