-------------------------- MODULE MessageProcessing --------------------------
(***************************************************************************)
(* The promises of MessageProcessing.swift over the receive pipeline, and  *)
(* the fetch cycles of MessageFetcherJob.swift that one of them looks at.  *)
(* One promise is created, at any moment:                                  *)
(*                                                                         *)
(* flushMessageDecryptionAndProcessingPromise waits for the decrypt queue, *)
(* then for the content queue;                                             *)
(* allMessageFetchingAndProcessingPromise waits until the socket has       *)
(* emptied its initial queue, no fetch cycle is active and both queues are *)
(* empty.                                                                  *)
(*                                                                         *)
(* Conditions are read in blocks of the serial queue of MessageProcessing: *)
(* one when the promise is created, and one for every notification.        *)
(* Messages are fetched over the websocket, so that a fetch cycle does     *)
(* nothing but ask for it to be open.  The device stays registered, so     *)
(* that nobody is told of its registration state.                          *)
(***************************************************************************)
EXTENDS ReceivePipeline

CONSTANT MaxFetchCycles     \* bound: how often run is called in one life of the process

ASSUME FetchCyclesAssumption == MaxFetchCycles \in Nat

VARIABLES
    \* MessageFetcherJob
    fetchCycles,        \* how often run was called
    activeFetchCycles,  \* how many of them are not complete
    fetchOperations,    \* the operations of operationQueue
    \* MessageProcessing
    promise,            \* what the promise waits for
    tries,              \* whether a block that tries to resolve it is pending
    \* history
    decrypted           \* what was in the content queue when it was created

fetchVars   == <<fetchCycles, activeFetchCycles, fetchOperations>>
promiseVars == <<promise, tries, decrypted>>
allVars     == <<vars, fetchVars, promiseVars>>

\* "fetched" is inside a block: the socket is drained and no fetch cycle is active, and
\* the database is to be read.
Waiting == {"decryptStep", "processingStep", "everything", "fetched"}

PromiseTypeOK ==
    /\ fetchCycles \in 0 .. MaxFetchCycles
    /\ activeFetchCycles \in 0 .. fetchCycles
    /\ fetchOperations \in 0 .. activeFetchCycles
    /\ promise \in {"none", "resolved"} \cup Waiting
    /\ tries \in BOOLEAN
    /\ decrypted \subseteq Envelopes

PromiseInit ==
    /\ Init
    /\ fetchCycles = 0
    /\ activeFetchCycles = 0
    /\ fetchOperations = 0
    /\ promise = "none"
    /\ tries = FALSE
    /\ decrypted = {}

------------------------------------------------------------------------------
\* The promises and what they read

Create(step) ==
    /\ promise = "none"
    /\ promise' = step
    /\ tries' = TRUE
    /\ decrypted' = {content[i] : i \in DOMAIN content}
    /\ UNCHANGED <<vars, fetchVars>>

flushMessageDecryptionAndProcessingPromise == Create("decryptStep")

allMessageFetchingAndProcessingPromise == Create("everything")

\* hasPendingJobs of the decrypt queue asks getNextReady.
isDecryptingIncomingMessages == \E i \in DOMAIN record : IsReady(i)

\* Mutant: the content queue is not looked at.
NothingToProcess == FALSE

isProcessingIncomingMessages == content # <<>>

isWebsocketDrained == state = "open" /\ hasEmptiedInitialQueue

areAllFetchCyclesComplete == activeFetchCycles = 0

\* A block of the serial queue finds the promise in this step.
Try(step) ==
    /\ tries
    /\ promise = step
    /\ UNCHANGED <<vars, fetchVars, decrypted>>

\* The block of the next step is dispatched where this one is over.
tryToResolveDecryptStepPromises ==
    /\ Try("decryptStep")
    /\ promise' = IF isDecryptingIncomingMessages THEN promise ELSE "processingStep"
    /\ tries' = ~isDecryptingIncomingMessages

tryToResolveProcessingStepPromises ==
    /\ Try("processingStep")
    /\ promise' = IF isProcessingIncomingMessages THEN promise ELSE "resolved"
    /\ tries' = FALSE

tryToResolveAllMessageFetchingAndProcessingPromises ==
    /\ Try("everything")
    /\ promise' = IF isWebsocketDrained /\ areAllFetchCyclesComplete
                  THEN "fetched"
                  ELSE promise
    /\ tries' = FALSE

hasPendingDecryptionOrProcess ==
    isDecryptingIncomingMessages \/ isProcessingIncomingMessages

\* The read transaction that ends isAllMessageFetchingAndProcessingComplete.
ReadPendingJobs ==
    /\ promise = "fetched"
    /\ promise' = IF hasPendingDecryptionOrProcess THEN "everything" ELSE "resolved"
    /\ tries' = (tries /\ hasPendingDecryptionOrProcess)
    /\ UNCHANGED <<vars, fetchVars, decrypted>>

------------------------------------------------------------------------------
\* Notifications, and the steps that each has tried.  A block that is dispatched before
\* a step is registered runs before it is, and finds nothing to resolve.

AllPromise == {"everything", "fetched"}

Notify(steps) ==
    /\ tries' = (tries \/ promise \in steps)
    /\ UNCHANGED <<promise, decrypted>>

\* Mutant: MessageProcessing does not observe the notification.
DecryptionFlushedUnheard == FlushDecrypt /\ UNCHANGED <<fetchVars, promiseVars>>

\* messageDecryptionDidFlushQueue: workStep found no ready record.
DecryptionFlushed ==
    /\ FlushDecrypt
    /\ Notify({"decryptStep"} \cup AllPromise)
    /\ UNCHANGED fetchVars

\* messageProcessingDidFlushQueue: a batch was empty.
ProcessingFlushed ==
    /\ DrainIsDone
    /\ Notify({"processingStep"} \cup AllPromise)
    /\ UNCHANGED fetchVars

\* setState to open and to closed, and the end of the initial queue.
webSocketStateDidChange ==
    /\ Notify(AllPromise)
    /\ UNCHANGED <<pipelineVars, fetchVars>>

SocketOpensOrCloses == (Connect \/ Close) /\ webSocketStateDidChange

\* Mutant: the end of the initial queue is not told.
InitialQueueIsEmptiedUnheard ==
    /\ MarkEmptied
    /\ willEmptyInitialQueue
    /\ UNCHANGED <<pipelineVars, fetchVars, promiseVars>>

InitialQueueIsEmptied ==
    /\ MarkEmptied
    /\ willEmptyInitialQueue
    /\ webSocketStateDidChange

\* A push message, the app coming to the foreground, a pull of the conversation list.
RunFetchCycle ==
    /\ fetchCycles < MaxFetchCycles
    /\ fetchCycles' = fetchCycles + 1
    /\ activeFetchCycles' = activeFetchCycles + 1
    /\ fetchOperations' = fetchOperations + 1
    /\ Notify(AllPromise)
    /\ UNCHANGED vars

\* requestSocketOpen: the socket connects of its own in any case.
FetchMessages ==
    /\ fetchOperations > 0
    /\ fetchOperations' = fetchOperations - 1
    /\ UNCHANGED <<vars, fetchCycles, activeFetchCycles, promiseVars>>

\* The block of the completion queue waits for all operations, those of later cycles too.
CompleteFetchCycle ==
    /\ activeFetchCycles > 0
    /\ fetchOperations = 0
    /\ activeFetchCycles' = activeFetchCycles - 1
    /\ Notify(AllPromise)
    /\ UNCHANGED <<vars, fetchCycles, fetchOperations>>

------------------------------------------------------------------------------

\* The promise dies with the process, and so do the fetch cycles.
RelaunchWithoutPromise ==
    /\ Relaunch
    /\ fetchCycles' = 0
    /\ activeFetchCycles' = 0
    /\ fetchOperations' = 0
    /\ promise' = "none"
    /\ tries' = FALSE
    /\ decrypted' = {}

\* Of the rest MessageProcessing hears nothing.
Unheard == UNCHANGED <<fetchVars, promiseVars>>

\* queue/empty, which the pipeline leaves out, is sent as messages are.
SocketReceives ==
    /\ ReceiveMessage \/ ReceiveQueueEmpty
    /\ UNCHANGED pipelineVars
    /\ Unheard

SocketSerialQueue ==
    /\ Receive \/ (FinishFlush /\ UNCHANGED pipelineVars)
    /\ Unheard

MainQueue ==
    \/ InitialQueueIsEmptied
    \/ /\ Acknowledge \/ (MarkEmptied /\ ~willEmptyInitialQueue)
       /\ UNCHANGED pipelineVars
       /\ Unheard

DecryptWorkStep ==
    \/ DecryptionFlushed
    \/ (\E i \in DOMAIN record : StartDecrypt(i)) /\ Unheard

DecryptOperation ==
    /\ \E i \in DOMAIN record : Decrypt(i) \/ FinishDecrypt(i)
    /\ Unheard

ContentWorkStep == ProcessingFlushed \/ ((ReadBatch \/ ProcessBatch) /\ Unheard)

FetchStep == FetchMessages \/ CompleteFetchCycle

PromiseStep ==
    \/ tryToResolveDecryptStepPromises
    \/ tryToResolveProcessingStepPromises
    \/ tryToResolveAllMessageFetchingAndProcessingPromises
    \/ ReadPendingJobs

\* The steps that queues, timers and the service take of their own.
SystemStep ==
    \/ SocketReceives \/ SocketSerialQueue \/ MainQueue
    \/ Setup /\ Unheard
    \/ DecryptWorkStep \/ DecryptOperation
    \/ drainQueue /\ Unheard
    \/ ContentWorkStep
    \/ FetchStep
    \/ PromiseStep

PromiseNext ==
    \/ SystemStep
    \/ flushMessageDecryptionAndProcessingPromise
    \/ allMessageFetchingAndProcessingPromise
    \/ RunFetchCycle
    \/ Arrive /\ UNCHANGED pipelineVars /\ Unheard
    \/ SocketOpensOrCloses
    \/ RelaunchWithoutPromise

\* Something goes on while anything can: no queue stops for good, and the socket is opened
\* again.  What else happens is bounded, and every step of the system uses something up,
\* so that fairness to each queue of its own would say no more.
PromiseFairness == WF_allVars(SystemStep \/ (SocketOpensOrCloses /\ state' = "open"))

PromiseSpec == PromiseInit /\ [][PromiseNext]_allVars /\ PromiseFairness

------------------------------------------------------------------------------
(***************************************************************************)
(* Properties                                                              *)
(***************************************************************************)

\* Whatever had left the decrypt queue when the promise was created has been
\* processed when it resolves, with every notification and every try between.
DecryptedMeansProcessed ==
    promise = "resolved" => \A e \in decrypted : IsIn(e, processed)

\* A work step that finds no ready record posts messageDecryptionDidFlushQueue.
DecryptionWillFlush == workSteps \/ ~isSetup

\* So does a work step of the content queue that finds no job.
ProcessingWillFlush == isDrainingQueue \/ drainCalls

\* A promise that waits with no block to try it waits for something that will tell: a
\* condition never comes true unheard, or between being read and being waited for.
NoLostTry ==
    ~tries =>
        /\ promise = "decryptStep" => DecryptionWillFlush
        /\ promise = "processingStep" => ProcessingWillFlush
        /\ promise = "everything" =>
              \/ ~isWebsocketDrained \/ ~areAllFetchCyclesComplete
              \/ DecryptionWillFlush \/ ProcessingWillFlush

\* Neither promise hangs: the socket drains, fetch cycles complete, both queues run
\* empty, and whichever is last has the promise resolved.
PromiseResolves == promise \in Waiting ~> promise \in {"none", "resolved"}
==============================================================================
