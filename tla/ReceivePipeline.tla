--------------------------- MODULE ReceivePipeline ---------------------------
(***************************************************************************)
(* The way of an envelope from the service to MessageManager: MessageSocket*)
(* inserts records; the decrypt queue (MessageDecryptJobQueue.swift and    *)
(* OWSMessageDecrypter.m, a JobQueue with one serial operation queue)      *)
(* turns a record into a content job; OWSMessageContentQueue               *)
(* (OWSBatchMessageProcessor.m) drains the content jobs in batches.        *)
(*                                                                         *)
(* The decrypt queue is taken with what JobQueue establishes: records are  *)
(* executed one at a time in the order of their ids, and the records of a  *)
(* dead process are made ready again.  The two transactions of a failure   *)
(* are one step, since decryption errors are not retried.                  *)
(*                                                                         *)
(* queue/empty is left out: nothing here reads what it changes.            *)
(* "Processed" means handed to MessageManager or to the groups v2 queue in *)
(* the transaction that removes the content job.                           *)
(***************************************************************************)
EXTENDS MessageSocket, FiniteSetsExt

CONSTANTS
    Kind,           \* what decryption makes of an envelope
    BatchSize       \* kIncomingMessageBatchSize

\* Decrypting a "cipher" message uses up a message key of its session, so that a
\* second decryption fails; "plain" envelopes have no payload to decrypt; the
\* content of "blocked" cipher messages is thrown away; "corrupt" ones fail.
ASSUME KindAssumption == Kind \in [Envelopes -> {"cipher", "plain", "blocked", "corrupt"}]

ASSUME BatchSizeAssumption == BatchSize \in Nat \ {0}

VARIABLES
    \* the database
    record,         \* status of the decrypt job records, parallel to persisted
    consumed,       \* the cipher messages whose key has been used
    content,        \* the envelopes of the content jobs, in order
    processed,      \* the envelopes that were processed, in order
    \* the decrypt queue of this process
    isSetup,
    workSteps,      \* whether a call of workStep is pending
    report,         \* what decryption has reported of the record being executed
    \* OWSMessageContentQueue
    drainCalls,     \* whether a block of drainQueue is pending
    drainStep,      \* where drainQueueWorkStep is
    batchJobs       \* how many jobs its read transaction returned

decryptVars  == <<record, consumed, isSetup, workSteps, report>>
drainVars    == <<drainCalls, drainStep, batchJobs>>
pipelineVars == <<decryptVars, content, processed, drainVars>>
vars         == <<socketVars, pipelineVars>>

TypeOK ==
    /\ SocketTypeOK
    /\ record \in Seq({"ready", "running", "gone"})
    /\ Len(record) = Len(persisted)
    /\ consumed \subseteq Envelopes
    /\ content \in Seq(Envelopes)
    /\ processed \in Seq(Envelopes)
    /\ isSetup \in BOOLEAN
    /\ workSteps \in BOOLEAN
    /\ report \in {"none", "success", "failure"}
    /\ drainCalls \in BOOLEAN
    /\ drainStep \in {"none", "pending", "read"}
    /\ batchJobs \in 0 .. BatchSize

isDrainingQueue == drainStep # "none"

Init ==
    /\ SocketInit
    /\ record = <<>>
    /\ consumed = {}
    /\ content = <<>>
    /\ processed = <<>>
    /\ isSetup = FALSE
    /\ workSteps = FALSE
    /\ report = "none"
    /\ drainCalls = TRUE
    /\ drainStep = "none"
    /\ batchJobs = 0

Relaunch ==
    /\ SocketRelaunch
    /\ isSetup' = FALSE
    /\ workSteps' = FALSE
    /\ report' = "none"
    /\ drainCalls' = TRUE
    /\ drainStep' = "none"
    /\ batchJobs' = 0
    /\ UNCHANGED <<record, consumed, content, processed>>

------------------------------------------------------------------------------
\* The decrypt queue

\* handleReceivedEnvelopeData: the record is ready, and its completion makes the
\* queue look for it once it is set up.
Receive ==
    /\ StoreMessage
    /\ IF Len(persisted') > Len(persisted)
       THEN /\ record' = Append(record, "ready")
            /\ workSteps' = (workSteps \/ isSetup)
       ELSE UNCHANGED <<record, workSteps>>
    /\ UNCHANGED <<consumed, isSetup, report, content, processed, drainVars>>

saveRunningAsReady(status) == IF status = "running" THEN "ready" ELSE status

\* defaultSetup
Setup ==
    /\ ~isSetup
    /\ isSetup' = TRUE
    /\ record' = [i \in DOMAIN record |-> saveRunningAsReady(record[i])]
    /\ workSteps' = TRUE
    /\ UNCHANGED <<socketVars, consumed, report, content, processed, drainVars>>

IsReady(i) == record[i] = "ready"

\* workStep: the first ready record gets an operation.
StartDecrypt(i) ==
    /\ workSteps
    /\ isSetup
    /\ IsReady(i)
    /\ \A k \in 1 .. i - 1 : ~IsReady(k)
    /\ record' = [record EXCEPT ![i] = "running"]
    /\ UNCHANGED <<socketVars, consumed, isSetup, workSteps, report, content, processed,
                   drainVars>>

\* workStep without a ready record: didFlushQueue.
FlushDecrypt ==
    /\ workSteps
    /\ isSetup
    /\ \A i \in DOMAIN record : ~IsReady(i)
    /\ workSteps' = FALSE
    /\ UNCHANGED <<socketVars, record, consumed, isSetup, report, content, processed,
                   drainVars>>

\* Mutant: the queue has more than one operation at work.
IsStarted(i) == isSetup /\ record[i] = "running"

\* The serial operation queue works on the first of its operations.
IsExecuting(i) ==
    /\ isSetup
    /\ record[i] = "running"
    /\ \A k \in 1 .. i - 1 : record[k] # "running"

IsDuplicate(e) == e \in consumed

UsesKey(e) == Kind[e] \in {"cipher", "blocked"} /\ ~IsDuplicate(e)

HasContent(e) == Kind[e] = "plain" \/ (Kind[e] = "cipher" /\ ~IsDuplicate(e))

KeepsSession(e) == consumed' = IF UsesKey(e) THEN consumed \cup {e} ELSE consumed

\* Mutant: the session is saved in a transaction of its own, before the content.
DecryptInTwoTransactions(e) ==
    /\ KeepsSession(e)
    /\ \/ /\ HasContent(e)
          /\ content' = Append(content, e)
          /\ drainCalls' = TRUE
          /\ report' = "success"
       \/ /\ ~HasContent(e)
          /\ report' = "failure"
          /\ UNCHANGED <<content, drainCalls>>
       \/ /\ UsesKey(e)
          /\ UNCHANGED <<content, drainCalls, report>>

\* Mutant: nobody drains the content queue after the commit.
DecryptWithoutDrain(e) ==
    /\ KeepsSession(e)
    /\ content' = IF HasContent(e) THEN Append(content, e) ELSE content
    /\ report' = IF HasContent(e) THEN "success" ELSE "failure"
    /\ UNCHANGED drainCalls

\* The transaction that decrypts: the session, the content job and, after it
\* commits, the call of drainQueue.
DecryptTransaction(e) ==
    /\ KeepsSession(e)
    /\ IF HasContent(e)
       THEN /\ content' = Append(content, e)
            /\ drainCalls' = TRUE
            /\ report' = "success"
       ELSE /\ report' = "failure"
            /\ UNCHANGED <<content, drainCalls>>

Decrypt(i) ==
    /\ IsExecuting(i)
    /\ report = "none"
    /\ DecryptTransaction(persisted[i])
    /\ UNCHANGED <<socketVars, record, isSetup, workSteps, processed, drainStep, batchJobs>>

\* reportSuccess removes the record, reportError ends it as permanently failed.
FinishDecrypt(i) ==
    /\ IsExecuting(i)
    /\ report # "none"
    /\ record' = [record EXCEPT ![i] = "gone"]
    /\ report' = "none"
    /\ UNCHANGED <<socketVars, consumed, isSetup, workSteps, content, processed, drainVars>>

------------------------------------------------------------------------------
\* OWSMessageContentQueue

\* No block of the serial queue runs while drainQueueWorkStep does.
SerialQueueIsFree == drainStep # "read"

drainQueue ==
    /\ drainCalls
    /\ SerialQueueIsFree
    /\ drainCalls' = FALSE
    /\ drainStep' = IF isDrainingQueue THEN drainStep ELSE "pending"
    /\ UNCHANGED <<socketVars, decryptVars, content, processed, batchJobs>>

registrationStateDidChange ==
    /\ ~drainCalls
    /\ drainCalls' = TRUE
    /\ UNCHANGED <<socketVars, decryptVars, content, processed, drainStep, batchJobs>>

\* finder.nextJobs: how many jobs it may return.
NextJobs(size) == {n \in 0 .. Len(content) : n <= size}

\* The read transaction of drainQueueWorkStep; in the background a batch is one job.
ReadBatch ==
    /\ drainStep = "pending"
    /\ drainStep' = "read"
    /\ \E size \in {1, BatchSize} : batchJobs' = Max(NextJobs(size))
    /\ UNCHANGED <<socketVars, decryptVars, content, processed, drainCalls>>

DrainIsDone ==
    /\ drainStep = "read"
    /\ batchJobs = 0
    /\ drainStep' = "none"
    /\ UNCHANGED <<socketVars, decryptVars, content, processed, drainCalls, batchJobs>>

\* Mutant: the jobs are removed in a transaction of their own.
RemoveJobsLater(n) == content' = content \/ content' = SubSeq(content, n + 1, Len(content))

removeJobs(n) == content' = SubSeq(content, n + 1, Len(content))

\* The write transaction processes the batch, or its first jobs when the app is
\* sent to the background meanwhile.
ProcessBatch ==
    /\ drainStep = "read"
    /\ \E n \in 1 .. batchJobs :
        /\ processed' = processed \o SubSeq(content, 1, n)
        /\ removeJobs(n)
    /\ drainStep' = "pending"
    /\ batchJobs' = 0
    /\ UNCHANGED <<socketVars, decryptVars, drainCalls>>

------------------------------------------------------------------------------

SocketAlone ==
    /\ Arrive \/ Connect \/ Close \/ ReceiveMessage \/ Acknowledge
    /\ UNCHANGED pipelineVars

DecryptQueueStep ==
    \/ Setup
    \/ FlushDecrypt
    \/ \E i \in DOMAIN record : StartDecrypt(i) \/ Decrypt(i) \/ FinishDecrypt(i)

drainQueueWorkStep == ReadBatch \/ DrainIsDone \/ ProcessBatch

Next ==
    \/ SocketAlone
    \/ Relaunch
    \/ Receive
    \/ DecryptQueueStep
    \/ drainQueue \/ drainQueueWorkStep
    \/ registrationStateDidChange

\* As in MessageSocket; the operation queue and the database run what they are given,
\* and the serial queue of the content queue runs its blocks in turn.
Fairness ==
    /\ WF_vars(Connect /\ UNCHANGED pipelineVars)
    /\ WF_vars(ReceiveMessage /\ UNCHANGED pipelineVars)
    /\ WF_vars(Acknowledge /\ UNCHANGED pipelineVars)
    /\ WF_vars(Receive)
    /\ WF_vars(Setup)
    /\ WF_vars(FlushDecrypt \/ \E i \in DOMAIN record : StartDecrypt(i))
    /\ WF_vars(\E i \in DOMAIN record : Decrypt(i) \/ FinishDecrypt(i))
    /\ WF_vars(drainQueue)
    /\ WF_vars(drainQueueWorkStep)

Spec == Init /\ [][Next]_vars /\ Fairness

------------------------------------------------------------------------------
(***************************************************************************)
(* Properties                                                              *)
(***************************************************************************)

Deliverable(e) == e \notin Dropped /\ Kind[e] \in {"cipher", "plain"}

IsIn(e, s) == \E i \in DOMAIN s : s[i] = e

\* A record of e that still leads to its content.
HasUsableRecord(e) ==
    /\ \E i \in DOMAIN record : persisted[i] = e /\ record[i] # "gone"
    /\ HasContent(e)

\* An envelope the service has forgotten is in a record that can still be decrypted,
\* in a content job, or processed: nothing is lost by acknowledging it, whatever
\* transaction the process dies between.
NothingIsLost ==
    \A e \in 1 .. arrived :
        Deliverable(e) /\ e \notin mailbox =>
            HasUsableRecord(e) \/ IsIn(e, content) \/ IsIn(e, processed)

\* A cipher message is processed at most once, however often it is delivered and
\* decrypted.
ProcessedOnce ==
    \A e \in Envelopes : Kind[e] = "cipher" =>
        \A i, k \in DOMAIN processed : processed[i] = e /\ processed[k] = e => i = k

\* Envelopes are processed in the order the service received them.
ProcessedInOrder ==
    \A i \in DOMAIN processed : \A e \in Envelopes :
        e < processed[i] /\ Deliverable(e) => \E k \in 1 .. i : processed[k] = e

\* A content job never waits without a drain that will find it: neither is the flag
\* set with nobody at work, nor is a call dropped that comes while a drain ends.
NoLostDrain == content # <<>> => isDrainingQueue \/ drainCalls

\* The pipeline is a reliable inbox.  Held is what has not been lost, wherever it is on its
\* way; the log is what was processed and what the content queue has; its cursor stands
\* between both, so that a batch moves the cursor and rewrites nothing.
heldView ==
    {e \in Envelopes : Deliverable(e) /\
        (HasUsableRecord(e) \/ IsIn(e, content) \/ IsIn(e, processed))}

logView == processed \o content

Inbox ==
    INSTANCE ReliableInbox WITH
        held <- heldView, log <- logView, cursor <- Len(processed),
        Wanted <- {e \in Envelopes : Deliverable(e)},
        Unique <- {e \in Envelopes : Kind[e] = "cipher"}

ImplementsReliableInbox == Inbox!Spec

\* Every envelope with content is processed in the end.
EveryEnvelopeProcessed ==
    \A e \in Envelopes : Deliverable(e) =>
        (e \in mailbox ~> IsIn(e, processed))
==============================================================================
