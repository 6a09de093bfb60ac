---------------------------- MODULE MessageSender ----------------------------
(***************************************************************************)
(* Sending one message to the recipients of its thread (OWSMessageSender.m)*)
(* from its durable job (MessageSenderJobQueue.swift), with the states     *)
(* TSOutgoingMessage.m keeps for the recipients.                           *)
(*                                                                         *)
(* The states are kept twice: in the message object that the retries of    *)
(* the job share, and in the database.  Every update goes to both copies,  *)
(* except for those that come with another object: receipts, and what the  *)
(* jobs of a launch do.                                                    *)
(***************************************************************************)
EXTENDS Naturals

CONSTANTS
    Recipients,
    Contact,        \* the recipient, if the thread is a contact thread
    MaxAttempts,    \* kMaxRetriesPerRecipient
    MaxRetries,     \* maxRetries of the job queue
    MaxLaunches     \* bound: how often the process is launched

ASSUME RecipientsAssumption == Contact \in Recipients

ASSUME BoundsAssumption ==
    /\ MaxAttempts \in Nat \ {0}
    /\ MaxRetries \in Nat
    /\ MaxLaunches \in Nat

VARIABLES
    thread,         \* "group" or "contact"
    reachable,      \* the recipients that are members and not blocked
    \* the database
    job,            \* the job record
    failureCount,
    stored,         \* recipientAddressStates
    synced,         \* hasSyncedTranscript, the same in both copies
    \* the process
    setup,          \* how far the launch has come
    op,             \* where the operation of the job is
    message,        \* recipientAddressStates of the message object
    outcome,        \* what the send is about to report
    sends,          \* the OWSMessageSend of each recipient
    attempts,       \* remainingAttempts
    errors,         \* sendErrorPerRecipient
    \* history
    accepted,       \* the recipients whose message the service took
    acknowledged,   \* those for whom the answer arrived and was recorded
    launches

environment == <<thread, reachable>>
database    == <<job, failureCount, stored, synced>>
sending     == <<sends, attempts, errors>>
history     == <<accepted, acknowledged, launches>>
vars        == <<environment, database, setup, op, message, outcome, sending, history>>

\* "none" is the state of an address that is not a recipient.
RecipientStates == {"none", "sending", "sent", "skipped", "failed"}

(***************************************************************************)
(* A send is "chosen" when the recipients of a run are, "queued" for       *)
(* sendMessageToRecipient, "requesting" until the service takes the        *)
(* request ("accepted") and the answer arrives, then "done" or "failed".   *)
(***************************************************************************)
SendPhases == {"none", "chosen", "queued", "requesting", "accepted", "done", "failed"}

Errors == {"retryable", "unretryable", "fatal", "ignored"}

Outcomes == {"none", "success", "retryable", "unretryable"}

OpPhases == {"none", "starting", "prepared", "unlocking", "sending", "failed",
             "decided", "transcript", "reporting", "failing"}

TypeOK ==
    /\ thread \in {"group", "contact"}
    /\ reachable \subseteq Recipients
    /\ job \in {"ready", "running", "removed", "permanentlyFailed"}
    /\ failureCount \in Nat
    /\ stored \in [Recipients -> RecipientStates]
    /\ synced \in BOOLEAN
    /\ setup \in {"launched", "marked", "done"}
    /\ op \in OpPhases
    /\ message \in [Recipients -> RecipientStates]
    /\ outcome \in Outcomes
    /\ sends \in [Recipients -> SendPhases]
    /\ attempts \in [Recipients -> 0 .. MaxAttempts]
    /\ errors \in [Recipients -> Errors \union {"none"}]
    /\ accepted \subseteq Recipients
    /\ acknowledged \subseteq Recipients
    /\ launches \in Nat

isGroupSend == thread = "group"

With(states, state) == {r \in Recipients : states[r] = state}

\* messageStateForRecipientStates
messageState(states) ==
    IF With(states, "sending") # {} THEN "sending"
    ELSE IF With(states, "failed") # {} THEN "failed"
    ELSE "sent"

------------------------------------------------------------------------------
\* The updates of TSOutgoingMessage, each on one copy

Replaced(states, from, to) ==
    [r \in Recipients |-> IF states[r] = from THEN to ELSE states[r]]

\* Mutant: recipients that were sent to are sent to again.
AllAsSending(states) ==
    [r \in Recipients |-> IF states[r] \in {"failed", "sent"} THEN "sending" ELSE states[r]]

updateAllUnsentRecipientsAsSending(states) == Replaced(states, "failed", "sending")

updateWithSendingError(states) == Replaced(states, "sending", "failed")

Marked(states, marked, state) ==
    [r \in Recipients |-> IF r \in marked THEN state ELSE states[r]]

\* anyUpdateOutgoingMessage: the block is applied to the object and to the database.
UpdateBoth(marked, state) ==
    /\ message' = Marked(message, marked, state)
    /\ stored' = Marked(stored, marked, state)

------------------------------------------------------------------------------
\* The process

NoSends ==
    /\ sends' = [r \in Recipients |-> "none"]
    /\ attempts' = [r \in Recipients |-> 0]
    /\ errors' = [r \in Recipients |-> "none"]

Init ==
    /\ thread \in {"group", "contact"}
    /\ reachable = Recipients
    /\ job = "ready"
    /\ failureCount = 0
    /\ stored = [r \in Recipients |->
                    IF isGroupSend \/ r = Contact THEN "sending" ELSE "none"]
    /\ synced = FALSE
    /\ setup = "done"
    /\ op = "none"
    /\ message = [r \in Recipients |-> "none"]
    /\ outcome = "none"
    /\ sends = [r \in Recipients |-> "none"]
    /\ attempts = [r \in Recipients |-> 0]
    /\ errors = [r \in Recipients |-> "none"]
    /\ accepted = {}
    /\ acknowledged = {}
    /\ launches = 1

Relaunch ==
    /\ launches < MaxLaunches
    /\ launches' = launches + 1
    /\ setup' = "launched"
    /\ op' = "none"
    /\ message' = [r \in Recipients |-> "none"]
    /\ outcome' = "none"
    /\ NoSends
    /\ UNCHANGED <<environment, database, accepted, acknowledged>>

\* The launch marks as failed whatever the last process was sending.
OWSFailedMessagesJob ==
    /\ setup = "launched"
    /\ setup' = "marked"
    /\ stored' = updateWithSendingError(stored)
    /\ UNCHANGED <<environment, job, failureCount, synced, op, message, outcome, sending,
                   history>>

\* Mutant: the job of the last process is not made ready again.
LeaveRunning ==
    /\ setup = "marked"
    /\ setup' = "done"
    /\ UNCHANGED <<environment, database, op, message, outcome, sending, history>>

\* restartOldJobs and didMarkAsReady
didMarkAsReady ==
    /\ setup = "marked"
    /\ setup' = "done"
    /\ IF job = "running"
       THEN /\ job' = "ready"
            /\ stored' = updateAllUnsentRecipientsAsSending(stored)
       ELSE UNCHANGED <<job, stored>>
    /\ UNCHANGED <<environment, failureCount, synced, op, message, outcome, sending, history>>

buildOperation ==
    /\ setup = "done"
    /\ job = "ready"
    /\ job' = "running"
    /\ op' = "starting"
    /\ message' = stored
    /\ UNCHANGED <<environment, failureCount, stored, synced, setup, outcome, sending, history>>

\* A member leaves the group or joins it again; a member or the contact is blocked or
\* unblocked.
ReachabilityChanges(r) ==
    /\ reachable' = IF r \in reachable THEN reachable \ {r} ELSE reachable \union {r}
    /\ UNCHANGED <<thread, database, setup, op, message, outcome, sending, history>>

\* A receipt updates the message as the database has it.
updateWithDeliveredRecipient(r) ==
    /\ r \in accepted
    /\ stored' = Marked(stored, {r}, "sent")
    /\ UNCHANGED <<environment, job, failureCount, synced, setup, op, message, outcome,
                   sending, history>>

------------------------------------------------------------------------------
\* One run of the operation, before the recipients

\* Mutant: failed recipients are not prepared.
PrepareNothing == UNCHANGED <<message, stored>>

\* A message with an attachment is always prepared; one without, only when the
\* object has failed recipients.
prepareMessage ==
    \/ /\ message' = updateAllUnsentRecipientsAsSending(message)
       /\ stored' = updateAllUnsentRecipientsAsSending(stored)
    \/ /\ With(message, "failed") = {}
       /\ UNCHANGED <<message, stored>>

run ==
    /\ op = "starting"
    /\ prepareMessage
    /\ op' = "prepared"
    /\ UNCHANGED <<environment, job, failureCount, synced, setup, outcome, sending, history>>

\* The operation, or sendMessageToService, gives up at once: an attachment that was
\* not uploaded, no sender certificate for want of a network ("retryable"); an expired
\* or deregistered app, a deleted message or thread ("unretryable").
RunFails ==
    /\ op = "prepared"
    /\ op' = "reporting"
    /\ outcome' \in {"retryable", "unretryable"}
    /\ UNCHANGED <<environment, database, setup, message, sending, history>>

\* unsentRecipientsForMessage: of a contact thread always the contact.
unsentRecipients ==
    IF isGroupSend THEN With(message, "sending") \intersect reachable
    ELSE {Contact} \intersect reachable

\* A 1:1 send to a blocked contact fails.
BlockedContact ==
    /\ op = "prepared"
    /\ ~isGroupSend
    /\ unsentRecipients = {}
    /\ op' = "decided"
    /\ outcome' = "unretryable"
    /\ UNCHANGED <<environment, database, setup, message, sending, history>>

\* The recipients that are left out are marked as skipped, and without any other the
\* message counts as sent.
sendMessageToService ==
    /\ op = "prepared"
    /\ isGroupSend \/ unsentRecipients # {}
    /\ UpdateBoth(With(message, "sending") \ unsentRecipients, "skipped")
    /\ IF unsentRecipients = {}
       THEN op' = "decided" /\ outcome' = "success"
       ELSE op' = "unlocking" /\ UNCHANGED outcome
    /\ sends' = [r \in Recipients |-> IF r \in unsentRecipients THEN "chosen" ELSE "none"]
    /\ UNCHANGED <<environment, job, failureCount, synced, setup, attempts, errors, history>>

\* unlockPreKeyUpdateFailuresPromise, and the sends it lets go on.
Unlock ==
    /\ op = "unlocking"
    /\ op' = "sending"
    /\ sends' = Replaced(sends, "chosen", "queued")
    /\ attempts' = [r \in Recipients |-> IF sends[r] = "chosen" THEN MaxAttempts ELSE 0]
    /\ UNCHANGED <<environment, database, setup, message, outcome, errors, history>>

\* The app is locked and the signed prekey cannot be rotated: there are no sends, and
\* the block that handles failed sends finds no error.
UnlockFails ==
    /\ op = "unlocking"
    /\ op' = "failed"
    /\ NoSends
    /\ UNCHANGED <<environment, database, setup, message, outcome, history>>

------------------------------------------------------------------------------
\* One recipient

Fail(r, error) ==
    /\ sends' = [sends EXCEPT ![r] = "failed"]
    /\ errors' = [errors EXCEPT ![r] = error]

\* Mutant: the recipient is marked as sent to along with the request.
RequestMarksSent(r) ==
    /\ sends[r] = "queued"
    /\ attempts' = [attempts EXCEPT ![r] = @ - 1]
    /\ sends' = [sends EXCEPT ![r] = "requesting"]
    /\ UpdateBoth({r}, "sent")
    /\ UNCHANGED <<environment, job, failureCount, synced, setup, op, outcome, errors, history>>

Request(r) ==
    /\ sends[r] = "queued"
    /\ attempts' = [attempts EXCEPT ![r] = @ - 1]
    /\ sends' = [sends EXCEPT ![r] = "requesting"]
    /\ UNCHANGED <<environment, database, setup, op, message, outcome, errors, history>>

\* No messages for the devices: an untrusted identity, the rate limit or no session for
\* a transient message ("fatal"), or another exception,
\* or a message of a type that does not fit the request.
NoDeviceMessages(r) ==
    /\ sends[r] = "queued"
    /\ \E error \in {"fatal", "retryable", "unretryable"} : Fail(r, error)
    /\ attempts' = [attempts EXCEPT ![r] = @ - 1]
    /\ UNCHANGED <<environment, database, setup, op, message, outcome, history>>

ServiceAccepts(r) ==
    /\ sends[r] = "requesting"
    /\ sends' = [sends EXCEPT ![r] = "accepted"]
    /\ accepted' = accepted \union {r}
    /\ UNCHANGED <<environment, database, setup, op, message, outcome, attempts, errors,
                   acknowledged, launches>>

\* Mutant: only the database learns of the recipient that was sent to.
UpdateStoredOnly(r) ==
    /\ stored' = Marked(stored, {r}, "sent")
    /\ UNCHANGED message

updateWithSentRecipient(r) == UpdateBoth({r}, "sent")

messageSendDidSucceed(r) ==
    /\ sends[r] = "accepted"
    /\ updateWithSentRecipient(r)
    /\ sends' = [sends EXCEPT ![r] = "done"]
    /\ acknowledged' = acknowledged \union {r}
    /\ UNCHANGED <<environment, job, failureCount, synced, setup, op, outcome, attempts,
                   errors, accepted, launches>>

\* The request failed, or its answer was lost: stale or mismatched devices, no network.
retrySend(r) ==
    /\ sends[r] \in {"requesting", "accepted"}
    /\ IF attempts[r] > 0
       THEN sends' = [sends EXCEPT ![r] = "queued"] /\ UNCHANGED errors
       ELSE \E error \in {"retryable", "unretryable"} : Fail(r, error)
    /\ UNCHANGED <<environment, database, setup, op, message, outcome, attempts, history>>

\* 401, and answers to 409 and 410 that cannot be read.
RequestRefused(r) ==
    /\ sends[r] = "requesting"
    /\ \E error \in {"retryable", "unretryable"} : Fail(r, error)
    /\ UNCHANGED <<environment, database, setup, op, message, outcome, attempts, history>>

\* 404: the recipient is not registered, and a group does without.
handle404(r) ==
    /\ sends[r] = "requesting"
    /\ Fail(r, "ignored")
    /\ UpdateBoth(IF isGroupSend THEN {r} ELSE {}, "skipped")
    /\ UNCHANGED <<environment, job, failureCount, synced, setup, op, outcome, attempts, history>>

Send(r) ==
    \/ Request(r) \/ NoDeviceMessages(r)
    \/ ServiceAccepts(r) \/ messageSendDidSucceed(r)
    \/ retrySend(r) \/ RequestRefused(r) \/ handle404(r)

------------------------------------------------------------------------------
\* What the sends amount to

\* PMKJoin waits for every send.
Joined ==
    /\ op = "sending"
    /\ \A r \in Recipients : sends[r] \in {"none", "done", "failed"}
    /\ IF \E r \in Recipients : sends[r] = "failed"
       THEN op' = "failed" /\ UNCHANGED outcome
       ELSE op' = "decided" /\ outcome' = "success"
    /\ UNCHANGED <<environment, database, setup, message, sending, history>>

\* Some errors are not errors for a group; for a contact they are not to be retried.
errorOf(r) ==
    IF errors[r] = "ignored" THEN (IF isGroupSend THEN "none" ELSE "unretryable")
    ELSE errors[r]

FailedRecipients == {r \in Recipients : errorOf(r) \in {"unretryable", "fatal"}}

\* Fatal errors trump retryable errors, which trump the others.
Verdict ==
    LET found == {errorOf(r) : r \in Recipients}
    IN  IF "fatal" \in found THEN "unretryable"
        ELSE IF "retryable" \in found THEN "retryable"
        ELSE IF "unretryable" \in found THEN "unretryable"
        ELSE IF With(message', "sent") = {} THEN "unretryable"
        ELSE "success"

\* The block that catches failed sends.
HandleFailures ==
    /\ op = "failed"
    /\ UpdateBoth(FailedRecipients, "failed")
    /\ op' = "decided"
    /\ outcome' = Verdict
    /\ UNCHANGED <<environment, job, failureCount, synced, setup, sending, history>>

\* handleMessageSentLocally, on success and when a failed send has reached somebody.
handleMessageSentLocally ==
    /\ op = "decided"
    /\ op' = IF ~synced /\ (outcome = "success" \/ With(message, "sent") # {})
             THEN "transcript"
             ELSE "reporting"
    /\ UNCHANGED <<environment, database, setup, message, outcome, sending, history>>

TranscriptSent ==
    /\ op = "transcript"
    /\ synced' = TRUE
    /\ op' = "reporting"
    /\ UNCHANGED <<environment, job, failureCount, stored, setup, message, outcome, sending,
                   history>>

\* Mutant: a transcript that fails does not fail the send.
IgnoreTranscript == UNCHANGED outcome

\* The error of the transcript counts unless the send itself has failed.
transcriptError ==
    IF outcome = "success" THEN outcome' \in {"retryable", "unretryable"}
    ELSE UNCHANGED outcome

TranscriptFails ==
    /\ op = "transcript"
    /\ transcriptError
    /\ op' = "reporting"
    /\ UNCHANGED <<environment, database, setup, message, sending, history>>

------------------------------------------------------------------------------
\* What the job makes of it

didSucceed ==
    /\ op = "reporting"
    /\ outcome = "success"
    /\ job' = "removed"
    /\ op' = "none"
    /\ outcome' = "none"
    /\ NoSends
    /\ UNCHANGED <<environment, failureCount, stored, synced, setup, message, history>>

reportError ==
    /\ op = "reporting"
    /\ outcome # "success"
    /\ failureCount' = failureCount + 1
    /\ op' = IF outcome = "retryable" /\ failureCount < MaxRetries
             THEN "starting"
             ELSE "failing"
    /\ outcome' = "none"
    /\ NoSends
    /\ UNCHANGED <<environment, job, stored, synced, setup, message, history>>

didFail ==
    /\ op = "failing"
    /\ job' = "permanentlyFailed"
    /\ op' = "none"
    /\ message' = updateWithSendingError(message)
    /\ stored' = updateWithSendingError(stored)
    /\ UNCHANGED <<environment, failureCount, synced, setup, outcome, sending, history>>

Launch == OWSFailedMessagesJob \/ didMarkAsReady \/ buildOperation

Operation ==
    \/ run \/ RunFails \/ BlockedContact \/ sendMessageToService
    \/ Unlock \/ UnlockFails
    \/ Joined \/ HandleFailures
    \/ handleMessageSentLocally \/ TranscriptSent \/ TranscriptFails
    \/ didSucceed \/ reportError \/ didFail

Next ==
    \/ Relaunch
    \/ Launch
    \/ Operation
    \/ \E r \in Recipients : Send(r) \/ ReachabilityChanges(r) \/ updateWithDeliveredRecipient(r)

\* The jobs of a launch and the operation run, and every request ends: a request maker
\* fulfils or rejects its promise.
Fairness ==
    /\ WF_vars(Launch)
    /\ WF_vars(Operation)
    /\ \A r \in Recipients : WF_vars(Send(r))

Spec == Init /\ [][Next]_vars /\ Fairness

------------------------------------------------------------------------------
(***************************************************************************)
(* Properties                                                              *)
(***************************************************************************)

\* A member of a group whose message the service has acknowledged is not sent to
\* again: not by the retries of the job, whichever recipients they are for, nor after
\* a restart, for which the launch marks recipients as failed and sending again.
AcknowledgedNotSentAgain ==
    isGroupSend => \A r \in acknowledged : sends[r] \in {"none", "done"}

\* In a group, what was acknowledged is stored as sent for good, through the failures
\* of other recipients, retries, giving up and restarts.
AcknowledgedStaysSent ==
    isGroupSend => \A r \in acknowledged : stored[r] = "sent"

\* Nobody is shown, or remembered for a retry, as sent to whose message the service
\* never took.
SentMeansAccepted ==
    With(stored, "sent") \union With(message, "sent") \subseteq accepted

\* When the send of a message is reported as a success no recipient counts as failed:
\* an error of one recipient is not hidden by those that succeeded in this run or in an
\* earlier one.
SuccessHidesNoFailure ==
    op = "reporting" /\ outcome = "success" =>
        With(message, "failed") \union With(stored, "failed") = {}

\* A message whose job was done has been synced to the linked devices.
SyncedWhenDone == job = "removed" => synced

\* A message whose job was given up is not shown as being sent.
GivenUpIsNotSending == job = "permanentlyFailed" => With(stored, "sending") = {}

\* What the operation asserts when it succeeds (OWSMessageSender.m:277): every
\* recipient was sent to or skipped.
SentWhenSucceeded ==
    op = "reporting" /\ outcome = "success" => messageState(message) = "sent"

\* Every job ends, done or given up.
EveryJobEnds == job \in {"ready", "running"} ~> job \in {"removed", "permanentlyFailed"}
==============================================================================
