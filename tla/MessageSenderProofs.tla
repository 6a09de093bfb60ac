-------------------------- MODULE MessageSenderProofs -------------------------
(***************************************************************************)
(* Theorems about MessageSender, for any recipients and any number of      *)
(* attempts, retries and launches.                                         *)
(***************************************************************************)
EXTENDS MessageSender, TLAPS

------------------------------------------------------------------------------
(***************************************************************************)
(* Types                                                                   *)
(***************************************************************************)

States == [Recipients -> RecipientStates]

\* The updates of the states of the recipients.
LEMMA UpdateTypes ==
    ASSUME NEW states \in States, NEW from, NEW marked, NEW to \in RecipientStates
    PROVE  Replaced(states, from, to) \in States /\ Marked(states, marked, to) \in States
BY DEF States, Replaced, Marked

LEMMA ReplacedSendType ==
    ASSUME NEW s \in [Recipients -> SendPhases]
    PROVE  Replaced(s, "chosen", "queued") \in [Recipients -> SendPhases]
BY DEF Replaced, SendPhases

LEMMA NoSendsType ==
    ASSUME NoSends
    PROVE  /\ sends' \in [Recipients -> SendPhases]
           /\ attempts' \in [Recipients -> 0 .. MaxAttempts]
           /\ errors' \in [Recipients -> Errors \union {"none"}]
BY BoundsAssumption DEF NoSends, SendPhases

LEMMA FailType ==
    ASSUME TypeOK, NEW r \in Recipients, NEW error \in Errors, Fail(r, error)
    PROVE  /\ sends' \in [Recipients -> SendPhases]
           /\ errors' \in [Recipients -> Errors \union {"none"}]
BY DEF TypeOK, Fail, SendPhases

LEMMA TypeInit == Init => TypeOK
<1> SUFFICES ASSUME Init PROVE TypeOK
  OBVIOUS
<1>1. thread \in {"group", "contact"} /\ reachable \subseteq Recipients
  BY DEF Init
<1>2. /\ job \in {"ready", "running", "removed", "permanentlyFailed"}
      /\ failureCount \in Nat /\ launches \in Nat
  BY DEF Init
<1>3. stored \in [Recipients -> RecipientStates] /\ message \in [Recipients -> RecipientStates]
  BY DEF Init, RecipientStates
<1>4. synced \in BOOLEAN
  BY Zenon DEF Init
<1>5. setup \in {"launched", "marked", "done"} /\ op \in OpPhases /\ outcome \in Outcomes
  BY DEF Init, OpPhases, Outcomes
<1>6. /\ sends \in [Recipients -> SendPhases]
      /\ errors \in [Recipients -> Errors \union {"none"}]
  BY DEF Init, SendPhases
<1>7. attempts \in [Recipients -> 0 .. MaxAttempts]
  BY BoundsAssumption DEF Init
<1>8. accepted \subseteq Recipients /\ acknowledged \subseteq Recipients
  BY DEF Init
<1> QED
  BY <1>1, <1>2, <1>3, <1>4, <1>5, <1>6, <1>7, <1>8 DEF TypeOK

\* A send that is queued has an attempt left; none is, before the recipients' keys are
\* unlocked.
AttemptsLeft ==
    /\ \A r \in Recipients : sends[r] = "queued" => attempts[r] > 0
    /\ op = "unlocking" => \A r \in Recipients : sends[r] \in {"none", "chosen"}

LEMMA LaunchType ==
    ASSUME TypeOK, Relaunch \/ Launch
    PROVE  TypeOK'
<1> USE DEF TypeOK, environment, database, sending, history
<1>0. "failed" \in RecipientStates /\ "sending" \in RecipientStates /\ stored \in States
  BY DEF RecipientStates, States
<1>1. CASE Relaunch
  <2>1. message' \in [Recipients -> RecipientStates]
    BY <1>1 DEF Relaunch, RecipientStates
  <2>2. op' \in OpPhases /\ outcome' \in Outcomes
    BY <1>1 DEF Relaunch, OpPhases, Outcomes
  <2> QED
    BY <1>1, <2>1, <2>2, NoSendsType DEF Relaunch
<1>2. CASE OWSFailedMessagesJob
  <2>1. stored' \in States
    BY <1>0, <1>2, UpdateTypes DEF OWSFailedMessagesJob, updateWithSendingError, States
  <2> QED
    BY <1>2, <2>1 DEF OWSFailedMessagesJob, States
<1>3. CASE didMarkAsReady
  <2>1. stored' \in States
    <3>1. updateAllUnsentRecipientsAsSending(stored) \in States
      BY <1>0, UpdateTypes DEF updateAllUnsentRecipientsAsSending
    <3>2. stored' = updateAllUnsentRecipientsAsSending(stored) \/ stored' = stored
      BY <1>3 DEF didMarkAsReady
    <3> QED
      BY <1>0, <3>1, <3>2
  <2> QED
    BY <1>3, <2>1 DEF didMarkAsReady, States
<1>4. CASE buildOperation
  BY <1>4 DEF buildOperation, OpPhases
<1> QED
  BY <1>1, <1>2, <1>3, <1>4 DEF Launch

LEMMA OperationType ==
    ASSUME TypeOK, Operation
    PROVE  TypeOK'
<1> USE DEF TypeOK, environment, database, sending, history
<1>0. /\ "failed" \in RecipientStates /\ "sending" \in RecipientStates
      /\ "skipped" \in RecipientStates /\ message \in States /\ stored \in States
  BY DEF RecipientStates, States
<1>1. CASE run
  <2>1. message' \in States /\ stored' \in States
    <3>1. /\ updateAllUnsentRecipientsAsSending(message) \in States
          /\ updateAllUnsentRecipientsAsSending(stored) \in States
      BY <1>0, UpdateTypes DEF updateAllUnsentRecipientsAsSending
    <3>2. \/ /\ message' = updateAllUnsentRecipientsAsSending(message)
             /\ stored' = updateAllUnsentRecipientsAsSending(stored)
          \/ UNCHANGED <<message, stored>>
      BY <1>1 DEF run, prepareMessage
    <3> QED
      BY <1>0, <3>1, <3>2
  <2> QED
    BY <1>1, <2>1 DEF run, States, OpPhases
<1>2. CASE RunFails
  BY <1>2 DEF RunFails, OpPhases, Outcomes
<1>3. CASE BlockedContact
  BY <1>3 DEF BlockedContact, OpPhases, Outcomes
<1>4. CASE sendMessageToService
  <2>1. message' \in States /\ stored' \in States
    BY <1>0, <1>4, UpdateTypes DEF sendMessageToService, UpdateBoth
  <2>2. sends' \in [Recipients -> SendPhases]
    BY <1>4 DEF sendMessageToService, SendPhases
  <2>3. op' \in OpPhases /\ outcome' \in Outcomes
    BY <1>4 DEF sendMessageToService, OpPhases, Outcomes
  <2> QED
    BY <1>4, <2>1, <2>2, <2>3 DEF sendMessageToService, States
<1>5. CASE Unlock
  <2>1. attempts' \in [Recipients -> 0 .. MaxAttempts]
    BY <1>5, BoundsAssumption DEF Unlock
  <2> QED
    BY <1>5, <2>1, ReplacedSendType DEF Unlock, OpPhases
<1>6. CASE UnlockFails
  BY <1>6, NoSendsType DEF UnlockFails, OpPhases
<1>7. CASE Joined
  BY <1>7 DEF Joined, OpPhases, Outcomes
<1>8. CASE HandleFailures
  <2>1. message' \in States /\ stored' \in States
    BY <1>0, <1>8, UpdateTypes DEF HandleFailures, UpdateBoth
  <2>2. outcome' \in Outcomes
    BY <1>8 DEF HandleFailures, Verdict, Outcomes
  <2> QED
    BY <1>8, <2>1, <2>2 DEF HandleFailures, States, OpPhases
<1>9. CASE handleMessageSentLocally
  BY <1>9 DEF handleMessageSentLocally, OpPhases
<1>10. CASE TranscriptSent
  <2>1. synced' \in BOOLEAN
    BY <1>10, Zenon DEF TranscriptSent
  <2>2. /\ op' \in OpPhases
        /\ UNCHANGED <<environment, job, failureCount, stored, setup, message, outcome,
                       sending, history>>
    BY <1>10 DEF TranscriptSent, OpPhases
  <2> QED
    BY <2>1, <2>2
<1>11. CASE TranscriptFails
  BY <1>11 DEF TranscriptFails, transcriptError, OpPhases, Outcomes
<1>12. CASE didSucceed
  BY <1>12, NoSendsType DEF didSucceed, OpPhases, Outcomes
<1>13. CASE reportError
  BY <1>13, NoSendsType DEF reportError, OpPhases, Outcomes
<1>14. CASE didFail
  <2>1. message' \in States /\ stored' \in States
    BY <1>0, <1>14, UpdateTypes DEF didFail, updateWithSendingError
  <2> QED
    BY <1>14, <2>1 DEF didFail, States, OpPhases
<1> QED
  BY <1>1, <1>2, <1>3, <1>4, <1>5, <1>6, <1>7, <1>8, <1>9, <1>10, <1>11, <1>12, <1>13, <1>14
     DEF Operation

LEMMA SendType ==
    ASSUME TypeOK, AttemptsLeft, NEW r \in Recipients, Send(r)
    PROVE  TypeOK'
<1> USE DEF TypeOK, environment, database, sending, history
<1>0. /\ "sent" \in RecipientStates /\ "skipped" \in RecipientStates
      /\ message \in States /\ stored \in States
      /\ {"fatal", "retryable", "unretryable", "ignored"} \subseteq Errors
  BY DEF RecipientStates, States, Errors
<1>1. CASE Request(r) \/ NoDeviceMessages(r)
  <2>1. sends[r] = "queued" /\ attempts' = [attempts EXCEPT ![r] = @ - 1]
    BY <1>1 DEF Request, NoDeviceMessages
  <2>2. attempts' \in [Recipients -> 0 .. MaxAttempts]
    <3>1. attempts[r] \in 0 .. MaxAttempts /\ attempts[r] > 0
      BY <2>1 DEF AttemptsLeft
    <3> QED
      BY <2>1, <3>1, BoundsAssumption
  <2>3. CASE Request(r)
    BY <2>2, <2>3 DEF Request, SendPhases
  <2>4. CASE NoDeviceMessages(r)
    <3>1. /\ sends' \in [Recipients -> SendPhases]
          /\ errors' \in [Recipients -> Errors \union {"none"}]
      BY <1>0, <2>4, FailType DEF NoDeviceMessages
    <3> QED
      BY <2>2, <2>4, <3>1 DEF NoDeviceMessages
  <2> QED
    BY <1>1, <2>3, <2>4
<1>2. CASE ServiceAccepts(r)
  BY <1>2 DEF ServiceAccepts, SendPhases
<1>3. CASE messageSendDidSucceed(r)
  <2>1. message' \in States /\ stored' \in States
    BY <1>0, <1>3, UpdateTypes DEF messageSendDidSucceed, updateWithSentRecipient, UpdateBoth
  <2> QED
    BY <1>3, <2>1 DEF messageSendDidSucceed, States, SendPhases
<1>4. CASE retrySend(r)
  <2>1. /\ sends' \in [Recipients -> SendPhases]
        /\ errors' \in [Recipients -> Errors \union {"none"}]
    BY <1>0, <1>4, FailType DEF retrySend, SendPhases
  <2> QED
    BY <1>4, <2>1 DEF retrySend
<1>5. CASE RequestRefused(r)
  BY <1>0, <1>5, FailType DEF RequestRefused
<1>6. CASE handle404(r)
  <2>1. message' \in States /\ stored' \in States
    BY <1>0, <1>6, UpdateTypes DEF handle404, UpdateBoth
  <2>2. /\ sends' \in [Recipients -> SendPhases]
        /\ errors' \in [Recipients -> Errors \union {"none"}]
    BY <1>0, <1>6, FailType DEF handle404
  <2> QED
    BY <1>6, <2>1, <2>2 DEF handle404, States
<1> QED
  BY <1>1, <1>2, <1>3, <1>4, <1>5, <1>6 DEF Send

LEMMA AttemptsInduction ==
    ASSUME TypeOK, AttemptsLeft, [Next]_vars
    PROVE  AttemptsLeft'
<1> USE DEF TypeOK, AttemptsLeft, environment, database, sending, history
<1>1. CASE UNCHANGED vars
  BY <1>1 DEF vars
<1>2. CASE Relaunch \/ UnlockFails \/ didSucceed \/ reportError
  <2>1. NoSends
    BY <1>2 DEF Relaunch, UnlockFails, didSucceed, reportError
  <2>2. \A r \in Recipients : sends'[r] = "none"
    BY <2>1 DEF NoSends
  <2> QED
    BY <2>2
<1>3. CASE sendMessageToService
  <2>1. \A r \in Recipients : sends'[r] \in {"none", "chosen"}
    BY <1>3 DEF sendMessageToService
  <2> QED
    BY <2>1
<1>4. CASE Unlock
  <2>1. \A r \in Recipients : sends[r] \in {"none", "chosen"}
    BY <1>4 DEF Unlock
  <2>2. \A r \in Recipients : sends'[r] = "queued" => sends[r] = "chosen"
    BY <1>4, <2>1 DEF Unlock, Replaced
  <2>3. \A r \in Recipients : sends[r] = "chosen" => attempts'[r] = MaxAttempts
    BY <1>4 DEF Unlock
  <2>4. op' = "sending" /\ MaxAttempts > 0
    BY <1>4, BoundsAssumption DEF Unlock
  <2> QED
    BY <2>2, <2>3, <2>4
<1>5. ASSUME NEW r \in Recipients, Send(r)
      PROVE  AttemptsLeft'
  <2>1. op' = op /\ sends[r] \notin {"none", "chosen"}
    BY <1>5 DEF Send, Request, NoDeviceMessages, ServiceAccepts, messageSendDidSucceed,
       retrySend, RequestRefused, handle404
  <2>2. op' # "unlocking"
    BY <2>1
  <2>3. CASE Request(r)
    BY <2>2, <2>3 DEF Request
  <2>4. CASE NoDeviceMessages(r)
    BY <2>2, <2>4 DEF NoDeviceMessages, Fail
  <2>5. CASE ServiceAccepts(r)
    BY <2>2, <2>5 DEF ServiceAccepts
  <2>6. CASE messageSendDidSucceed(r)
    BY <2>2, <2>6 DEF messageSendDidSucceed
  <2>7. CASE retrySend(r)
    BY <2>2, <2>7 DEF retrySend, Fail
  <2>8. CASE RequestRefused(r)
    BY <2>2, <2>8 DEF RequestRefused, Fail
  <2>9. CASE handle404(r)
    BY <2>2, <2>9 DEF handle404, Fail
  <2> QED
    BY <1>5, <2>3, <2>4, <2>5, <2>6, <2>7, <2>8, <2>9 DEF Send
<1>6. CASE UNCHANGED <<sends, attempts>> /\ op' # "unlocking"
  BY <1>6
<1>7. ASSUME NEW r \in Recipients,
             ReachabilityChanges(r) \/ updateWithDeliveredRecipient(r)
      PROVE  UNCHANGED <<op, sends, attempts>>
  BY <1>7 DEF ReachabilityChanges, updateWithDeliveredRecipient
<1>8. CASE Launch
  BY <1>8 DEF Launch, OWSFailedMessagesJob, didMarkAsReady, buildOperation
<1>9. CASE Operation
  BY <1>2, <1>3, <1>4, <1>6, <1>9 DEF Operation, run, RunFails, BlockedContact, Joined,
     HandleFailures, handleMessageSentLocally, TranscriptSent, TranscriptFails, didFail
<1> QED
  BY <1>1, <1>2, <1>5, <1>7, <1>8, <1>9 DEF Next

\* Every variable keeps its type; no recipient is tried without an attempt left.
THEOREM TypeCorrect == Spec => [](TypeOK /\ AttemptsLeft)
<1>1. Init => AttemptsLeft
  BY DEF Init, AttemptsLeft
<1>2. TypeOK /\ AttemptsLeft /\ [Next]_vars => TypeOK'
  <2>1. ASSUME TypeOK, UNCHANGED vars PROVE TypeOK'
    BY <2>1 DEF TypeOK, vars, environment, database, sending, history
  <2>2. ASSUME TypeOK, NEW r \in Recipients,
               ReachabilityChanges(r) \/ updateWithDeliveredRecipient(r)
        PROVE  TypeOK'
    <3>1. CASE ReachabilityChanges(r)
      BY <2>2, <3>1 DEF ReachabilityChanges, TypeOK, database, sending, history
    <3>2. CASE updateWithDeliveredRecipient(r)
      <4>1. stored' \in States
        BY <2>2, <3>2, UpdateTypes DEF updateWithDeliveredRecipient, States, RecipientStates,
           TypeOK
      <4> QED
        BY <2>2, <3>2, <4>1 DEF updateWithDeliveredRecipient, States, TypeOK, environment,
           sending, history
    <3> QED
      BY <2>2, <3>1, <3>2
  <2> QED
    BY <2>1, <2>2, LaunchType, OperationType, SendType DEF Next
<1> QED
  BY <1>1, <1>2, TypeInit, AttemptsInduction, PTL DEF Spec

------------------------------------------------------------------------------
(***************************************************************************)
(* Who is marked as sent to                                                *)
(***************************************************************************)

\* What a step does to the copies of the states, and what it leaves of them.
LEMMA ReplacedEffect ==
    ASSUME NEW states, NEW from, NEW to, NEW r \in Recipients
    PROVE  Replaced(states, from, to)[r] = IF states[r] = from THEN to ELSE states[r]
BY DEF Replaced

LEMMA MarkedEffect ==
    ASSUME NEW states, NEW marked, NEW to, NEW r \in Recipients
    PROVE  Marked(states, marked, to)[r] = IF r \in marked THEN to ELSE states[r]
BY DEF Marked

\* A send that was answered, or will be, was accepted.
AnsweredIsAccepted ==
    /\ \A r \in Recipients : sends[r] \in {"accepted", "done"} => r \in accepted
    /\ \A r \in Recipients : stored[r] = "sent" \/ message[r] = "sent" => r \in accepted

LEMMA AcceptedSteps ==
    ASSUME [Next]_vars
    PROVE  accepted \subseteq accepted'
BY DEF Next, vars, history, Relaunch, Launch, OWSFailedMessagesJob, didMarkAsReady,
   buildOperation, Operation, run, RunFails, BlockedContact, sendMessageToService, Unlock,
   UnlockFails, Joined, HandleFailures, handleMessageSentLocally, TranscriptSent,
   TranscriptFails, didSucceed, reportError, didFail, Send, Request, NoDeviceMessages,
   ServiceAccepts, messageSendDidSucceed, retrySend, RequestRefused, handle404,
   ReachabilityChanges, updateWithDeliveredRecipient

\* The steps that give some recipient the state "sent", or a send that was answered.
LEMMA SentInduction ==
    ASSUME TypeOK, AnsweredIsAccepted, [Next]_vars
    PROVE  AnsweredIsAccepted'
<1> SUFFICES ASSUME NEW r \in Recipients, r \notin accepted'
             PROVE  /\ sends'[r] \notin {"accepted", "done"}
                    /\ stored'[r] # "sent" /\ message'[r] # "sent"
  BY DEF AnsweredIsAccepted
<1>0. /\ r \notin accepted /\ sends[r] \notin {"accepted", "done"}
      /\ stored[r] # "sent" /\ message[r] # "sent"
  BY AcceptedSteps DEF AnsweredIsAccepted
<1> USE DEF TypeOK, environment, database, sending, history
<1>1. CASE UNCHANGED <<sends, stored, message>>
  BY <1>0, <1>1
<1>2. CASE Relaunch
  BY <1>0, <1>2 DEF Relaunch, NoSends
<1>3. CASE Launch
  <2>1. sends' = sends
    BY <1>3 DEF Launch, OWSFailedMessagesJob, didMarkAsReady, buildOperation
  <2>2. CASE OWSFailedMessagesJob
    BY <1>0, <2>1, <2>2, ReplacedEffect DEF OWSFailedMessagesJob, updateWithSendingError
  <2>3. CASE didMarkAsReady
    BY <1>0, <2>1, <2>3, ReplacedEffect DEF didMarkAsReady, updateAllUnsentRecipientsAsSending
  <2>4. CASE buildOperation
    BY <1>0, <2>1, <2>4 DEF buildOperation
  <2> QED
    BY <1>3, <2>2, <2>3, <2>4 DEF Launch
<1>4. CASE Operation
  <2>1. CASE run
    BY <1>0, <2>1, ReplacedEffect DEF run, prepareMessage, updateAllUnsentRecipientsAsSending
  <2>2. CASE sendMessageToService
    BY <1>0, <2>2, MarkedEffect DEF sendMessageToService, UpdateBoth
  <2>3. CASE Unlock
    BY <1>0, <2>3, ReplacedEffect DEF Unlock
  <2>4. CASE UnlockFails \/ didSucceed \/ reportError
    BY <1>0, <2>4 DEF UnlockFails, didSucceed, reportError, NoSends
  <2>5. CASE HandleFailures
    BY <1>0, <2>5, MarkedEffect DEF HandleFailures, UpdateBoth
  <2>6. CASE didFail
    BY <1>0, <2>6, ReplacedEffect DEF didFail, updateWithSendingError
  <2> QED
    BY <1>1, <1>4, <2>1, <2>2, <2>3, <2>4, <2>5, <2>6 DEF Operation, RunFails,
       BlockedContact, Joined, handleMessageSentLocally, TranscriptSent, TranscriptFails
<1>5. ASSUME NEW q \in Recipients, Send(q)
      PROVE  /\ sends'[r] \notin {"accepted", "done"}
             /\ stored'[r] # "sent" /\ message'[r] # "sent"
  <2>1. CASE Request(q)
    BY <1>0, <2>1 DEF Request
  <2>2. CASE NoDeviceMessages(q)
    BY <1>0, <2>2 DEF NoDeviceMessages, Fail
  <2>3. CASE ServiceAccepts(q)
    BY <1>0, <2>3 DEF ServiceAccepts
  <2>4. CASE messageSendDidSucceed(q)
    <3>1. q # r
      BY <1>0, <2>4 DEF messageSendDidSucceed
    <3> QED
      BY <1>0, <2>4, <3>1, MarkedEffect DEF messageSendDidSucceed, updateWithSentRecipient,
         UpdateBoth
  <2>5. CASE retrySend(q)
    BY <1>0, <2>5 DEF retrySend, Fail
  <2>6. CASE RequestRefused(q)
    BY <1>0, <2>6 DEF RequestRefused, Fail
  <2>7. CASE handle404(q)
    BY <1>0, <2>7, MarkedEffect DEF handle404, Fail, UpdateBoth
  <2> QED
    BY <1>5, <2>1, <2>2, <2>3, <2>4, <2>5, <2>6, <2>7 DEF Send
<1>6. ASSUME NEW q \in Recipients, updateWithDeliveredRecipient(q)
      PROVE  /\ sends'[r] \notin {"accepted", "done"}
             /\ stored'[r] # "sent" /\ message'[r] # "sent"
  BY <1>0, <1>6, MarkedEffect DEF updateWithDeliveredRecipient
<1>7. ASSUME NEW q \in Recipients, ReachabilityChanges(q)
      PROVE  UNCHANGED <<sends, stored, message>>
  BY <1>7 DEF ReachabilityChanges
<1> QED
  BY <1>1, <1>2, <1>3, <1>4, <1>5, <1>6, <1>7 DEF Next, vars

\* Nobody is shown, or remembered for a retry, as sent to whose message the service
\* never took.
THEOREM SentRecipientsWereAccepted == Spec => []SentMeansAccepted
<1>1. Init => AnsweredIsAccepted
  <2> SUFFICES ASSUME Init, NEW r \in Recipients
               PROVE  /\ sends[r] \notin {"accepted", "done"}
                      /\ stored[r] # "sent" /\ message[r] # "sent"
    BY DEF AnsweredIsAccepted
  <2> QED
    BY DEF Init
<1>2. AnsweredIsAccepted => SentMeansAccepted
  BY DEF AnsweredIsAccepted, SentMeansAccepted, With
<1> QED
  BY <1>1, <1>2, SentInduction, TypeCorrect, PTL DEF Spec

------------------------------------------------------------------------------
(***************************************************************************)
(* The operation and its sends                                             *)
(***************************************************************************)

Beginning == {"none", "starting", "prepared", "unlocking", "failing"}

\* There are requests only while the operation waits for them, and errors only of
\* the sends of this run that have failed.
RunInv ==
    /\ op # "none" => job = "running" /\ setup = "done"
    /\ op # "sending" =>
            \A r \in Recipients : sends[r] \in {"none", "chosen", "done", "failed"}
    /\ \A r \in Recipients : errors[r] # "none" => sends[r] = "failed"
    /\ op \in Beginning => \A r \in Recipients : errors[r] = "none"

LEMMA RunInduction ==
    ASSUME TypeOK, RunInv, [Next]_vars
    PROVE  RunInv'
<1> USE DEF TypeOK, RunInv, Beginning, environment, database, sending, history
<1>1. CASE UNCHANGED vars
  BY <1>1 DEF vars
<1>2. ASSUME NoSends,
             \/ op' = "none"
             \/ op # "none" /\ op' # "sending" /\ UNCHANGED <<job, setup>>
      PROVE  RunInv'
  <2>1. \A r \in Recipients : sends'[r] = "none" /\ errors'[r] = "none"
    BY <1>2 DEF NoSends
  <2> QED
    BY <1>2, <2>1
<1>3. CASE Relaunch
  BY <1>2, <1>3 DEF Relaunch
<1>4. CASE Launch
  <2>1. CASE OWSFailedMessagesJob \/ didMarkAsReady
    <3>1. op = "none" /\ op' = "none" /\ UNCHANGED <<sends, errors>>
      BY <2>1 DEF OWSFailedMessagesJob, didMarkAsReady
    <3> QED
      BY <3>1
  <2>2. CASE buildOperation
    <3>1. op = "none" /\ op' = "starting" /\ UNCHANGED <<sends, errors>>
      BY <2>2 DEF buildOperation
    <3>2. job' = "running" /\ setup' = "done"
      BY <2>2 DEF buildOperation
    <3> QED
      BY <3>1, <3>2
  <2> QED
    BY <1>4, <2>1, <2>2 DEF Launch
<1>5. CASE Operation
  <2>0. op # "none"
    BY <1>5 DEF Operation, run, RunFails, BlockedContact, sendMessageToService, Unlock,
       UnlockFails, Joined, HandleFailures, handleMessageSentLocally, TranscriptSent,
       TranscriptFails, didSucceed, reportError, didFail
  <2>1. CASE UnlockFails \/ didSucceed \/ reportError
    BY <1>2, <2>0, <2>1 DEF UnlockFails, didSucceed, reportError
  <2>2. CASE sendMessageToService
    <3>1. \A r \in Recipients : sends'[r] \in {"none", "chosen"} /\ errors'[r] = "none"
      BY <2>2 DEF sendMessageToService
    <3>2. UNCHANGED <<job, setup>> /\ op' \in {"decided", "unlocking"}
      BY <2>2 DEF sendMessageToService
    <3> QED
      BY <2>0, <3>1, <3>2
  <2>3. CASE Unlock
    <3>1. UNCHANGED <<job, setup, errors>> /\ op' = "sending" /\ op = "unlocking"
      BY <2>3 DEF Unlock
    <3> QED
      BY <2>0, <3>1
  <2>4. CASE Joined
    <3>1. UNCHANGED <<job, setup, sends, errors>> /\ op' \in {"failed", "decided"}
      BY <2>4 DEF Joined
    <3>2. \A r \in Recipients : sends[r] \in {"none", "done", "failed"}
      BY <2>4 DEF Joined
    <3> QED
      BY <2>0, <3>1, <3>2
  <2>5. CASE run \/ RunFails \/ BlockedContact
    <3>1. /\ UNCHANGED <<job, setup, sends, errors>> /\ op' # "sending"
          /\ op \in {"starting", "prepared"}
      BY <2>5 DEF run, RunFails, BlockedContact
    <3> QED
      BY <2>0, <3>1
  <2>6. CASE HandleFailures \/ handleMessageSentLocally \/ TranscriptSent \/ TranscriptFails
    <3>1. /\ UNCHANGED <<job, setup, sends, errors>>
          /\ op' \in {"decided", "transcript", "reporting"} /\ op # "sending"
      BY <2>6 DEF HandleFailures, handleMessageSentLocally, TranscriptSent, TranscriptFails
    <3> QED
      BY <2>0, <3>1
  <2>7. CASE didFail
    <3>1. UNCHANGED <<sends, errors>> /\ op = "failing" /\ op' = "none"
      BY <2>7 DEF didFail
    <3> QED
      BY <3>1
  <2> QED
    BY <1>5, <2>1, <2>2, <2>3, <2>4, <2>5, <2>6, <2>7 DEF Operation
<1>6. ASSUME NEW q \in Recipients, Send(q)
      PROVE  RunInv'
  <2>1. sends[q] \in {"queued", "requesting", "accepted"} /\ UNCHANGED <<op, job, setup>>
    BY <1>6 DEF Send, Request, NoDeviceMessages, ServiceAccepts, messageSendDidSucceed,
       retrySend, RequestRefused, handle404
  <2>2. op = "sending" /\ errors[q] = "none"
    BY <2>1
  <2>3. \/ errors' = errors
        \/ sends'[q] = "failed" /\ \E e : errors' = [errors EXCEPT ![q] = e]
    BY <1>6 DEF Send, Request, NoDeviceMessages, ServiceAccepts, messageSendDidSucceed,
       retrySend, RequestRefused, handle404, Fail
  <2>4. \A r \in Recipients : r # q => sends'[r] = sends[r]
    BY <1>6 DEF Send, Request, NoDeviceMessages, ServiceAccepts, messageSendDidSucceed,
       retrySend, RequestRefused, handle404, Fail
  <2>5. ASSUME NEW r \in Recipients, errors'[r] # "none"
        PROVE  sends'[r] = "failed"
    BY <2>2, <2>3, <2>4, <2>5
  <2> QED
    BY <2>1, <2>2, <2>5
<1>7. ASSUME NEW q \in Recipients, ReachabilityChanges(q) \/ updateWithDeliveredRecipient(q)
      PROVE  UNCHANGED <<op, job, setup, sends, errors>>
  BY <1>7 DEF ReachabilityChanges, updateWithDeliveredRecipient
<1> QED
  BY <1>1, <1>3, <1>4, <1>5, <1>6, <1>7 DEF Next

\* There are requests only while the operation waits for them.
THEOREM RunInvariant == Spec => []RunInv
<1>1. Init => RunInv
  <2>1. ASSUME Init, NEW r \in Recipients
        PROVE  op = "none" /\ sends[r] = "none" /\ errors[r] = "none"
    BY <2>1 DEF Init
  <2>2. ASSUME Init PROVE op = "none"
    BY <2>2 DEF Init
  <2> QED
    BY <2>1, <2>2 DEF RunInv
<1> QED
  BY <1>1, RunInduction, TypeCorrect, PTL DEF Spec

------------------------------------------------------------------------------
(***************************************************************************)
(* Acknowledged members of a group                                         *)
(***************************************************************************)

\* Both copies have an acknowledged member as sent, and no run has a send for it.
AcknowledgedInv ==
    isGroupSend =>
        \A r \in acknowledged :
            /\ stored[r] = "sent"
            /\ op # "none" => message[r] = "sent"
            /\ sends[r] \in {"none", "done"}

LEMMA AcknowledgedInduction ==
    ASSUME TypeOK, RunInv, AcknowledgedInv, [Next]_vars
    PROVE  AcknowledgedInv'
<1> USE DEF TypeOK, environment, database, sending, history
<1>0. thread' = thread
  BY DEF Next, vars, Relaunch, Launch, OWSFailedMessagesJob, didMarkAsReady,
     buildOperation, Operation, run, RunFails, BlockedContact, sendMessageToService, Unlock,
     UnlockFails, Joined, HandleFailures, handleMessageSentLocally, TranscriptSent,
     TranscriptFails, didSucceed, reportError, didFail, Send, Request, NoDeviceMessages,
     ServiceAccepts, messageSendDidSucceed, retrySend, RequestRefused, handle404,
     ReachabilityChanges, updateWithDeliveredRecipient
<1> SUFFICES ASSUME isGroupSend, NEW r \in acknowledged'
             PROVE  /\ stored'[r] = "sent"
                    /\ op' # "none" => message'[r] = "sent"
                    /\ sends'[r] \in {"none", "done"}
  BY <1>0 DEF AcknowledgedInv, isGroupSend
<1>1. r \in Recipients
  <2>1. acknowledged' \subseteq Recipients
    BY DEF Next, vars, Relaunch, Launch, OWSFailedMessagesJob, didMarkAsReady,
       buildOperation, Operation, run, RunFails, BlockedContact, sendMessageToService,
       Unlock, UnlockFails, Joined, HandleFailures, handleMessageSentLocally,
       TranscriptSent, TranscriptFails, didSucceed, reportError, didFail, Send, Request,
       NoDeviceMessages, ServiceAccepts, messageSendDidSucceed, retrySend, RequestRefused,
       handle404, ReachabilityChanges, updateWithDeliveredRecipient
  <2> QED
    BY <2>1
<1>2. ASSUME r \in acknowledged
      PROVE  /\ stored[r] = "sent" /\ sends[r] \in {"none", "done"} /\ errors[r] = "none"
             /\ op # "none" => message[r] = "sent"
  BY <1>1, <1>2 DEF AcknowledgedInv, RunInv
<1>3. CASE UNCHANGED <<stored, message, sends, acknowledged>> /\ (op' # "none" => op # "none")
  BY <1>2, <1>3
<1>4. CASE Relaunch
  BY <1>1, <1>2, <1>4 DEF Relaunch, NoSends
<1>5. CASE Launch
  <2>1. UNCHANGED <<sends, acknowledged>>
    BY <1>5 DEF Launch, OWSFailedMessagesJob, didMarkAsReady, buildOperation
  <2>2. CASE OWSFailedMessagesJob
    BY <1>1, <1>2, <2>1, <2>2, ReplacedEffect DEF OWSFailedMessagesJob,
       updateWithSendingError
  <2>3. CASE didMarkAsReady
    BY <1>1, <1>2, <2>1, <2>3, ReplacedEffect DEF didMarkAsReady,
       updateAllUnsentRecipientsAsSending
  <2>4. CASE buildOperation
    BY <1>2, <2>1, <2>4 DEF buildOperation
  <2> QED
    BY <1>5, <2>2, <2>3, <2>4 DEF Launch
<1>6. CASE Operation
  <2>0. /\ acknowledged' = acknowledged /\ op # "none"
    BY <1>6 DEF Operation, run, RunFails, BlockedContact, sendMessageToService, Unlock,
       UnlockFails, Joined, HandleFailures, handleMessageSentLocally, TranscriptSent,
       TranscriptFails, didSucceed, reportError, didFail
  <2>1. stored[r] = "sent" /\ message[r] = "sent" /\ sends[r] \in {"none", "done"}
    BY <1>2, <2>0
  <2>2. CASE run
    BY <1>1, <2>1, <2>2, ReplacedEffect DEF run, prepareMessage,
       updateAllUnsentRecipientsAsSending
  <2>3. CASE sendMessageToService
    <3>1. r \notin With(message, "sending")
      BY <2>1 DEF With
    <3>2. r \notin unsentRecipients
      BY <3>1 DEF unsentRecipients
    <3>3. sends'[r] = "none"
      BY <1>1, <2>3, <3>2 DEF sendMessageToService
    <3> QED
      BY <1>1, <2>1, <2>3, <3>1, <3>3, MarkedEffect DEF sendMessageToService, UpdateBoth
  <2>4. CASE Unlock
    BY <1>1, <2>1, <2>4, ReplacedEffect DEF Unlock
  <2>5. CASE UnlockFails \/ didSucceed \/ reportError
    BY <1>1, <2>1, <2>5 DEF UnlockFails, didSucceed, reportError, NoSends
  <2>6. CASE HandleFailures
    <3>1. errors[r] = "none"
      BY <1>2, <2>0
    <3>2. r \notin FailedRecipients
      BY <3>1 DEF FailedRecipients, errorOf
    <3> QED
      BY <1>1, <2>1, <2>6, <3>2, MarkedEffect DEF HandleFailures, UpdateBoth
  <2>7. CASE didFail
    BY <1>1, <2>1, <2>7, ReplacedEffect DEF didFail, updateWithSendingError
  <2> QED
    BY <1>3, <1>6, <2>0, <2>2, <2>3, <2>4, <2>5, <2>6, <2>7 DEF Operation, RunFails,
       BlockedContact, Joined, handleMessageSentLocally, TranscriptSent, TranscriptFails
<1>7. ASSUME NEW q \in Recipients, Send(q)
      PROVE  /\ stored'[r] = "sent"
             /\ op' # "none" => message'[r] = "sent"
             /\ sends'[r] \in {"none", "done"}
  <2>1. CASE messageSendDidSucceed(q) /\ r = q
    BY <1>1, <2>1, MarkedEffect DEF messageSendDidSucceed, updateWithSentRecipient, UpdateBoth
  <2>2. CASE messageSendDidSucceed(q) /\ r # q
    BY <1>1, <1>2, <2>2, MarkedEffect DEF messageSendDidSucceed, updateWithSentRecipient,
       UpdateBoth
  <2>3. CASE ~messageSendDidSucceed(q)
    <3>1. /\ acknowledged' = acknowledged /\ op' = op
          /\ sends[q] \notin {"none", "done"}
      BY <1>7, <2>3 DEF Send, Request, NoDeviceMessages, ServiceAccepts, retrySend,
         RequestRefused, handle404
    <3>2. r # q
      BY <1>2, <3>1
    <3>3. sends'[r] = sends[r]
      BY <1>1, <1>7, <2>3, <3>2 DEF Send, Request, NoDeviceMessages, ServiceAccepts,
         retrySend, RequestRefused, handle404, Fail
    <3>4. CASE handle404(q)
      BY <1>1, <1>2, <3>1, <3>2, <3>3, <3>4, MarkedEffect DEF handle404, UpdateBoth
    <3>5. CASE UNCHANGED <<stored, message>>
      BY <1>2, <3>1, <3>3, <3>5
    <3> QED
      BY <1>7, <2>3, <3>4, <3>5 DEF Send, Request, NoDeviceMessages, ServiceAccepts,
         retrySend, RequestRefused
  <2> QED
    BY <2>1, <2>2, <2>3
<1>8. ASSUME NEW q \in Recipients, updateWithDeliveredRecipient(q)
      PROVE  /\ stored'[r] = "sent"
             /\ op' # "none" => message'[r] = "sent"
             /\ sends'[r] \in {"none", "done"}
  BY <1>1, <1>2, <1>8, MarkedEffect DEF updateWithDeliveredRecipient
<1>9. ASSUME NEW q \in Recipients, ReachabilityChanges(q)
      PROVE  UNCHANGED <<stored, message, sends, acknowledged, op>>
  BY <1>9 DEF ReachabilityChanges
<1> QED
  BY <1>3, <1>4, <1>5, <1>6, <1>7, <1>8, <1>9 DEF Next, vars

\* Of every reachable state.
THEOREM AcknowledgedInvariant == Spec => []AcknowledgedInv
<1>1. Init => AcknowledgedInv
  BY DEF Init, AcknowledgedInv
<1> QED
  BY <1>1, AcknowledgedInduction, RunInvariant, TypeCorrect, PTL DEF Spec

\* A member of a group whose message the service has acknowledged is not sent to
\* again, by no retry of the job and after no restart.
THEOREM AcknowledgedMembersAreLeftAlone == Spec => []AcknowledgedNotSentAgain
<1>1. AcknowledgedInv => AcknowledgedNotSentAgain
  BY DEF AcknowledgedInv, AcknowledgedNotSentAgain
<1> QED
  BY <1>1, AcknowledgedInvariant, PTL

\* What was acknowledged in a group is stored as sent for good.
THEOREM AcknowledgedMembersStaySent == Spec => []AcknowledgedStaysSent
<1>1. AcknowledgedInv => AcknowledgedStaysSent
  BY DEF AcknowledgedInv, AcknowledgedStaysSent
<1> QED
  BY <1>1, AcknowledgedInvariant, PTL

------------------------------------------------------------------------------
(***************************************************************************)
(* Failures                                                                *)
(***************************************************************************)

\* While a run goes on, the copies differ only by what receipts have told the
\* database, and no recipient counts as failed until the errors are handled, nor
\* after that if the send is a success.
FailureInv ==
    /\ op # "none" =>
            \A r \in Recipients : stored[r] = message[r] \/ stored[r] = "sent"
    /\ \/ op \in {"prepared", "unlocking", "sending", "failed"}
       \/ op \in {"decided", "transcript", "reporting"} /\ outcome = "success"
       => \A r \in Recipients : message[r] # "failed"

\* An update of both copies keeps them alike.
LEMMA UpdatesKeepAgreement ==
    ASSUME NEW r \in Recipients, stored[r] = message[r] \/ stored[r] = "sent",
           NEW from, from # "sent", NEW to, NEW marked
    PROVE  /\ \/ Replaced(stored, from, to)[r] = Replaced(message, from, to)[r]
              \/ Replaced(stored, from, to)[r] = "sent"
           /\ \/ Marked(stored, marked, to)[r] = Marked(message, marked, to)[r]
              \/ Marked(stored, marked, to)[r] = "sent"
BY ReplacedEffect, MarkedEffect

\* A run is a success only if no recipient has an error that counts.
LEMMA SuccessHasNoFailures ==
    ASSUME HandleFailures, Verdict = "success"
    PROVE  FailedRecipients = {}
<1> SUFFICES ASSUME NEW r \in Recipients, errorOf(r) \in {"unretryable", "fatal"}
             PROVE  FALSE
  BY DEF FailedRecipients
<1>1. errorOf(r) \in {errorOf(q) : q \in Recipients}
  OBVIOUS
<1> QED
  BY <1>1 DEF Verdict

LEMMA FailureInduction ==
    ASSUME TypeOK, RunInv, FailureInv, [Next]_vars
    PROVE  FailureInv'
<1> USE DEF environment, database, sending, history
<1>1. ASSUME op # "none", NEW r \in Recipients
      PROVE  stored[r] = message[r] \/ stored[r] = "sent"
  BY <1>1 DEF FailureInv
<1>2. CASE Relaunch
  BY <1>2 DEF Relaunch, FailureInv
<1>3. CASE Launch
  <2>1. CASE OWSFailedMessagesJob \/ didMarkAsReady
    <3>1. op' = "none"
      BY <2>1 DEF OWSFailedMessagesJob, didMarkAsReady, RunInv
    <3> QED
      BY <3>1 DEF FailureInv
  <2>2. CASE buildOperation
    <3>1. op' = "starting" /\ message' = stored /\ stored' = stored
      BY <2>2 DEF buildOperation
    <3> QED
      BY <3>1 DEF FailureInv
  <2> QED
    BY <1>3, <2>1, <2>2 DEF Launch
<1>4. CASE Operation
  <2>0. op # "none"
    BY <1>4 DEF Operation, run, RunFails, BlockedContact, sendMessageToService, Unlock,
       UnlockFails, Joined, HandleFailures, handleMessageSentLocally, TranscriptSent,
       TranscriptFails, didSucceed, reportError, didFail
  <2>1. CASE run
    <3>1. op' = "prepared"
      BY <2>1 DEF run
    <3>2. ASSUME NEW r \in Recipients
          PROVE  /\ stored'[r] = message'[r] \/ stored'[r] = "sent"
                 /\ message'[r] # "failed"
      <4>1. CASE /\ message' = updateAllUnsentRecipientsAsSending(message)
                 /\ stored' = updateAllUnsentRecipientsAsSending(stored)
        BY <1>1, <2>0, <4>1, ReplacedEffect DEF updateAllUnsentRecipientsAsSending
      <4>2. CASE With(message, "failed") = {} /\ UNCHANGED <<message, stored>>
        BY <1>1, <2>0, <4>2 DEF With
      <4> QED
        BY <2>1, <4>1, <4>2 DEF run, prepareMessage
    <3> QED
      BY <3>1, <3>2 DEF FailureInv
  <2>2. CASE sendMessageToService
    <3>1. op = "prepared"
      BY <2>2 DEF sendMessageToService
    <3>2. ASSUME NEW r \in Recipients
          PROVE  /\ stored'[r] = message'[r] \/ stored'[r] = "sent"
                 /\ message'[r] # "failed"
      <4>1. message[r] # "failed"
        BY <3>1 DEF FailureInv
      <4> QED
        BY <1>1, <2>0, <2>2, <4>1, MarkedEffect DEF sendMessageToService, UpdateBoth
    <3> QED
      BY <3>2 DEF FailureInv
  <2>3. CASE HandleFailures
    <3>1. op = "failed" /\ op' = "decided" /\ outcome' = Verdict
      BY <2>3 DEF HandleFailures
    <3>2. ASSUME NEW r \in Recipients
          PROVE  stored'[r] = message'[r] \/ stored'[r] = "sent"
      BY <1>1, <2>0, <2>3, MarkedEffect DEF HandleFailures, UpdateBoth
    <3>3. ASSUME outcome' = "success", NEW r \in Recipients
          PROVE  message'[r] # "failed"
      <4>1. FailedRecipients = {}
        BY <2>3, <3>1, <3>3, SuccessHasNoFailures
      <4>2. message[r] # "failed"
        BY <3>1 DEF FailureInv
      <4> QED
        BY <2>3, <4>1, <4>2, MarkedEffect DEF HandleFailures, UpdateBoth
    <3> QED
      BY <3>1, <3>2, <3>3 DEF FailureInv
  <2>4. CASE didFail
    BY <2>4 DEF didFail, FailureInv
  <2>5. CASE Unlock \/ UnlockFails \/ Joined
    <3>1. /\ UNCHANGED <<stored, message>> /\ op \in {"unlocking", "sending"}
      BY <2>5 DEF Unlock, UnlockFails, Joined
    <3> QED
      BY <3>1 DEF FailureInv
  <2>6. CASE RunFails \/ BlockedContact
    <3>1. /\ UNCHANGED <<stored, message>> /\ outcome' # "success"
          /\ op' \in {"decided", "reporting"}
      BY <2>6 DEF RunFails, BlockedContact
    <3> QED
      BY <2>0, <3>1 DEF FailureInv
  <2>7. CASE handleMessageSentLocally \/ TranscriptSent
    <3>1. /\ UNCHANGED <<stored, message, outcome>>
          /\ op \in {"decided", "transcript"} /\ op' \in {"transcript", "reporting"}
      BY <2>7 DEF handleMessageSentLocally, TranscriptSent
    <3> QED
      BY <3>1 DEF FailureInv
  <2>8. CASE TranscriptFails
    <3>1. UNCHANGED <<stored, message>> /\ outcome' # "success" /\ op' = "reporting"
      BY <2>8 DEF TranscriptFails, transcriptError
    <3> QED
      BY <2>0, <3>1 DEF FailureInv
  <2>9. CASE didSucceed \/ reportError
    <3>1. UNCHANGED <<stored, message>> /\ op' \in {"none", "starting", "failing"}
      BY <2>9 DEF didSucceed, reportError
    <3> QED
      BY <2>0, <3>1 DEF FailureInv
  <2> QED
    BY <1>4, <2>1, <2>2, <2>3, <2>4, <2>5, <2>6, <2>7, <2>8, <2>9 DEF Operation
<1>5. ASSUME NEW q \in Recipients, Send(q)
      PROVE  FailureInv'
  <2>1. /\ op = "sending" /\ op' = op
    <3>1. sends[q] \in {"queued", "requesting", "accepted"} /\ op' = op
      BY <1>5 DEF Send, Request, NoDeviceMessages, ServiceAccepts, messageSendDidSucceed,
         retrySend, RequestRefused, handle404
    <3> QED
      BY <3>1 DEF RunInv
  <2>2. \/ UNCHANGED <<stored, message>>
        \/ \E marked : UpdateBoth(marked, "sent") \/ UpdateBoth(marked, "skipped")
    <3>1. CASE messageSendDidSucceed(q)
      BY <3>1 DEF messageSendDidSucceed, updateWithSentRecipient
    <3>2. CASE handle404(q)
      BY <3>2 DEF handle404
    <3> QED
      BY <1>5, <3>1, <3>2 DEF Send, Request, NoDeviceMessages, ServiceAccepts, retrySend,
         RequestRefused
  <2>3. ASSUME NEW r \in Recipients
        PROVE  /\ stored'[r] = message'[r] \/ stored'[r] = "sent"
               /\ message'[r] # "failed"
    <3>1. /\ stored[r] = message[r] \/ stored[r] = "sent"
          /\ message[r] # "failed"
      BY <2>1 DEF FailureInv
    <3> QED
      BY <2>2, <3>1, MarkedEffect DEF UpdateBoth
  <2> QED
    BY <2>1, <2>3 DEF FailureInv
<1>6. ASSUME NEW q \in Recipients, updateWithDeliveredRecipient(q)
      PROVE  FailureInv'
  <2>1. UNCHANGED <<op, outcome, message>>
    BY <1>6 DEF updateWithDeliveredRecipient
  <2>2. ASSUME NEW r \in Recipients
        PROVE  stored'[r] = stored[r] \/ stored'[r] = "sent"
    BY <1>6, MarkedEffect DEF updateWithDeliveredRecipient
  <2> QED
    BY <2>1, <2>2 DEF FailureInv
<1>7. CASE UNCHANGED <<op, outcome, message, stored>>
  BY <1>7 DEF FailureInv
<1>8. ASSUME NEW q \in Recipients, ReachabilityChanges(q)
      PROVE  UNCHANGED <<op, outcome, message, stored>>
  BY <1>8 DEF ReachabilityChanges
<1> QED
  BY <1>2, <1>3, <1>4, <1>5, <1>6, <1>7, <1>8 DEF Next, vars

\* When a send is reported as a success no recipient counts as failed, in the object
\* or in the database: errors are not hidden by those it was sent to.
THEOREM ReportedSuccessHasNoFailures == Spec => []SuccessHidesNoFailure
<1>1. Init => FailureInv
  BY DEF Init, FailureInv
<1>2. FailureInv => SuccessHidesNoFailure
  BY DEF FailureInv, SuccessHidesNoFailure, With
<1> QED
  BY <1>1, <1>2, FailureInduction, RunInvariant, TypeCorrect, PTL DEF Spec

------------------------------------------------------------------------------
(***************************************************************************)
(* How the job ends                                                        *)
(***************************************************************************)

EndInv ==
    /\ op = "reporting" /\ outcome = "success" => synced
    /\ SyncedWhenDone
    /\ GivenUpIsNotSending

\* What is not being sent is not being sent by an update to another state.
LEMMA NotSendingStays ==
    ASSUME NEW states, With(states, "sending") = {},
           NEW from, NEW marked, NEW to, to # "sending"
    PROVE  /\ With(Replaced(states, from, to), "sending") = {}
           /\ With(Marked(states, marked, to), "sending") = {}
BY ReplacedEffect, MarkedEffect DEF With

LEMMA EndInduction ==
    ASSUME TypeOK, RunInv, EndInv, [Next]_vars
    PROVE  EndInv'
<1> USE DEF environment, database, sending, history
<1>1. CASE Relaunch
  BY <1>1 DEF Relaunch, EndInv, SyncedWhenDone, GivenUpIsNotSending, With
<1>2. CASE Launch
  <2>1. op' # "reporting" /\ synced' = synced
    BY <1>2 DEF Launch, OWSFailedMessagesJob, didMarkAsReady, buildOperation, RunInv
  <2>2. job' = "removed" => job = "removed"
    BY <1>2 DEF Launch, OWSFailedMessagesJob, didMarkAsReady, buildOperation
  <2>3. ASSUME job' = "permanentlyFailed" PROVE With(stored', "sending") = {}
    <3>1. /\ job = "permanentlyFailed"
          /\ stored' = updateWithSendingError(stored) \/ stored' = stored
      BY <1>2, <2>3 DEF Launch, OWSFailedMessagesJob, didMarkAsReady, buildOperation
    <3>2. With(stored, "sending") = {}
      BY <3>1 DEF EndInv, GivenUpIsNotSending
    <3>3. With(updateWithSendingError(stored), "sending") = {}
      BY <3>2, NotSendingStays DEF updateWithSendingError
    <3> QED
      BY <3>1, <3>2, <3>3
  <2> QED
    BY <2>1, <2>2, <2>3 DEF EndInv, SyncedWhenDone, GivenUpIsNotSending, With
<1>3. CASE Operation
  <2>0. op # "none"
    BY <1>3 DEF Operation, run, RunFails, BlockedContact, sendMessageToService, Unlock,
       UnlockFails, Joined, HandleFailures, handleMessageSentLocally, TranscriptSent,
       TranscriptFails, didSucceed, reportError, didFail
  <2>1. job = "running"
    BY <2>0 DEF RunInv
  <2>2. CASE didSucceed
    <3>1. synced' = synced /\ job' = "removed" /\ op' = "none" /\ synced
      BY <2>2 DEF didSucceed, EndInv
    <3> QED
      BY <3>1 DEF EndInv, SyncedWhenDone, GivenUpIsNotSending
  <2>3. CASE didFail
    <3>1. /\ job' = "permanentlyFailed" /\ op' = "none"
          /\ stored' = Replaced(stored, "sending", "failed")
      BY <2>3 DEF didFail, updateWithSendingError
    <3>2. With(stored', "sending") = {}
      BY <3>1, ReplacedEffect DEF With
    <3> QED
      BY <3>1, <3>2 DEF EndInv, SyncedWhenDone, GivenUpIsNotSending, With
  <2>4. ASSUME job' = job, op' = "reporting" /\ outcome' = "success" => synced'
        PROVE  EndInv'
    BY <2>1, <2>4 DEF EndInv, SyncedWhenDone, GivenUpIsNotSending
  <2>5. CASE handleMessageSentLocally
    <3>1. job' = job /\ synced' = synced /\ outcome' = outcome
      BY <2>5 DEF handleMessageSentLocally
    <3>2. op' = "reporting" /\ outcome = "success" => synced
      BY <2>5 DEF handleMessageSentLocally
    <3> QED
      BY <2>4, <3>1, <3>2
  <2>6. CASE TranscriptSent
    <3>1. job' = job
      BY <2>6 DEF TranscriptSent
    <3>2. synced'
      BY <2>6, Zenon DEF TranscriptSent
    <3> QED
      BY <2>4, <3>1, <3>2
  <2>7. CASE RunFails \/ TranscriptFails
    <3>1. job' = job /\ outcome' # "success"
      BY <2>7 DEF RunFails, TranscriptFails, transcriptError
    <3> QED
      BY <2>4, <3>1
  <2>8. CASE ~(\/ RunFails \/ TranscriptFails \/ TranscriptSent
               \/ handleMessageSentLocally \/ didSucceed \/ didFail)
    <3>1. job' = job /\ op' # "reporting"
      BY <1>3, <2>8 DEF Operation, run, BlockedContact, sendMessageToService, Unlock,
         UnlockFails, Joined, HandleFailures, reportError
    <3> QED
      BY <2>4, <3>1
  <2> QED
    BY <2>2, <2>3, <2>5, <2>6, <2>7, <2>8
<1>4. ASSUME NEW q \in Recipients, Send(q)
      PROVE  EndInv'
  <2>1. /\ UNCHANGED <<job, op, outcome, synced>>
        /\ sends[q] \in {"queued", "requesting", "accepted"}
    BY <1>4 DEF Send, Request, NoDeviceMessages, ServiceAccepts, messageSendDidSucceed,
       retrySend, RequestRefused, handle404
  <2>2. job = "running"
    BY <2>1 DEF RunInv
  <2> QED
    BY <2>1, <2>2 DEF EndInv, SyncedWhenDone, GivenUpIsNotSending
<1>5. ASSUME NEW q \in Recipients, updateWithDeliveredRecipient(q)
      PROVE  EndInv'
  <2>1. /\ UNCHANGED <<job, op, outcome, synced>>
        /\ stored' = Marked(stored, {q}, "sent")
    BY <1>5 DEF updateWithDeliveredRecipient
  <2>2. With(stored, "sending") = {} => With(stored', "sending") = {}
    BY <2>1, MarkedEffect DEF With
  <2> QED
    BY <2>1, <2>2 DEF EndInv, SyncedWhenDone, GivenUpIsNotSending, With
<1>6. CASE UNCHANGED <<job, op, outcome, synced, stored>>
  BY <1>6 DEF EndInv, SyncedWhenDone, GivenUpIsNotSending, With
<1>7. ASSUME NEW q \in Recipients, ReachabilityChanges(q)
      PROVE  UNCHANGED <<job, op, outcome, synced, stored>>
  BY <1>7 DEF ReachabilityChanges
<1> QED
  BY <1>1, <1>2, <1>3, <1>4, <1>5, <1>6, <1>7 DEF Next, vars

LEMMA EndInit == Init => EndInv
BY DEF Init, EndInv, SyncedWhenDone, GivenUpIsNotSending

\* A message whose job was done has been synced to the linked devices.
THEOREM DoneMeansSynced == Spec => []SyncedWhenDone
<1>1. EndInv => SyncedWhenDone
  BY DEF EndInv
<1> QED
  BY <1>1, EndInit, EndInduction, RunInvariant, TypeCorrect, PTL DEF Spec

\* A message whose job was given up is not shown as being sent, after a restart either.
THEOREM GivenUpMessagesAreNotSending == Spec => []GivenUpIsNotSending
<1>1. EndInv => GivenUpIsNotSending
  BY DEF EndInv
<1> QED
  BY <1>1, EndInit, EndInduction, RunInvariant, TypeCorrect, PTL DEF Spec
==============================================================================
