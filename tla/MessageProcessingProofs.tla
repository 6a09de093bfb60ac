------------------------ MODULE MessageProcessingProofs -----------------------
(***************************************************************************)
(* Theorems about ReceivePipeline, and then about MessageProcessing, which *)
(* adds the promises and fetch cycles to it: for any number of envelopes   *)
(* of any kinds, connections, fetch cycles and launches, and any size of a *)
(* batch.                                                                  *)
(***************************************************************************)
EXTENDS MessageProcessing, MessageSocketProofs, SequenceTheorems

(***************************************************************************)
(* ReceivePipeline                                                         *)
(***************************************************************************)
\* To the socket, a step of the pipeline is one of its own, or none.
LEMMA PipelineStepsOfSocket ==
    ASSUME [Next]_vars
    PROVE  [SocketNext]_socketVars
<1>1. CASE SocketAlone \/ Relaunch \/ Receive
  BY <1>1 DEF SocketAlone, Relaunch, Receive, SocketNext, ServiceSends, SerialQueueStep,
     MainQueueStep
<1>2. CASE DecryptQueueStep
  BY <1>2 DEF DecryptQueueStep, Setup, FlushDecrypt, StartDecrypt, Decrypt, FinishDecrypt
<1>3. CASE drainQueue \/ drainQueueWorkStep \/ registrationStateDidChange
  BY <1>3 DEF drainQueue, drainQueueWorkStep, ReadBatch, DrainIsDone, ProcessBatch,
     registrationStateDidChange
<1> QED
  BY <1>1, <1>2, <1>3 DEF Next, vars

\* What is proved of the socket alone holds of the socket in the pipeline.
THEOREM PipelineSocket == Spec => [](SocketTypeOK /\ DeliveryInv)
<1>1. Init => SocketTypeOK /\ DeliveryInv
  BY SocketTypeInit, DeliveryInit DEF Init
<1>2. SocketTypeOK /\ DeliveryInv /\ [Next]_vars => SocketTypeOK' /\ DeliveryInv'
  BY PipelineStepsOfSocket, SocketTypeInduction, DeliveryInduction
<1> QED
  BY <1>1, <1>2, PTL DEF Spec

------------------------------------------------------------------------------
(***************************************************************************)
(* Types                                                                   *)
(***************************************************************************)

Statuses == {"ready", "running", "gone"}

\* TypeOK, without the flags, of which nothing but their type is known here.
PipelineTypeOK ==
    /\ record \in Seq(Statuses)
    /\ Len(record) = Len(persisted)
    /\ consumed \subseteq Envelopes
    /\ content \in Seq(Envelopes)
    /\ processed \in Seq(Envelopes)
    /\ report \in {"none", "success", "failure"}
    /\ drainStep \in {"none", "pending", "read"}
    /\ batchJobs \in 0 .. BatchSize
    /\ batchJobs <= Len(content)

FlagsOK == isSetup \in BOOLEAN /\ workSteps \in BOOLEAN /\ drainCalls \in BOOLEAN

\* A batch is as large as the content queue and the size allow.
LEMMA BatchOf ==
    ASSUME PipelineTypeOK, NEW size \in Nat
    PROVE  /\ Max(NextJobs(size)) \in 0 .. size
           /\ Max(NextJobs(size)) <= Len(content)
           /\ size > 0 /\ Max(NextJobs(size)) = 0 => Len(content) = 0
<1>1. Len(content) \in Nat
  BY DEF PipelineTypeOK
<1>2. PICK n \in NextJobs(size) : \A m \in NextJobs(size) : n >= m
  <2>1. CASE Len(content) <= size
    BY <1>1, <2>1 DEF NextJobs
  <2>2. CASE ~(Len(content) <= size)
    BY <1>1, <2>2 DEF NextJobs
  <2> QED
    BY <2>1, <2>2
<1>3. /\ Max(NextJobs(size)) \in NextJobs(size)
      /\ \A m \in NextJobs(size) : Max(NextJobs(size)) >= m
  BY <1>2 DEF Max
<1>4. size > 0 /\ Len(content) > 0 => 1 \in NextJobs(size)
  BY <1>1 DEF NextJobs
<1> QED
  BY <1>1, <1>3, <1>4 DEF NextJobs

\* Removing the processed jobs, and where they are found afterwards.
LEMMA BatchMoves ==
    ASSUME PipelineTypeOK, ProcessBatch
    PROVE  /\ content' \in Seq(Envelopes) /\ processed' \in Seq(Envelopes)
           /\ \E n \in 1 .. Len(content) :
                /\ Len(processed') = Len(processed) + n
                /\ Len(content') = Len(content) - n
                /\ \A i \in 1 .. Len(processed) : processed'[i] = processed[i]
                /\ \A i \in 1 .. n : processed'[Len(processed) + i] = content[i]
                /\ \A i \in 1 .. Len(content) - n : content'[i] = content[n + i]
<1>1. PICK n \in 1 .. batchJobs :
        /\ processed' = processed \o SubSeq(content, 1, n)
        /\ content' = SubSeq(content, n + 1, Len(content))
  BY DEF ProcessBatch, removeJobs
<1>2. /\ n \in 1 .. Len(content) /\ Len(content) \in Nat /\ n \in Nat
      /\ content \in Seq(Envelopes) /\ processed \in Seq(Envelopes)
  BY DEF PipelineTypeOK
<1> HIDE DEF PipelineTypeOK
<1>3. PICK s : s = SubSeq(content, 1, n)
  OBVIOUS
<1>4. /\ s \in Seq(Envelopes) /\ Len(s) = n
      /\ \A i \in 1 .. n : s[i] = content[i]
  BY <1>2, <1>3
<1>5. /\ content' \in Seq(Envelopes) /\ Len(content') = Len(content) - n
      /\ \A i \in 1 .. Len(content) - n : content'[i] = content[n + i]
  BY <1>1, <1>2
<1>6. /\ processed' \in Seq(Envelopes) /\ Len(processed') = Len(processed) + n
      /\ \A i \in 1 .. Len(processed) : processed'[i] = processed[i]
      /\ \A i \in 1 .. n : processed'[Len(processed) + i] = content[i]
  BY <1>1, <1>2, <1>3, <1>4
<1> QED
  BY <1>2, <1>5, <1>6

\* What a message of the serial queue adds to the database.
LEMMA ReceiveAdds ==
    ASSUME SocketTypeOK, PipelineTypeOK, Receive
    PROVE  \/ UNCHANGED <<persisted, record>>
           \/ /\ persisted' = Append(persisted, Head(serialQueue).envelope)
              /\ record' = Append(record, "ready")
<1>1. persisted \in Seq(Envelopes)
  BY DEF SocketTypeOK
<1>2. CASE persisted' = persisted
  BY <1>1, <1>2 DEF Receive
<1>3. CASE persisted' = Append(persisted, Head(serialQueue).envelope)
  <2>1. Len(persisted') > Len(persisted)
    BY <1>1, <1>3
  <2> QED
    BY <1>3, <2>1 DEF Receive
<1> QED
  BY <1>2, <1>3 DEF Receive, StoreMessage, Stored

\* The database keeps its records where they are, as long as the app lives.
LEMMA RecordsStay ==
    ASSUME SocketTypeOK, PipelineTypeOK, [Next]_vars
    PROVE  /\ Len(record) <= Len(record')
           /\ \A i \in 1 .. Len(record) : persisted'[i] = persisted[i]
<1>0. /\ persisted \in Seq(Envelopes) /\ record \in Seq(Statuses)
      /\ Len(persisted) = Len(record)
  BY DEF SocketTypeOK, PipelineTypeOK
<1>1. CASE UNCHANGED <<persisted, record>>
  BY <1>0, <1>1
<1>2. CASE Receive
  BY <1>0, <1>2, ReceiveAdds
<1>3. CASE SocketAlone \/ Relaunch
  BY <1>0, <1>3 DEF SocketAlone, Arrive, Connect, Close, ReceiveMessage, Acknowledge,
     Relaunch, SocketRelaunch, pipelineVars, decryptVars
<1>4. CASE DecryptQueueStep
  BY <1>0, <1>4 DEF DecryptQueueStep, Setup, FlushDecrypt, StartDecrypt, Decrypt,
     FinishDecrypt, socketVars
<1>5. CASE drainQueue \/ drainQueueWorkStep \/ registrationStateDidChange
  BY <1>0, <1>5 DEF drainQueue, drainQueueWorkStep, ReadBatch, DrainIsDone, ProcessBatch,
     registrationStateDidChange, decryptVars, socketVars
<1> QED
  BY <1>1, <1>2, <1>3, <1>4, <1>5 DEF Next, vars, pipelineVars, decryptVars, socketVars

\* An envelope of a record that decryption can be asked about.
LEMMA RecordEnvelope ==
    ASSUME SocketTypeOK, PipelineTypeOK, NEW i \in DOMAIN record
    PROVE  /\ i \in 1 .. Len(record) /\ i \in DOMAIN persisted
           /\ persisted[i] \in Envelopes /\ record[i] \in Statuses
BY DEF SocketTypeOK, PipelineTypeOK

\* The types of the database and the queues.
LEMMA PipelineTypeInduction ==
    ASSUME SocketTypeOK, PipelineTypeOK, [Next]_vars
    PROVE  PipelineTypeOK'
<1>0. /\ persisted \in Seq(Envelopes) /\ record \in Seq(Statuses)
      /\ content \in Seq(Envelopes) /\ processed \in Seq(Envelopes)
      /\ BatchSize \in Nat /\ BatchSize > 0
  BY BatchSizeAssumption DEF SocketTypeOK, PipelineTypeOK
<1>1. CASE UNCHANGED vars
  BY <1>1 DEF PipelineTypeOK, vars, pipelineVars, decryptVars, drainVars, socketVars
<1>2. CASE SocketAlone
  BY <1>2 DEF PipelineTypeOK, SocketAlone, Arrive, Connect, Close, ReceiveMessage,
     Acknowledge, pipelineVars, decryptVars, drainVars
<1>3. CASE Relaunch
  BY <1>3, <1>0 DEF PipelineTypeOK, Relaunch, SocketRelaunch
<1>4. CASE Receive
  <2>1. UNCHANGED <<consumed, report, content, processed, drainStep, batchJobs>>
    BY <1>4 DEF Receive, drainVars
  <2>2. CASE UNCHANGED <<persisted, record>>
    BY <2>1, <2>2 DEF PipelineTypeOK
  <2>3. CASE /\ persisted' = Append(persisted, Head(serialQueue).envelope)
             /\ record' = Append(record, "ready")
    <3>1. "ready" \in Statuses
      BY DEF Statuses
    <3>2. record' \in Seq(Statuses) /\ Len(record') = Len(record) + 1
      BY <1>0, <2>3, <3>1, AppendType
    <3>3. Len(persisted') = Len(persisted) + 1
      BY <1>0, <2>3
    <3> QED
      BY <2>1, <3>2, <3>3 DEF PipelineTypeOK
  <2> QED
    BY <1>4, <2>2, <2>3, ReceiveAdds
<1>5. CASE Setup
  <2>1. record' = [i \in DOMAIN record |-> saveRunningAsReady(record[i])]
    BY <1>5 DEF Setup
  <2>2. DOMAIN record = 1 .. Len(record) /\ Len(record) \in Nat
    BY <1>0
  <2>3. \A i \in DOMAIN record : saveRunningAsReady(record[i]) \in Statuses
    BY <1>0 DEF saveRunningAsReady, Statuses
  <2>4. record' \in Seq(Statuses) /\ Len(record') = Len(record)
    BY <2>1, <2>2, <2>3
  <2> QED
    BY <1>5, <2>4 DEF PipelineTypeOK, Setup, socketVars, drainVars
<1>6. CASE FlushDecrypt
  BY <1>6 DEF PipelineTypeOK, FlushDecrypt, socketVars, drainVars
<1>7. ASSUME NEW i \in DOMAIN record, StartDecrypt(i)
      PROVE  PipelineTypeOK'
  <2>1. record' \in Seq(Statuses) /\ Len(record') = Len(record)
    BY <1>7, <1>0 DEF StartDecrypt, Statuses
  <2> QED
    BY <1>7, <2>1 DEF PipelineTypeOK, StartDecrypt, socketVars, drainVars
<1>8. ASSUME NEW i \in DOMAIN record, Decrypt(i)
      PROVE  PipelineTypeOK'
  <2>1. persisted[i] \in Envelopes
    BY RecordEnvelope
  <2>2. consumed' \subseteq Envelopes
    BY <1>8, <2>1 DEF Decrypt, DecryptTransaction, KeepsSession, PipelineTypeOK
  <2>3. /\ content' \in Seq(Envelopes) /\ Len(content') >= Len(content)
        /\ report' \in {"none", "success", "failure"}
    <3>1. CASE HasContent(persisted[i])
      <4>1. content' = Append(content, persisted[i]) /\ report' = "success"
        BY <1>8, <3>1 DEF Decrypt, DecryptTransaction
      <4>2. content' \in Seq(Envelopes)
        BY <1>0, <2>1, <4>1, AppendType
      <4> QED
        BY <1>0, <4>1, <4>2
    <3>2. CASE ~HasContent(persisted[i])
      BY <1>8, <1>0, <3>2 DEF Decrypt, DecryptTransaction
    <3> QED
      BY <3>1, <3>2
  <2>4. UNCHANGED <<persisted, record, processed, drainStep, batchJobs>>
    BY <1>8 DEF Decrypt, socketVars
  <2> QED
    BY <2>2, <2>3, <2>4, <1>0 DEF PipelineTypeOK
<1>9. ASSUME NEW i \in DOMAIN record, FinishDecrypt(i)
      PROVE  PipelineTypeOK'
  <2>1. record' \in Seq(Statuses) /\ Len(record') = Len(record)
    BY <1>9, <1>0 DEF FinishDecrypt, Statuses
  <2> QED
    BY <1>9, <2>1 DEF PipelineTypeOK, FinishDecrypt, socketVars, drainVars
<1>10. CASE drainQueue
  BY <1>10 DEF PipelineTypeOK, drainQueue, socketVars, decryptVars
<1>11. CASE ReadBatch
  <2>1. PICK size \in {1, BatchSize} : batchJobs' = Max(NextJobs(size))
    BY <1>11 DEF ReadBatch
  <2>2. size \in Nat /\ size <= BatchSize /\ Len(content) \in Nat
    BY <1>0
  <2>3. batchJobs' \in 0 .. size /\ batchJobs' <= Len(content)
    BY <2>1, <2>2, BatchOf
  <2>4. batchJobs' \in 0 .. BatchSize
    BY <1>0, <2>2, <2>3
  <2> QED
    BY <1>11, <2>3, <2>4 DEF PipelineTypeOK, ReadBatch, socketVars, decryptVars
<1>12. CASE DrainIsDone
  BY <1>12 DEF PipelineTypeOK, DrainIsDone, socketVars, decryptVars
<1>13. CASE ProcessBatch
  <2>1. /\ content' \in Seq(Envelopes) /\ processed' \in Seq(Envelopes)
        /\ drainStep' = "pending" /\ batchJobs' = 0
        /\ UNCHANGED <<persisted, record, consumed, report>>
    BY <1>13, BatchMoves DEF ProcessBatch, socketVars, decryptVars
  <2>2. batchJobs' <= Len(content')
    BY <2>1
  <2> QED
    BY <1>0, <2>1, <2>2 DEF PipelineTypeOK
<1>14. CASE registrationStateDidChange
  BY <1>14 DEF PipelineTypeOK, registrationStateDidChange, socketVars, decryptVars
<1> QED
  BY <1>1, <1>2, <1>3, <1>4, <1>5, <1>6, <1>7, <1>8, <1>9, <1>10, <1>11, <1>12, <1>13, <1>14
     DEF Next, DecryptQueueStep, drainQueueWorkStep

\* The flags are Booleans.
LEMMA FlagsInduction ==
    ASSUME FlagsOK, [Next]_vars
    PROVE  FlagsOK'
<1>1. isSetup' \in BOOLEAN
  <2>1. CASE Setup
    BY <2>1, Zenon DEF Setup
  <2>2. CASE Relaunch
    BY <2>2, Zenon DEF Relaunch
  <2>3. CASE UNCHANGED isSetup
    BY <2>3, Zenon DEF FlagsOK
  <2> QED
    BY <2>1, <2>2, <2>3 DEF Next, vars, SocketAlone, Receive, DecryptQueueStep, StartDecrypt,
       Decrypt, FinishDecrypt, FlushDecrypt, drainQueue, drainQueueWorkStep, ReadBatch,
       DrainIsDone, ProcessBatch, registrationStateDidChange, pipelineVars, decryptVars
<1>2. workSteps' \in BOOLEAN
  <2>1. CASE Setup
    BY <2>1, Zenon DEF Setup
  <2>2. CASE Relaunch
    BY <2>2, Zenon DEF Relaunch
  <2>3. CASE FlushDecrypt
    BY <2>3, Zenon DEF FlushDecrypt
  <2>4. CASE Receive
    BY <2>4, Zenon DEF Receive, FlagsOK
  <2>5. CASE UNCHANGED workSteps
    BY <2>5, Zenon DEF FlagsOK
  <2> QED
    BY <2>1, <2>2, <2>3, <2>4, <2>5 DEF Next, vars, SocketAlone, DecryptQueueStep,
       StartDecrypt, Decrypt, FinishDecrypt, drainQueue, drainQueueWorkStep, ReadBatch,
       DrainIsDone, ProcessBatch, registrationStateDidChange, pipelineVars, decryptVars
<1>3. drainCalls' \in BOOLEAN
  <2>1. CASE Relaunch
    BY <2>1, Zenon DEF Relaunch
  <2>2. CASE drainQueue
    BY <2>2, Zenon DEF drainQueue
  <2>3. CASE registrationStateDidChange
    BY <2>3, Zenon DEF registrationStateDidChange
  <2>4. ASSUME NEW i \in DOMAIN record, Decrypt(i)
        PROVE  drainCalls' \in BOOLEAN
    BY <2>4, Zenon DEF Decrypt, DecryptTransaction, FlagsOK
  <2>5. CASE UNCHANGED drainCalls
    BY <2>5, Zenon DEF FlagsOK
  <2> QED
    BY <2>1, <2>2, <2>3, <2>4, <2>5 DEF Next, vars, SocketAlone, Receive, DecryptQueueStep,
       Setup, StartDecrypt, FinishDecrypt, FlushDecrypt, drainQueueWorkStep, ReadBatch,
       DrainIsDone, ProcessBatch, pipelineVars, drainVars
<1> QED
  BY <1>1, <1>2, <1>3 DEF FlagsOK

LEMMA PipelineTypeInit == Init => PipelineTypeOK /\ FlagsOK
<1> SUFFICES ASSUME Init PROVE PipelineTypeOK /\ FlagsOK
  OBVIOUS
<1>1. PipelineTypeOK
  BY BatchSizeAssumption DEF Init, SocketInit, PipelineTypeOK
<1>2. FlagsOK
  BY Zenon DEF Init, FlagsOK
<1> QED
  BY <1>1, <1>2

\* Every variable of the pipeline keeps its type.
THEOREM TypeCorrect == Spec => []TypeOK
<1>1. Init => PipelineTypeOK /\ FlagsOK
  BY PipelineTypeInit
<1>2. SocketTypeOK /\ PipelineTypeOK /\ FlagsOK /\ [Next]_vars => PipelineTypeOK' /\ FlagsOK'
  BY PipelineTypeInduction, FlagsInduction
<1>3. SocketTypeOK /\ PipelineTypeOK /\ FlagsOK => TypeOK
  BY DEF PipelineTypeOK, FlagsOK, TypeOK, Statuses
<1> QED
  BY <1>1, <1>2, <1>3, PipelineSocket, PTL DEF Spec

------------------------------------------------------------------------------
(***************************************************************************)
(* What was processed and then what is to be processed: one sequence, that *)
(* draining the content queue leaves as it is.                             *)
(***************************************************************************)

Delivery(p) == IF p <= Len(processed) THEN processed[p] ELSE content[p - Len(processed)]

Deliveries == Len(processed) + Len(content)

IsDelivered(e) == \E p \in 1 .. Deliveries : Delivery(p) = e

DeliveriesStay ==
    /\ Deliveries <= Deliveries'
    /\ \A p \in 1 .. Deliveries : Delivery(p)' = Delivery(p)

\* Draining moves deliveries from the content queue, and changes none.
LEMMA DrainingKeepsDeliveries ==
    ASSUME PipelineTypeOK, ProcessBatch
    PROVE  Deliveries' = Deliveries /\ DeliveriesStay
<1>1. PICK n \in 1 .. Len(content) :
        /\ Len(processed') = Len(processed) + n
        /\ Len(content') = Len(content) - n
        /\ \A i \in 1 .. Len(processed) : processed'[i] = processed[i]
        /\ \A i \in 1 .. n : processed'[Len(processed) + i] = content[i]
        /\ \A i \in 1 .. Len(content) - n : content'[i] = content[n + i]
  BY BatchMoves
<1>2. Len(content) \in Nat /\ Len(processed) \in Nat
  BY DEF PipelineTypeOK
<1>3. Deliveries' = Deliveries /\ Deliveries \in Nat
  BY <1>1, <1>2 DEF Deliveries
<1>4. ASSUME NEW p \in 1 .. Deliveries
      PROVE  Delivery(p)' = Delivery(p)
  <2>1. CASE p <= Len(processed)
    BY <1>1, <1>2, <1>4, <2>1 DEF Delivery, Deliveries
  <2>2. CASE ~(p <= Len(processed)) /\ p <= Len(processed) + n
    <3>1. p - Len(processed) \in 1 .. n
      BY <1>1, <1>2, <1>4, <2>2 DEF Deliveries
    <3>2. processed'[Len(processed) + (p - Len(processed))] = content[p - Len(processed)]
      BY <1>1, <3>1
    <3>3. Len(processed) + (p - Len(processed)) = p
      BY <1>2, <1>4, <1>3
    <3> QED
      BY <1>1, <1>2, <2>2, <3>2, <3>3 DEF Delivery
  <2>3. CASE ~(p <= Len(processed)) /\ ~(p <= Len(processed) + n)
    <3>1. p - Len(processed') \in 1 .. Len(content) - n
      BY <1>1, <1>2, <1>4, <2>3 DEF Deliveries
    <3>2. content'[p - Len(processed')] = content[n + (p - Len(processed'))]
      BY <1>1, <3>1
    <3>3. n + (p - Len(processed')) = p - Len(processed)
      BY <1>1, <1>2, <1>4, <1>3
    <3> QED
      BY <1>1, <1>2, <2>3, <3>2, <3>3 DEF Delivery
  <2> QED
    BY <2>1, <2>2, <2>3
<1> QED
  BY <1>3, <1>4 DEF DeliveriesStay

\* Decryption delivers the content of its envelope last.
LEMMA DecryptDelivers ==
    ASSUME SocketTypeOK, PipelineTypeOK, NEW i \in DOMAIN record, Decrypt(i)
    PROVE  /\ HasContent(persisted[i]) =>
                /\ Deliveries' = Deliveries + 1
                /\ \A d : d = Deliveries + 1 => Delivery(d)' = persisted[i]
           /\ ~HasContent(persisted[i]) => Deliveries' = Deliveries
           /\ DeliveriesStay
<1>0. /\ persisted[i] \in Envelopes
      /\ content \in Seq(Envelopes) /\ processed \in Seq(Envelopes)
      /\ Len(content) \in Nat /\ Len(processed) \in Nat
      /\ processed' = processed
  BY RecordEnvelope DEF PipelineTypeOK, Decrypt
<1>1. CASE HasContent(persisted[i])
  <2>1. content' = Append(content, persisted[i])
    BY <1>1 DEF Decrypt, DecryptTransaction
  <2>2. /\ Len(content') = Len(content) + 1
        /\ content'[Len(content) + 1] = persisted[i]
        /\ \A k \in 1 .. Len(content) : content'[k] = content[k]
    BY <1>0, <2>1
  <2>3. Deliveries' = Deliveries + 1 /\ Deliveries \in Nat
    BY <1>0, <2>2 DEF Deliveries
  <2>5. ASSUME NEW d, d = Deliveries + 1
        PROVE  Delivery(d)' = persisted[i]
    BY <1>0, <2>2, <2>5 DEF Delivery, Deliveries
  <2>6. ASSUME NEW p \in 1 .. Deliveries
        PROVE  Delivery(p)' = Delivery(p)
    <3>1. CASE p <= Len(processed)
      BY <1>0, <3>1 DEF Delivery
    <3>2. CASE ~(p <= Len(processed))
      <4>1. p - Len(processed) \in 1 .. Len(content)
        BY <1>0, <2>6, <3>2 DEF Deliveries
      <4> QED
        BY <1>0, <2>2, <3>2, <4>1 DEF Delivery
    <3> QED
      BY <3>1, <3>2
  <2> QED
    BY <1>1, <2>3, <2>5, <2>6 DEF DeliveriesStay
<1>2. CASE ~HasContent(persisted[i])
  BY <1>0, <1>2 DEF Decrypt, DecryptTransaction, Deliveries, Delivery, DeliveriesStay
<1> QED
  BY <1>1, <1>2

\* Nothing else changes what is delivered.
LEMMA DeliverySteps ==
    ASSUME SocketTypeOK, PipelineTypeOK, [Next]_vars
    PROVE  /\ DeliveriesStay
           /\ \/ Deliveries' = Deliveries /\ consumed' = consumed /\ report' \in {report, "none"}
              \/ \E i \in DOMAIN record : Decrypt(i)
<1>0. Deliveries \in Nat
  BY DEF Deliveries, PipelineTypeOK
<1>1. CASE UNCHANGED <<content, processed, consumed>> /\ report' \in {report, "none"}
  BY <1>0, <1>1 DEF Deliveries, Delivery, DeliveriesStay
<1>2. CASE ProcessBatch
  BY <1>2, DrainingKeepsDeliveries DEF ProcessBatch, decryptVars
<1>3. ASSUME NEW i \in DOMAIN record, Decrypt(i)
      PROVE  DeliveriesStay
  BY <1>3, DecryptDelivers
<1> QED
  BY <1>1, <1>2, <1>3 DEF Next, vars, SocketAlone, Relaunch, Receive, DecryptQueueStep, Setup,
     StartDecrypt, FinishDecrypt, FlushDecrypt, drainQueue, drainQueueWorkStep, ReadBatch,
     DrainIsDone, registrationStateDidChange, pipelineVars, decryptVars

LEMMA DeliveredStaysDelivered ==
    ASSUME PipelineTypeOK, PipelineTypeOK', DeliveriesStay, NEW e, IsDelivered(e)
    PROVE  IsDelivered(e)'
<1>1. PICK p \in 1 .. Deliveries : Delivery(p) = e
  BY DEF IsDelivered
<1>2. Deliveries \in Nat /\ Deliveries' \in Nat
  BY DEF Deliveries, PipelineTypeOK
<1>3. p \in 1 .. Deliveries' /\ Delivery(p)' = e
  BY <1>1, <1>2 DEF DeliveriesStay
<1> QED
  BY <1>3 DEF IsDelivered

------------------------------------------------------------------------------
(***************************************************************************)
(* Records are decrypted one at a time and in order                        *)
(***************************************************************************)

GoneInOrder ==
    \A i \in DOMAIN record : record[i] = "gone" =>
        \A k \in 1 .. i - 1 : record[k] = "gone"

StartedInOrder ==
    isSetup => \A i \in DOMAIN record : record[i] # "ready" =>
        \A k \in 1 .. i - 1 : record[k] # "ready"

RecordsInOrder == GoneInOrder /\ StartedInOrder

\* What is before the record at work is done.
LEMMA ExecutingIsFirst ==
    ASSUME PipelineTypeOK, RecordsInOrder, NEW i \in DOMAIN record, IsExecuting(i)
    PROVE  \A k \in 1 .. i - 1 : k \in DOMAIN record /\ record[k] = "gone"
<1> SUFFICES ASSUME NEW k \in 1 .. i - 1
             PROVE  k \in DOMAIN record /\ record[k] = "gone"
  OBVIOUS
<1>1. k \in DOMAIN record
  BY DEF PipelineTypeOK
<1>2. record[k] # "running" /\ record[k] # "ready"
  BY DEF IsExecuting, RecordsInOrder, StartedInOrder
<1>3. record[k] \in Statuses
  BY <1>1 DEF PipelineTypeOK
<1> QED
  BY <1>1, <1>2, <1>3 DEF Statuses

\* What a step does to the records.
LEMMA RecordSteps ==
    ASSUME [Next]_vars
    PROVE  \/ UNCHANGED <<record, isSetup>>
           \/ Relaunch
           \/ Receive
           \/ Setup
           \/ \E i \in DOMAIN record : StartDecrypt(i) \/ FinishDecrypt(i)
BY DEF Next, vars, SocketAlone, DecryptQueueStep, FlushDecrypt, Decrypt, drainQueue,
   drainQueueWorkStep, ReadBatch, DrainIsDone, ProcessBatch, registrationStateDidChange,
   pipelineVars, decryptVars

LEMMA RecordOrderInduction ==
    ASSUME SocketTypeOK, PipelineTypeOK, RecordsInOrder, [Next]_vars
    PROVE  RecordsInOrder'
<1>0. record \in Seq(Statuses) /\ GoneInOrder /\ StartedInOrder
  BY DEF PipelineTypeOK, RecordsInOrder
<1>1. CASE UNCHANGED <<record, isSetup>>
  BY <1>0, <1>1 DEF RecordsInOrder, GoneInOrder, StartedInOrder
<1>2. CASE Relaunch
  <2>1. ~isSetup'
    BY <1>2, Zenon DEF Relaunch
  <2>2. record' = record
    BY <1>2 DEF Relaunch
  <2> QED
    BY <1>0, <2>1, <2>2 DEF RecordsInOrder, GoneInOrder, StartedInOrder
<1>3. CASE Receive
  <2>1. isSetup' = isSetup
    BY <1>3 DEF Receive
  <2>2. CASE record' = record
    BY <1>0, <2>1, <2>2 DEF RecordsInOrder, GoneInOrder, StartedInOrder
  <2>3. CASE record' = Append(record, "ready")
    <3>1. GoneInOrder'
      BY <1>0, <2>3 DEF GoneInOrder
    <3>2. StartedInOrder'
      BY <1>0, <2>1, <2>3 DEF StartedInOrder
    <3> QED
      BY <3>1, <3>2 DEF RecordsInOrder
  <2> QED
    BY <1>3, <2>2, <2>3, ReceiveAdds
<1>4. CASE Setup
  <2>1. record' = [i \in DOMAIN record |-> saveRunningAsReady(record[i])]
    BY <1>4 DEF Setup
  <2>2. \A i \in DOMAIN record : record'[i] # "ready" <=> record[i] = "gone"
    BY <1>0, <2>1 DEF saveRunningAsReady, Statuses
  <2>3. \A i \in DOMAIN record : record'[i] = "gone" <=> record[i] = "gone"
    BY <1>0, <2>1 DEF saveRunningAsReady, Statuses
  <2>4. DOMAIN record' = DOMAIN record
    BY <2>1
  <2>5. \A i \in DOMAIN record : \A k \in 1 .. i - 1 : k \in DOMAIN record
    BY <1>0
  <2>6. GoneInOrder'
    BY <1>0, <2>3, <2>4, <2>5 DEF GoneInOrder
  <2>7. StartedInOrder'
    BY <1>0, <2>2, <2>4, <2>5 DEF GoneInOrder, StartedInOrder
  <2> QED
    BY <2>6, <2>7 DEF RecordsInOrder
<1>5. ASSUME NEW i \in DOMAIN record, StartDecrypt(i)
      PROVE  RecordsInOrder'
  <2>1. /\ isSetup /\ isSetup' = isSetup /\ record[i] = "ready"
        /\ \A k \in 1 .. i - 1 : record[k] # "ready"
        /\ record' = [record EXCEPT ![i] = "running"]
    BY <1>5 DEF StartDecrypt, IsReady
  <2>2. GoneInOrder'
    BY <1>0, <2>1 DEF GoneInOrder
  <2>3. StartedInOrder'
    BY <1>0, <2>1 DEF StartedInOrder
  <2> QED
    BY <2>2, <2>3 DEF RecordsInOrder
<1>6. ASSUME NEW i \in DOMAIN record, FinishDecrypt(i)
      PROVE  RecordsInOrder'
  <2>1. /\ isSetup' = isSetup /\ record[i] = "running"
        /\ record' = [record EXCEPT ![i] = "gone"]
    BY <1>6 DEF FinishDecrypt, IsExecuting
  <2>2. \A k \in 1 .. i - 1 : k \in DOMAIN record /\ record[k] = "gone"
    BY <1>6, ExecutingIsFirst DEF FinishDecrypt
  <2>3. GoneInOrder'
    BY <1>0, <2>1, <2>2 DEF GoneInOrder
  <2>4. StartedInOrder'
    BY <1>0, <2>1 DEF StartedInOrder
  <2> QED
    BY <2>3, <2>4 DEF RecordsInOrder
<1> QED
  BY <1>1, <1>2, <1>3, <1>4, <1>5, <1>6, RecordSteps

------------------------------------------------------------------------------
(***************************************************************************)
(* Every record that is done has delivered, each cipher message once, and  *)
(* in order                                                                *)
(***************************************************************************)

IsCipher(e) == Kind[e] = "cipher"

UsedKeysAreDelivered == \A e \in consumed : IsCipher(e) => IsDelivered(e)

DeliveriesUsedTheirKey ==
    \A p \in 1 .. Deliveries : IsCipher(Delivery(p)) => Delivery(p) \in consumed

DeliveredOnce ==
    \A p, q \in 1 .. Deliveries : IsCipher(Delivery(p)) /\ Delivery(p) = Delivery(q) => p = q

DeliveredInOrder ==
    \A p \in 1 .. Deliveries : \A e \in Envelopes :
        e < Delivery(p) /\ Deliverable(e) => \E q \in 1 .. p : Delivery(q) = e

LeavesNothingBehind(e) == Deliverable(e) => IsDelivered(e)

GoneIsDelivered ==
    \A i \in DOMAIN record : record[i] = "gone" => LeavesNothingBehind(persisted[i])

\* Decryption reports of the record at work, which then has nothing to deliver any more.
ReportedIsDelivered ==
    report # "none" =>
        \E i \in DOMAIN record : IsExecuting(i) /\ LeavesNothingBehind(persisted[i])

PipelineInv ==
    /\ RecordsInOrder
    /\ UsedKeysAreDelivered
    /\ DeliveriesUsedTheirKey
    /\ DeliveredOnce
    /\ DeliveredInOrder
    /\ GoneIsDelivered
    /\ ReportedIsDelivered

\* Decrypting an envelope leaves it delivered, if it has anything to deliver.
LEMMA DecryptLeavesNothing ==
    ASSUME SocketTypeOK, PipelineTypeOK, PipelineTypeOK', PipelineInv,
           NEW i \in DOMAIN record, Decrypt(i)
    PROVE  LeavesNothingBehind(persisted[i])'
<1>1. persisted' = persisted /\ DeliveriesStay /\ Deliveries \in Nat
  BY DecryptDelivers DEF Decrypt, socketVars, Deliveries, PipelineTypeOK
<1>2. PICK e : e = persisted[i]
  OBVIOUS
<1>3. LeavesNothingBehind(persisted[i])' <=> (Deliverable(e) => IsDelivered(e)')
  BY <1>1, <1>2 DEF LeavesNothingBehind, Deliverable
<1>4. CASE HasContent(e)
  <2>1. PICK d : d = Deliveries + 1
    OBVIOUS
  <2>2. Deliveries' = d /\ Delivery(d)' = e /\ d \in 1 .. d
    BY <1>1, <1>2, <1>4, <2>1, DecryptDelivers
  <2>3. IsDelivered(e)'
    BY <2>2 DEF IsDelivered
  <2> QED
    BY <1>3, <2>3
<1>5. CASE ~HasContent(e)
  <2>1. SUFFICES ASSUME Deliverable(e) PROVE IsDelivered(e)'
    BY <1>3
  <2>2. IsCipher(e) /\ e \in consumed
    BY <1>5, <2>1 DEF Deliverable, HasContent, IsDuplicate, IsCipher
  <2>3. IsDelivered(e)
    BY <2>2 DEF PipelineInv, UsedKeysAreDelivered
  <2> QED
    BY <1>1, <2>3, DeliveredStaysDelivered
<1> QED
  BY <1>4, <1>5

\* What was left with nothing behind stays so.
LEMMA LeavesNothingStays ==
    ASSUME SocketTypeOK, PipelineTypeOK, PipelineTypeOK', DeliveriesStay, [Next]_vars,
           NEW i \in DOMAIN record, LeavesNothingBehind(persisted[i])
    PROVE  LeavesNothingBehind(persisted[i])'
<1>1. i \in 1 .. Len(record)
  BY DEF PipelineTypeOK
<1>2. persisted'[i] = persisted[i]
  BY <1>1, RecordsStay
<1>3. PICK e : e = persisted[i]
  OBVIOUS
<1>4. LeavesNothingBehind(persisted[i])' <=> (Deliverable(e) => IsDelivered(e)')
  BY <1>2, <1>3 DEF LeavesNothingBehind, Deliverable
<1>5. IsDelivered(e) => IsDelivered(e)'
  BY DeliveredStaysDelivered
<1> QED
  BY <1>3, <1>4, <1>5 DEF LeavesNothingBehind

LEMMA GoneInduction ==
    ASSUME SocketTypeOK, PipelineTypeOK, PipelineTypeOK', PipelineInv, DeliveriesStay,
           [Next]_vars
    PROVE  GoneIsDelivered'
<1> SUFFICES ASSUME NEW i \in DOMAIN record', record'[i] = "gone"
             PROVE  LeavesNothingBehind(persisted[i])'
  BY DEF GoneIsDelivered
<1>0. record \in Seq(Statuses) /\ GoneIsDelivered /\ RecordsInOrder
  BY DEF PipelineTypeOK, PipelineInv
<1>1. CASE i \in DOMAIN record /\ record[i] = "gone"
  <2>1. LeavesNothingBehind(persisted[i])
    BY <1>0, <1>1 DEF GoneIsDelivered
  <2> QED
    BY <1>1, <2>1, LeavesNothingStays
<1>2. CASE ~(i \in DOMAIN record /\ record[i] = "gone")
  <2>1. FinishDecrypt(i) /\ i \in DOMAIN record
    <3>1. CASE UNCHANGED <<record, isSetup>>
      BY <1>2, <3>1
    <3>2. CASE Relaunch
      BY <1>2, <3>2 DEF Relaunch
    <3>3. CASE Receive
      <4>1. record' = record \/ record' = Append(record, "ready")
        BY <3>3, ReceiveAdds
      <4> QED
        BY <1>0, <1>2, <4>1
    <3>4. CASE Setup
      BY <1>2, <3>4 DEF Setup, saveRunningAsReady
    <3>5. ASSUME NEW k \in DOMAIN record, StartDecrypt(k)
          PROVE  FALSE
      BY <1>2, <3>5 DEF StartDecrypt
    <3>6. ASSUME NEW k \in DOMAIN record, FinishDecrypt(k)
          PROVE  k = i
      BY <1>2, <3>6 DEF FinishDecrypt
    <3> QED
      BY <3>1, <3>2, <3>3, <3>4, <3>5, <3>6, RecordSteps
  <2>2. IsExecuting(i) /\ report # "none"
    BY <2>1 DEF FinishDecrypt
  <2>3. PICK k \in DOMAIN record : IsExecuting(k) /\ LeavesNothingBehind(persisted[k])
    BY <2>2 DEF PipelineInv, ReportedIsDelivered
  <2>4. k = i
    BY <1>0, <2>1, <2>2, <2>3 DEF IsExecuting
  <2> QED
    BY <2>1, <2>3, <2>4, LeavesNothingStays
<1> QED
  BY <1>1, <1>2

LEMMA ReportInduction ==
    ASSUME SocketTypeOK, PipelineTypeOK, PipelineTypeOK', PipelineInv, DeliveriesStay,
           [Next]_vars
    PROVE  ReportedIsDelivered'
<1> SUFFICES ASSUME report' # "none"
             PROVE  \E i \in DOMAIN record' : IsExecuting(i)' /\ LeavesNothingBehind(persisted[i])'
  BY DEF ReportedIsDelivered
<1>0. record \in Seq(Statuses) /\ RecordsInOrder
  BY DEF PipelineTypeOK, PipelineInv
<1>1. ASSUME NEW i \in DOMAIN record, Decrypt(i)
      PROVE  i \in DOMAIN record' /\ IsExecuting(i)' /\ LeavesNothingBehind(persisted[i])'
  <2>1. UNCHANGED <<record, isSetup>> /\ IsExecuting(i)
    BY <1>1 DEF Decrypt
  <2> QED
    BY <1>1, <2>1, DecryptLeavesNothing DEF IsExecuting
<1>2. CASE report' = report
  <2>1. PICK i \in DOMAIN record : IsExecuting(i) /\ LeavesNothingBehind(persisted[i])
    BY <1>2 DEF PipelineInv, ReportedIsDelivered
  <2>2. LeavesNothingBehind(persisted[i])'
    BY <2>1, LeavesNothingStays
  <2>3. i \in DOMAIN record' /\ IsExecuting(i)'
    <3>1. CASE UNCHANGED <<record, isSetup>>
      BY <2>1, <3>1 DEF IsExecuting
    <3>2. CASE Relaunch
      BY <1>2, <3>2 DEF Relaunch
    <3>3. CASE Receive
      <4>1. isSetup' = isSetup
        BY <3>3 DEF Receive
      <4>2. record' = record \/ record' = Append(record, "ready")
        BY <3>3, ReceiveAdds
      <4> QED
        BY <1>0, <2>1, <4>1, <4>2 DEF IsExecuting
    <3>4. CASE Setup
      BY <2>1, <3>4 DEF Setup, IsExecuting
    <3>5. ASSUME NEW k \in DOMAIN record, StartDecrypt(k)
          PROVE  i \in DOMAIN record' /\ IsExecuting(i)'
      <4>1. /\ isSetup' = isSetup /\ record[k] = "ready"
            /\ record' = [record EXCEPT ![k] = "running"]
        BY <3>5 DEF StartDecrypt, IsReady
      <4>2. ~(k \in 1 .. i - 1)
        BY <1>0, <2>1, <4>1 DEF RecordsInOrder, StartedInOrder, IsExecuting
      <4> QED
        BY <1>0, <2>1, <4>1, <4>2 DEF IsExecuting
    <3>6. ASSUME NEW k \in DOMAIN record, FinishDecrypt(k)
          PROVE  FALSE
      BY <3>6 DEF FinishDecrypt
    <3> QED
      BY <3>1, <3>2, <3>3, <3>4, <3>5, <3>6, RecordSteps
  <2> QED
    BY <2>2, <2>3
<1> QED
  BY <1>1, <1>2, DeliverySteps

\* The keys that were used are those of the cipher messages delivered.
LEMMA KeysInduction ==
    ASSUME SocketTypeOK, PipelineTypeOK, PipelineTypeOK', PipelineInv, DeliveriesStay,
           [Next]_vars
    PROVE  UsedKeysAreDelivered' /\ DeliveriesUsedTheirKey'
<1>0. UsedKeysAreDelivered /\ DeliveriesUsedTheirKey /\ Deliveries \in Nat
  BY DEF PipelineInv, Deliveries, PipelineTypeOK
<1>1. ASSUME NEW e, IsDelivered(e)
      PROVE  IsDelivered(e)'
  BY <1>1, DeliveredStaysDelivered
<1>2. CASE Deliveries' = Deliveries /\ consumed' = consumed
  <2>1. UsedKeysAreDelivered'
    BY <1>0, <1>1, <1>2 DEF UsedKeysAreDelivered, IsCipher
  <2>2. DeliveriesUsedTheirKey'
    BY <1>0, <1>2 DEF DeliveriesUsedTheirKey, IsCipher, DeliveriesStay
  <2> QED
    BY <2>1, <2>2
<1>3. ASSUME NEW i \in DOMAIN record, Decrypt(i)
      PROVE  UsedKeysAreDelivered' /\ DeliveriesUsedTheirKey'
  <2>1. PICK x : x = persisted[i]
    OBVIOUS
  <2>2. PICK d : d = Deliveries + 1
    OBVIOUS
  <2>3. consumed' = IF UsesKey(x) THEN consumed \cup {x} ELSE consumed
    BY <1>3, <2>1 DEF Decrypt, DecryptTransaction, KeepsSession
  <2>4. HasContent(x) => Deliveries' = d /\ Delivery(d)' = x
    BY <1>3, <2>1, <2>2, DecryptDelivers
  <2>5. ~HasContent(x) => Deliveries' = Deliveries
    BY <1>3, <2>1, DecryptDelivers
  <2>6. ASSUME NEW e \in consumed', IsCipher(e)
        PROVE  IsDelivered(e)'
    <3>1. CASE e \in consumed
      BY <1>0, <1>1, <2>6, <3>1 DEF UsedKeysAreDelivered
    <3>2. CASE e \notin consumed
      <4>1. e = x /\ UsesKey(x)
        BY <2>3, <2>6, <3>2
      <4>2. HasContent(x)
        BY <2>6, <4>1 DEF UsesKey, HasContent, IsCipher
      <4>3. d \in 1 .. Deliveries' /\ Delivery(d)' = e
        BY <1>0, <2>2, <2>4, <4>1, <4>2
      <4> QED
        BY <4>3 DEF IsDelivered
    <3> QED
      BY <3>1, <3>2
  <2>7. ASSUME NEW p \in 1 .. Deliveries', IsCipher(Delivery(p)')
        PROVE  Delivery(p)' \in consumed'
    <3>1. CASE p \in 1 .. Deliveries
      BY <1>0, <2>3, <2>7, <3>1 DEF DeliveriesUsedTheirKey, DeliveriesStay
    <3>2. CASE p \notin 1 .. Deliveries
      <4>1. HasContent(x) /\ p = d
        BY <1>0, <2>2, <2>4, <2>5, <2>7, <3>2
      <4>2. UsesKey(x)
        BY <2>4, <2>7, <4>1 DEF HasContent, UsesKey, IsCipher
      <4> QED
        BY <2>3, <2>4, <4>1, <4>2
    <3> QED
      BY <3>1, <3>2
  <2> QED
    BY <2>6, <2>7 DEF UsedKeysAreDelivered, DeliveriesUsedTheirKey, IsCipher
<1> QED
  BY <1>2, <1>3, DeliverySteps

LEMMA OnceInduction ==
    ASSUME SocketTypeOK, PipelineTypeOK, PipelineInv, DeliveriesStay, [Next]_vars
    PROVE  DeliveredOnce'
<1>0. DeliveredOnce /\ DeliveriesUsedTheirKey /\ Deliveries \in Nat
  BY DEF PipelineInv, Deliveries, PipelineTypeOK
<1>1. CASE Deliveries' = Deliveries
  BY <1>0, <1>1 DEF DeliveredOnce, IsCipher, DeliveriesStay
<1>2. ASSUME NEW i \in DOMAIN record, Decrypt(i), HasContent(persisted[i])
      PROVE  DeliveredOnce'
  <2>1. PICK x : x = persisted[i]
    OBVIOUS
  <2>2. PICK d : d = Deliveries + 1
    OBVIOUS
  <2>3. Deliveries' = d /\ Delivery(d)' = x
    BY <1>2, <2>1, <2>2, DecryptDelivers
  <2>4. IsCipher(x) => x \notin consumed
    BY <1>2, <2>1 DEF HasContent, IsDuplicate, IsCipher
  <2>5. ASSUME NEW p \in 1 .. Deliveries, IsCipher(x), Delivery(p) = x
        PROVE  FALSE
    BY <1>0, <2>4, <2>5 DEF DeliveriesUsedTheirKey
  <2>6. ASSUME NEW p \in 1 .. d, NEW q \in 1 .. d,
               IsCipher(Delivery(p)'), Delivery(p)' = Delivery(q)'
        PROVE  p = q
    <3>1. \A k \in 1 .. d : k = d \/ (k \in 1 .. Deliveries /\ Delivery(k)' = Delivery(k))
      BY <1>0, <2>2 DEF DeliveriesStay
    <3>2. CASE p = d
      BY <2>3, <2>5, <2>6, <3>1, <3>2
    <3>3. CASE q = d
      BY <2>3, <2>5, <2>6, <3>1, <3>3
    <3>4. CASE p # d /\ q # d
      BY <1>0, <2>6, <3>1, <3>4 DEF DeliveredOnce
    <3> QED
      BY <3>2, <3>3, <3>4
  <2> QED
    BY <2>3, <2>6 DEF DeliveredOnce, IsCipher
<1>3. ASSUME NEW i \in DOMAIN record, Decrypt(i), ~HasContent(persisted[i])
      PROVE  Deliveries' = Deliveries
  BY <1>3, DecryptDelivers
<1> QED
  BY <1>1, <1>2, <1>3, DeliverySteps

\* The records before the one at work are done: all that is older has been delivered.
LEMMA OrderInduction ==
    ASSUME SocketTypeOK, DeliveryInv, PipelineTypeOK, PipelineInv, DeliveriesStay, [Next]_vars
    PROVE  DeliveredInOrder'
<1>0. DeliveredInOrder /\ Deliveries \in Nat
  BY DEF PipelineInv, Deliveries, PipelineTypeOK
<1>1. ASSUME NEW p \in 1 .. Deliveries, NEW e \in Envelopes, e < Delivery(p)', Deliverable(e)
      PROVE  \E q \in 1 .. p : Delivery(q)' = e
  <2>1. e < Delivery(p)
    BY <1>1 DEF DeliveriesStay
  <2>2. PICK q \in 1 .. p : Delivery(q) = e
    BY <1>0, <1>1, <2>1 DEF DeliveredInOrder
  <2>3. q \in 1 .. Deliveries
    BY <1>0, <2>2
  <2> QED
    BY <2>2, <2>3 DEF DeliveriesStay
<1>2. CASE Deliveries' = Deliveries
  BY <1>1, <1>2 DEF DeliveredInOrder, Deliverable
<1>3. ASSUME NEW i \in DOMAIN record, Decrypt(i), HasContent(persisted[i])
      PROVE  DeliveredInOrder'
  <2>1. PICK d : d = Deliveries + 1
    OBVIOUS
  <2>2. Deliveries' = d /\ Delivery(d)' = persisted[i]
    BY <1>3, <2>1, DecryptDelivers
  <2>3. ASSUME NEW e \in Envelopes, e < persisted[i], Deliverable(e)
        PROVE  IsDelivered(e)
    <3>1. i \in DOMAIN persisted /\ e \in Envelopes \ Dropped
      BY <2>3, RecordEnvelope DEF Deliverable
    <3>2. PICK k \in 1 .. i : persisted[k] = e
      BY <2>3, <3>1 DEF DeliveryInv, StoredInOrder
    <3>3. k # i /\ e \in Nat
      BY <2>3, <3>2 DEF Envelopes
    <3>4. i \in Nat
      BY DEF PipelineTypeOK
    <3>5. k \in 1 .. i - 1
      BY <3>2, <3>3, <3>4
    <3>6. k \in DOMAIN record /\ record[k] = "gone"
      BY <1>3, <3>5, ExecutingIsFirst DEF Decrypt, PipelineInv
    <3> QED
      BY <2>3, <3>2, <3>6 DEF PipelineInv, GoneIsDelivered, LeavesNothingBehind
  <2>4. ASSUME NEW p \in 1 .. d, NEW e \in Envelopes, e < Delivery(p)', Deliverable(e)
        PROVE  \E q \in 1 .. p : Delivery(q)' = e
    <3>1. CASE p = d
      <4>1. PICK q \in 1 .. Deliveries : Delivery(q) = e
        BY <2>2, <2>3, <2>4, <3>1 DEF IsDelivered
      <4>2. q \in 1 .. p /\ Delivery(q)' = e
        BY <1>0, <2>1, <3>1, <4>1 DEF DeliveriesStay
      <4> QED
        BY <4>2
    <3>2. CASE p # d
      <4>1. p \in 1 .. Deliveries
        BY <1>0, <2>1, <2>4, <3>2
      <4> QED
        BY <1>1, <2>4, <4>1
    <3> QED
      BY <3>1, <3>2
  <2> QED
    BY <2>2, <2>4 DEF DeliveredInOrder, Deliverable
<1>4. ASSUME NEW i \in DOMAIN record, Decrypt(i), ~HasContent(persisted[i])
      PROVE  Deliveries' = Deliveries
  BY <1>4, DecryptDelivers
<1> QED
  BY <1>2, <1>3, <1>4, DeliverySteps

LEMMA PipelineInvInit == Init => PipelineInv
<1> SUFFICES ASSUME Init PROVE PipelineInv
  OBVIOUS
<1>1. record = <<>> /\ content = <<>> /\ processed = <<>> /\ consumed = {} /\ report = "none"
  BY DEF Init
<1>2. Deliveries = 0
  BY <1>1 DEF Deliveries
<1>3. RecordsInOrder /\ GoneIsDelivered /\ ReportedIsDelivered
  BY <1>1 DEF RecordsInOrder, GoneInOrder, StartedInOrder, GoneIsDelivered,
     ReportedIsDelivered
<1>4. /\ UsedKeysAreDelivered /\ DeliveriesUsedTheirKey /\ DeliveredOnce
      /\ DeliveredInOrder
  BY <1>1, <1>2 DEF UsedKeysAreDelivered, DeliveriesUsedTheirKey, DeliveredOnce,
     DeliveredInOrder
<1> QED
  BY <1>3, <1>4 DEF PipelineInv

LEMMA PipelineInvInduction ==
    ASSUME SocketTypeOK, DeliveryInv, PipelineTypeOK, PipelineInv, [Next]_vars
    PROVE  PipelineInv'
<1>1. PipelineTypeOK' /\ DeliveriesStay
  BY PipelineTypeInduction, DeliverySteps
<1>2. RecordsInOrder
  BY DEF PipelineInv
<1> QED
  BY <1>1, <1>2, RecordOrderInduction, KeysInduction, OnceInduction, OrderInduction,
     GoneInduction, ReportInduction DEF PipelineInv

\* The strengthening under which the properties of the pipeline are inductive.
THEOREM PipelineInvariant ==
    Spec => [](SocketTypeOK /\ DeliveryInv /\ PipelineTypeOK /\ PipelineInv)
<1>1. Init => PipelineTypeOK /\ PipelineInv
  BY PipelineTypeInit, PipelineInvInit
<1>2. /\ SocketTypeOK /\ DeliveryInv /\ PipelineTypeOK /\ PipelineInv
      /\ [Next]_vars
      => PipelineTypeOK' /\ PipelineInv'
  BY PipelineTypeInduction, PipelineInvInduction
<1> QED
  BY <1>1, <1>2, PipelineSocket, PTL DEF Spec

\* A delivery is in the content queue or processed.
LEMMA DeliveredIsInEither ==
    ASSUME PipelineTypeOK, NEW e
    PROVE  IsDelivered(e) <=> IsIn(e, content) \/ IsIn(e, processed)
<1>0. /\ Len(processed) \in Nat /\ Len(content) \in Nat
      /\ DOMAIN processed = 1 .. Len(processed)
      /\ DOMAIN content = 1 .. Len(content)
  BY DEF PipelineTypeOK
<1>1. ASSUME IsDelivered(e)
      PROVE  IsIn(e, content) \/ IsIn(e, processed)
  <2>1. PICK p \in 1 .. Deliveries : Delivery(p) = e
    BY <1>1 DEF IsDelivered
  <2>2. CASE p <= Len(processed)
    BY <1>0, <2>1, <2>2 DEF Delivery, IsIn, Deliveries
  <2>3. CASE ~(p <= Len(processed))
    <3>1. p - Len(processed) \in DOMAIN content
      BY <1>0, <2>1, <2>3 DEF Deliveries
    <3> QED
      BY <2>1, <2>3, <3>1 DEF Delivery, IsIn
  <2> QED
    BY <2>2, <2>3
<1>2. ASSUME IsIn(e, processed)
      PROVE  IsDelivered(e)
  BY <1>0, <1>2 DEF IsIn, IsDelivered, Delivery, Deliveries
<1>3. ASSUME IsIn(e, content)
      PROVE  IsDelivered(e)
  <2>1. PICK k \in DOMAIN content : content[k] = e
    BY <1>3 DEF IsIn
  <2>2. PICK p : p = Len(processed) + k
    OBVIOUS
  <2>3. /\ p \in 1 .. Deliveries /\ ~(p <= Len(processed))
        /\ p - Len(processed) = k
    BY <1>0, <2>1, <2>2 DEF Deliveries
  <2> QED
    BY <2>1, <2>3 DEF IsDelivered, Delivery
<1> QED
  BY <1>1, <1>2, <1>3

\* A stored envelope with content still has a use for its record, or is delivered.
LEMMA StoredIsNotLost ==
    ASSUME SocketTypeOK, PipelineTypeOK, PipelineInv,
           NEW e, Deliverable(e), IsIn(e, persisted)
    PROVE  HasUsableRecord(e) \/ IsDelivered(e)
<1>1. PICK i \in DOMAIN persisted : persisted[i] = e
  BY DEF IsIn
<1>2. i \in DOMAIN record
  BY <1>1 DEF SocketTypeOK, PipelineTypeOK
<1>3. CASE record[i] = "gone"
  BY <1>1, <1>2, <1>3 DEF PipelineInv, GoneIsDelivered, LeavesNothingBehind
<1>4. CASE record[i] # "gone" /\ HasContent(e)
  BY <1>1, <1>2, <1>4 DEF HasUsableRecord
<1>5. CASE ~HasContent(e)
  <2>1. IsCipher(e) /\ e \in consumed
    BY <1>5 DEF Deliverable, HasContent, IsDuplicate, IsCipher
  <2> QED
    BY <2>1 DEF PipelineInv, UsedKeysAreDelivered
<1> QED
  BY <1>3, <1>4, <1>5

\* Of what there is to deliver, nothing is dropped or only reported.
LEMMA HandledIsStored ==
    ASSUME SocketTypeOK, NEW e, Deliverable(e)
    PROVE  IsHandled(e) <=> IsIn(e, persisted)
BY DEF SocketTypeOK, IsHandled, Deliverable, Dropped, IsIn

\* Whatever the service has forgotten can still be decrypted, or is in the content queue,
\* or has been processed: the app may be killed between any two transactions.
THEOREM AcknowledgedEnvelopesAreProcessed == Spec => []NothingIsLost
<1>1. ASSUME SocketTypeOK, DeliveryInv, PipelineTypeOK, PipelineInv,
             NEW e \in 1 .. arrived, Deliverable(e), e \notin mailbox
      PROVE  HasUsableRecord(e) \/ IsIn(e, content) \/ IsIn(e, processed)
  <2>1. IsIn(e, persisted)
    BY <1>1, HandledIsStored DEF DeliveryInv, NothingLostByAcknowledging
  <2> QED
    BY <1>1, <2>1, StoredIsNotLost, DeliveredIsInEither
<1>2. SocketTypeOK /\ DeliveryInv /\ PipelineTypeOK /\ PipelineInv => NothingIsLost
  BY <1>1 DEF NothingIsLost
<1> QED
  BY <1>2, PipelineInvariant, PTL

\* What was processed is the beginning of what is delivered.
LEMMA ProcessedIsDelivered ==
    ASSUME PipelineTypeOK
    PROVE  /\ DOMAIN processed \subseteq 1 .. Deliveries
           /\ \A i \in DOMAIN processed : \A q \in 1 .. i : Delivery(q) = processed[q]
BY DEF PipelineTypeOK, Deliveries, Delivery

\* A cipher message is processed at most once, however often it is delivered, stored and
\* decrypted.
THEOREM CipherMessagesAreProcessedOnce == Spec => []ProcessedOnce
<1>1. ASSUME PipelineTypeOK, PipelineInv
      PROVE  ProcessedOnce
  <2>1. ASSUME NEW i \in DOMAIN processed, NEW k \in DOMAIN processed,
               Kind[processed[i]] = "cipher", processed[k] = processed[i]
        PROVE  i = k
    <3>1. i \in 1 .. Deliveries /\ k \in 1 .. Deliveries /\ i \in 1 .. i /\ k \in 1 .. k
      BY <1>1, ProcessedIsDelivered DEF PipelineTypeOK
    <3>2. Delivery(i) = processed[i] /\ Delivery(k) = processed[k]
      BY <1>1, <3>1, ProcessedIsDelivered
    <3> QED
      BY <1>1, <2>1, <3>1, <3>2 DEF PipelineInv, DeliveredOnce, IsCipher
  <2> QED
    BY <2>1 DEF ProcessedOnce
<1> QED
  BY <1>1, PipelineInvariant, PTL

\* Envelopes are processed in the order in which the service received them.
THEOREM EnvelopesAreProcessedInOrder == Spec => []ProcessedInOrder
<1>1. ASSUME PipelineTypeOK, PipelineInv
      PROVE  ProcessedInOrder
  <2>1. ASSUME NEW i \in DOMAIN processed, NEW e \in Envelopes,
               e < processed[i], Deliverable(e)
        PROVE  \E k \in 1 .. i : processed[k] = e
    <3>1. i \in 1 .. Deliveries /\ i \in 1 .. i
      BY <1>1, ProcessedIsDelivered DEF PipelineTypeOK
    <3>2. \A q \in 1 .. i : Delivery(q) = processed[q]
      BY <1>1, ProcessedIsDelivered
    <3>3. PICK q \in 1 .. i : Delivery(q) = e
      BY <1>1, <2>1, <3>1, <3>2 DEF PipelineInv, DeliveredInOrder
    <3> QED
      BY <3>2, <3>3
  <2> QED
    BY <2>1 DEF ProcessedInOrder
<1> QED
  BY <1>1, PipelineInvariant, PTL

------------------------------------------------------------------------------
(***************************************************************************)
(* The pipeline implements a reliable inbox                                *)
(***************************************************************************)

\* What is delivered was stored before, and its record, spent or not, is still known.
DeliveredIsStored == \A p \in 1 .. Deliveries : IsIn(Delivery(p), persisted)

\* What the receiver drops has no record.
DroppedIsNotStored == \A i \in DOMAIN persisted : persisted[i] \notin Dropped

\* The invariants the refinement rests on.
InboxInv ==
    /\ SocketTypeOK /\ DeliveryInv
    /\ PipelineTypeOK /\ PipelineInv
    /\ DeliveredIsStored
    /\ DroppedIsNotStored

\* What is stored stays so.
LEMMA PersistedStays ==
    ASSUME SocketTypeOK, PipelineTypeOK, [Next]_vars, NEW e, IsIn(e, persisted)
    PROVE  IsIn(e, persisted)'
<1>1. PICK i \in DOMAIN persisted : persisted[i] = e
  BY DEF IsIn
<1>2. SocketTypeOK' /\ PipelineTypeOK'
  BY PipelineStepsOfSocket, SocketTypeInduction, PipelineTypeInduction
<1>3. i \in 1 .. Len(record) /\ i \in DOMAIN persisted'
  BY <1>1, <1>2, RecordsStay DEF SocketTypeOK, PipelineTypeOK
<1> QED
  BY <1>1, <1>3, RecordsStay DEF IsIn

LEMMA DeliveredIsStoredInduction ==
    ASSUME SocketTypeOK, PipelineTypeOK, DeliveredIsStored, [Next]_vars
    PROVE  DeliveredIsStored'
<1>0. Deliveries \in Nat /\ DeliveriesStay
  BY DeliverySteps DEF Deliveries, PipelineTypeOK
<1>1. ASSUME NEW p \in 1 .. Deliveries
      PROVE  IsIn(Delivery(p), persisted)'
  BY <1>0, <1>1, PersistedStays DEF DeliveredIsStored, DeliveriesStay, IsIn
<1>2. CASE Deliveries' = Deliveries
  BY <1>1, <1>2 DEF DeliveredIsStored
<1>3. ASSUME NEW i \in DOMAIN record, Decrypt(i), HasContent(persisted[i])
      PROVE  DeliveredIsStored'
  <2>1. /\ Deliveries' = Deliveries + 1
        /\ \A d : d = Deliveries + 1 => Delivery(d)' = persisted[i]
    BY <1>3, DecryptDelivers
  <2>2. persisted' = persisted /\ i \in DOMAIN persisted
    BY <1>3, RecordEnvelope DEF Decrypt, socketVars
  <2>3. ASSUME NEW p \in 1 .. Deliveries', p \notin 1 .. Deliveries
        PROVE  IsIn(Delivery(p), persisted)'
    <3>1. p = Deliveries + 1
      BY <1>0, <2>1, <2>3
    <3> QED
      BY <2>1, <2>2, <3>1 DEF IsIn
  <2> QED
    BY <1>1, <2>3 DEF DeliveredIsStored
<1>4. ASSUME NEW i \in DOMAIN record, Decrypt(i), ~HasContent(persisted[i])
      PROVE  Deliveries' = Deliveries
  BY <1>4, DecryptDelivers
<1> QED
  BY <1>2, <1>3, <1>4, DeliverySteps

LEMMA DroppedIsNotStoredInduction ==
    ASSUME SocketTypeOK, PipelineTypeOK, DroppedIsNotStored, [Next]_vars
    PROVE  DroppedIsNotStored'
<1>1. CASE persisted' = persisted
  BY <1>1 DEF DroppedIsNotStored
<1>2. CASE Receive
  <2>1. PICK e : e = Head(serialQueue).envelope
    OBVIOUS
  <2>2. e \in Envelopes /\ persisted \in Seq(Envelopes)
    BY <1>2, <2>1, StoreStores DEF Receive, SocketTypeOK
  <2>3. CASE e \notin Dropped /\ persisted' = Append(persisted, e)
    <3>1. \A i \in DOMAIN persisted' : i \in DOMAIN persisted \/ persisted'[i] = e
      BY <2>2, <2>3
    <3>2. \A i \in DOMAIN persisted : persisted'[i] = persisted[i]
      BY <2>2, <2>3
    <3> QED
      BY <2>3, <3>1, <3>2 DEF DroppedIsNotStored
  <2> QED
    BY <1>1, <1>2, <2>1, <2>3 DEF Receive, StoreMessage, Stored
<1>3. CASE SocketAlone \/ Relaunch
  BY <1>1, <1>3 DEF SocketAlone, Arrive, Connect, Close, ReceiveMessage, Acknowledge,
     Relaunch, SocketRelaunch
<1>4. CASE DecryptQueueStep
  BY <1>1, <1>4 DEF DecryptQueueStep, Setup, FlushDecrypt, StartDecrypt, Decrypt,
     FinishDecrypt, socketVars
<1>5. CASE drainQueue \/ drainQueueWorkStep \/ registrationStateDidChange
  BY <1>1, <1>5 DEF drainQueue, drainQueueWorkStep, ReadBatch, DrainIsDone, ProcessBatch,
     registrationStateDidChange, socketVars
<1> QED
  BY <1>1, <1>2, <1>3, <1>4, <1>5 DEF Next, vars, socketVars

\* An envelope is held from the moment it is stored: nothing on its way loses it.
LEMMA HeldIsStored ==
    ASSUME InboxInv
    PROVE  heldView = {e \in Envelopes : Deliverable(e) /\ IsIn(e, persisted)}
<1>1. ASSUME NEW e \in Envelopes, Deliverable(e)
      PROVE  HasUsableRecord(e) \/ IsIn(e, content) \/ IsIn(e, processed) <=> IsIn(e, persisted)
  <2>1. HasUsableRecord(e) => IsIn(e, persisted)
    BY DEF HasUsableRecord, IsIn, InboxInv, SocketTypeOK, PipelineTypeOK
  <2>2. IsDelivered(e) => IsIn(e, persisted)
    BY DEF IsDelivered, InboxInv, DeliveredIsStored
  <2> QED
    BY <1>1, <2>1, <2>2, StoredIsNotLost, DeliveredIsInEither DEF InboxInv
<1> QED
  BY <1>1 DEF heldView

LEMMA HeldIsStoredNext ==
    (InboxInv => heldView = {e \in Envelopes : Deliverable(e) /\ IsIn(e, persisted)})'
<1>1. InboxInv => heldView = {e \in Envelopes : Deliverable(e) /\ IsIn(e, persisted)}
  BY HeldIsStored
<1> QED
  BY <1>1, PTL

\* What is held is so only by what is stored.
LEMMA HeldStays ==
    ASSUME InboxInv, InboxInv', UNCHANGED persisted
    PROVE  heldView' = heldView
BY HeldIsStored, HeldIsStoredNext DEF IsIn, Deliverable

\* The log is the sequence of deliveries.
LEMMA LogOfDeliveries ==
    ASSUME PipelineTypeOK
    PROVE  /\ logView \in Seq(Envelopes) /\ Len(logView) = Deliveries
           /\ \A p \in 1 .. Deliveries : logView[p] = Delivery(p)
<1>1. content \in Seq(Envelopes) /\ processed \in Seq(Envelopes)
  BY DEF PipelineTypeOK
<1> QED
  BY <1>1, ConcatProperties DEF logView, Deliveries, Delivery

LEMMA LogOfDeliveriesNext ==
    (PipelineTypeOK =>
        /\ logView \in Seq(Envelopes) /\ Len(logView) = Deliveries
        /\ \A p \in 1 .. Deliveries : logView[p] = Delivery(p))'
<1>1. PipelineTypeOK =>
        /\ logView \in Seq(Envelopes) /\ Len(logView) = Deliveries
        /\ \A p \in 1 .. Deliveries : logView[p] = Delivery(p)
  BY LogOfDeliveries
<1> QED
  BY <1>1, PTL

LEMMA InLogIsDelivered ==
    ASSUME PipelineTypeOK, NEW e
    PROVE  Inbox!InLog(e) <=> IsDelivered(e)
BY LogOfDeliveries DEF Inbox!InLog, IsDelivered

LEMMA LogStays ==
    ASSUME PipelineTypeOK, PipelineTypeOK', DeliveriesStay, Deliveries' = Deliveries
    PROVE  logView' = logView
<1>1. /\ logView \in Seq(Envelopes) /\ Len(logView) = Deliveries
      /\ \A p \in 1 .. Deliveries : logView[p] = Delivery(p)
  BY LogOfDeliveries
<1>2. /\ logView' \in Seq(Envelopes) /\ Len(logView') = Deliveries'
      /\ \A p \in 1 .. Deliveries' : logView'[p] = Delivery(p)'
  BY LogOfDeliveriesNext
<1> QED
  BY <1>1, <1>2, SeqEqual DEF DeliveriesStay

\* The step of the inbox that each step of the pipeline is.
LEMMA ArrivingRefines ==
    ASSUME Arrive, UNCHANGED pipelineVars, InboxInv, InboxInv'
    PROVE  Inbox!Arrive
<1>1. UNCHANGED <<persisted, content, processed>>
  BY DEF Arrive, pipelineVars
<1>2. heldView' = heldView
  BY <1>1, HeldStays
<1> QED
  BY <1>1, <1>2 DEF Arrive, Inbox!Arrive, logView

LEMMA AcknowledgingRefines ==
    ASSUME Acknowledge, UNCHANGED pipelineVars, InboxInv, InboxInv'
    PROVE  \/ \E e \in Envelopes : Inbox!Forget(e)
           \/ UNCHANGED <<arrived, mailbox, heldView, logView, Len(processed)>>
<1>0. UNCHANGED <<arrived, persisted, content, processed>>
  BY DEF Acknowledge, pipelineVars
<1>1. heldView' = heldView /\ logView' = logView
  BY <1>0, HeldStays DEF logView
<1>2. PICK e : e = Head(mainQueue).envelope
  OBVIOUS
<1>3. CASE mailbox' = mailbox \ {e} /\ e \in mailbox
  <2>1. 1 \in 1 .. Len(mainQueue) /\ mainQueue[1] = Head(mainQueue)
    BY DEF Acknowledge, InboxInv, SocketTypeOK
  <2>2. IsHandled(e)
    BY <1>2, <2>1 DEF Acknowledge, InboxInv, DeliveryInv, AcknowledgedIsStored
  <2>3. e \in Envelopes
    BY <1>3 DEF InboxInv, SocketTypeOK
  <2>4. Deliverable(e) => e \in heldView
    BY <2>2, <2>3, HeldIsStored, HandledIsStored DEF InboxInv
  <2> QED
    BY <1>0, <1>1, <1>3, <2>3, <2>4 DEF Inbox!Forget
<1>4. CASE mailbox' = mailbox
  BY <1>0, <1>1, <1>4
<1> QED
  BY <1>2, <1>3, <1>4 DEF Acknowledge

LEMMA StoringRefines ==
    ASSUME Receive, InboxInv, InboxInv'
    PROVE  \/ \E e \in Envelopes : Inbox!Hold(e)
           \/ UNCHANGED <<arrived, mailbox, heldView, logView, Len(processed)>>
<1>0. UNCHANGED <<arrived, mailbox, content, processed>>
  BY DEF Receive, StoreMessage, service
<1>1. PICK e : e = Head(serialQueue).envelope
  OBVIOUS
<1>2. e \in Envelopes /\ IsMessage(1, e) /\ persisted \in Seq(Envelopes)
  BY <1>1, StoreStores DEF Receive, InboxInv, SocketTypeOK
<1>3. CASE persisted' = persisted
  BY <1>0, <1>3, HeldStays DEF logView
<1>4. CASE persisted' = Append(persisted, e)
  <2>1. \A f : IsIn(f, persisted)' <=> IsIn(f, persisted) \/ f = e
    <3>1. /\ DOMAIN persisted' = 1 .. Len(persisted) + 1 /\ DOMAIN persisted = 1 .. Len(persisted)
          /\ persisted'[Len(persisted) + 1] = e /\ Len(persisted) \in Nat
          /\ \A i \in 1 .. Len(persisted) : persisted'[i] = persisted[i]
      BY <1>2, <1>4
    <3> QED
      BY <3>1 DEF IsIn
  <2>2. heldView' = heldView \cup (IF Deliverable(e) THEN {e} ELSE {})
    <3>1. heldView' = {f \in Envelopes : Deliverable(f) /\ IsIn(f, persisted)'}
      BY HeldIsStoredNext DEF Deliverable
    <3> QED
      BY <1>2, <2>1, <3>1, HeldIsStored
  <2>3. CASE ~Deliverable(e) \/ e \in heldView
    BY <1>0, <2>2, <2>3 DEF logView
  <2>4. CASE Deliverable(e) /\ e \notin heldView
    <3>1. ~IsHandled(e)
      BY <1>2, <2>4, HeldIsStored, HandledIsStored DEF InboxInv
    <3>2. /\ e <= arrived
          /\ \A f \in Envelopes : f < e => IsStoredBefore(f, 1)
      <4>1. 1 \in 1 .. Len(serialQueue)
        BY DEF Receive, StoreMessage, InboxInv, SocketTypeOK
      <4> QED
        BY <1>2, <4>1 DEF InboxInv, DeliveryInv, QueueIsInOrder
    <3>3. e \in mailbox
      BY <1>2, <3>1, <3>2 DEF InboxInv, DeliveryInv, NothingLostByAcknowledging, SocketTypeOK,
         Envelopes
    <3>4. ASSUME NEW f \in Envelopes, Deliverable(f), f < e
          PROVE  f \in heldView
      <4>1. IsHandled(f)
        BY <3>2, <3>4 DEF IsStoredBefore
      <4> QED
        BY <3>4, <4>1, HeldIsStored, HandledIsStored DEF InboxInv
    <3>5. Inbox!Hold(e)
      BY <1>0, <1>2, <2>2, <2>4, <3>3, <3>4 DEF Inbox!Hold, logView
    <3> QED
      BY <1>2, <3>5
  <2> QED
    BY <2>3, <2>4
<1> QED
  BY <1>1, <1>3, <1>4 DEF Receive, StoreMessage, Stored

LEMMA DecryptingRefines ==
    ASSUME NEW i \in DOMAIN record, Decrypt(i), InboxInv, InboxInv'
    PROVE  \/ \E e \in Envelopes : Inbox!Deliver(e)
           \/ UNCHANGED <<arrived, mailbox, heldView, logView, Len(processed)>>
<1>0. UNCHANGED <<arrived, mailbox, persisted, processed>>
  BY DEF Decrypt, socketVars, service
<1>1. heldView' = heldView
  BY <1>0, HeldStays
<1>2. CASE ~HasContent(persisted[i])
  BY <1>0, <1>1, <1>2 DEF Decrypt, DecryptTransaction, logView
<1>3. CASE HasContent(persisted[i])
  <2>1. PICK e : e = persisted[i]
    OBVIOUS
  <2>2. e \in Envelopes /\ i \in DOMAIN persisted
    BY <2>1, RecordEnvelope DEF InboxInv
  <2>3. Deliveries \in Nat /\ Deliveries' = Deliveries + 1
    BY <1>3, DecryptDelivers DEF InboxInv, Deliveries, PipelineTypeOK
  <2>4. PICK d : d = Deliveries + 1
    OBVIOUS
  <2>5. /\ Delivery(d)' = e /\ d \in 1 .. Deliveries'
        /\ \A p \in 1 .. Deliveries : p \in 1 .. Deliveries' /\ Delivery(p)' = Delivery(p) /\ p # d
    BY <1>3, <2>1, <2>3, <2>4, DecryptDelivers DEF InboxInv, DeliveriesStay
  <2>6. logView' = Append(logView, e)
    <3>1. content' = Append(content, e)
      BY <1>3, <2>1 DEF Decrypt, DecryptTransaction
    <3>2. content \in Seq(Envelopes) /\ processed \in Seq(Envelopes)
      BY DEF InboxInv, PipelineTypeOK
    <3> QED
      BY <1>0, <2>2, <3>1, <3>2 DEF logView
  <2>7. e \in heldView
    <3>1. Kind[e] \in {"cipher", "plain"} /\ IsIn(e, persisted) /\ e \notin Dropped
      BY <1>3, <2>1, <2>2 DEF HasContent, IsIn, InboxInv, DroppedIsNotStored
    <3> QED
      BY <2>2, <3>1, HeldIsStored DEF Deliverable
  <2>8. ASSUME Kind[e] = "cipher"
        PROVE  ~Inbox!InLog(e)
    <3>1. ASSUME NEW p \in 1 .. Deliveries, Delivery(p) = e
          PROVE  FALSE
      BY <2>5, <2>8, <3>1 DEF InboxInv, PipelineInv, DeliveredOnce, IsCipher
    <3> QED
      BY <3>1, InLogIsDelivered DEF InboxInv, IsDelivered
  <2>9. ASSUME NEW f \in Envelopes, Deliverable(f), f < e
        PROVE  Inbox!InLog(f)
    <3>1. PICK q \in 1 .. d : Delivery(q)' = f
      BY <2>5, <2>9 DEF InboxInv, PipelineInv, DeliveredInOrder, Deliverable
    <3>2. q # d
      BY <2>2, <2>5, <2>9, <3>1 DEF Envelopes
    <3>3. q \in 1 .. Deliveries /\ Delivery(q) = f
      BY <2>3, <2>4, <2>5, <3>1, <3>2
    <3> QED
      BY <3>3, InLogIsDelivered DEF InboxInv, IsDelivered
  <2> QED
    BY <1>0, <1>1, <2>2, <2>6, <2>7, <2>8, <2>9 DEF Inbox!Deliver
<1> QED
  BY <1>2, <1>3

LEMMA ProcessingRefines ==
    ASSUME ProcessBatch, InboxInv, InboxInv'
    PROVE  \E n \in 1 .. Len(logView) : Inbox!Process(n)
<1>0. UNCHANGED <<arrived, mailbox, persisted>>
  BY DEF ProcessBatch, socketVars, service
<1>1. PICK n \in 1 .. Len(content) : Len(processed') = Len(processed) + n
  BY BatchMoves DEF InboxInv
<1>2. heldView' = heldView /\ logView' = logView
  BY <1>0, HeldStays, LogStays, DrainingKeepsDeliveries DEF InboxInv
<1>3. /\ Len(logView) = Len(processed) + Len(content)
      /\ Len(processed) \in Nat /\ Len(content) \in Nat
  BY LogOfDeliveries DEF InboxInv, PipelineTypeOK, Deliveries
<1>4. n \in 1 .. Len(logView) /\ Inbox!Process(n)
  BY <1>0, <1>1, <1>2, <1>3 DEF Inbox!Process
<1> QED
  BY <1>4

\* The other steps are not seen from outside.
LEMMA InboxStutters ==
    ASSUME InboxInv, InboxInv',
           UNCHANGED <<arrived, mailbox, persisted, content, processed>>
    PROVE  UNCHANGED <<arrived, mailbox, heldView, logView, Len(processed)>>
BY HeldStays DEF logView

LEMMA InboxSteps ==
    ASSUME InboxInv, InboxInv', [Next]_vars
    PROVE  [Inbox!Next]_(Inbox!vars)
<1> SUFFICES Inbox!Next \/ UNCHANGED <<arrived, mailbox, heldView, logView, Len(processed)>>
  BY DEF Inbox!vars
<1>1. ASSUME NEW e \in Envelopes, Inbox!Hold(e) \/ Inbox!Forget(e) \/ Inbox!Deliver(e)
      PROVE  Inbox!Next
  BY <1>1 DEF Inbox!Next, Envelopes
<1>2. CASE SocketAlone
  <2>1. CASE Arrive
    BY <1>2, <2>1, ArrivingRefines DEF SocketAlone, Inbox!Next
  <2>2. CASE Acknowledge
    BY <1>1, <1>2, <2>2, AcknowledgingRefines DEF SocketAlone
  <2>3. CASE Connect \/ Close \/ ReceiveMessage
    BY <1>2, <2>3, InboxStutters
       DEF SocketAlone, Connect, Close, ReceiveMessage, service, pipelineVars
  <2> QED
    BY <1>2, <2>1, <2>2, <2>3 DEF SocketAlone
<1>3. CASE Receive
  BY <1>1, <1>3, StoringRefines
<1>4. CASE Relaunch
  BY <1>4, InboxStutters DEF Relaunch, SocketRelaunch, service
<1>5. CASE DecryptQueueStep
  <2>1. ASSUME NEW i \in DOMAIN record, Decrypt(i)
        PROVE  Inbox!Next \/ UNCHANGED <<arrived, mailbox, heldView, logView, Len(processed)>>
    BY <1>1, <2>1, DecryptingRefines
  <2>2. ASSUME \/ Setup \/ FlushDecrypt
               \/ \E i \in DOMAIN record : StartDecrypt(i) \/ FinishDecrypt(i)
        PROVE  UNCHANGED <<arrived, mailbox, persisted, content, processed>>
    BY <2>2 DEF Setup, FlushDecrypt, StartDecrypt, FinishDecrypt, socketVars, service
  <2> QED
    BY <1>5, <2>1, <2>2, InboxStutters DEF DecryptQueueStep
<1>6. CASE ProcessBatch
  BY <1>6, ProcessingRefines DEF Inbox!Next
<1>7. CASE \/ drainQueue \/ ReadBatch \/ DrainIsDone \/ registrationStateDidChange
           \/ UNCHANGED vars
  <2>1. UNCHANGED <<arrived, mailbox, persisted, content, processed>>
    BY <1>7 DEF drainQueue, ReadBatch, DrainIsDone, registrationStateDidChange, vars,
       socketVars, service, pipelineVars
  <2> QED
    BY <2>1, InboxStutters
<1> QED
  BY <1>2, <1>3, <1>4, <1>5, <1>6, <1>7 DEF Next, drainQueueWorkStep

LEMMA InboxInit ==
    ASSUME Init
    PROVE  InboxInv /\ Inbox!Init
<1>1. SocketTypeOK /\ DeliveryInv /\ PipelineTypeOK /\ PipelineInv
  BY SocketTypeInit, DeliveryInit, PipelineTypeInit, PipelineInvInit DEF Init
<1>2. /\ arrived = 0 /\ mailbox = {} /\ persisted = <<>>
      /\ content = <<>> /\ processed = <<>>
  BY DEF Init, SocketInit
<1>3. InboxInv
  BY <1>1, <1>2 DEF InboxInv, DeliveredIsStored, DroppedIsNotStored, Deliveries
<1>4. heldView = {}
  BY <1>2, <1>3, HeldIsStored DEF IsIn
<1>5. logView = <<>> /\ Len(processed) = 0
  <2>1. logView \in Seq(Envelopes) /\ Len(logView) = 0
    BY <1>1, <1>2, LogOfDeliveries DEF Deliveries
  <2> QED
    BY <1>2, <2>1
<1> QED
  BY <1>2, <1>3, <1>4, <1>5 DEF Inbox!Init

LEMMA InboxInvInduction ==
    ASSUME InboxInv, [Next]_vars
    PROVE  InboxInv'
BY PipelineStepsOfSocket, SocketTypeInduction, DeliveryInduction, PipelineTypeInduction,
   PipelineInvInduction, DeliveredIsStoredInduction, DroppedIsNotStoredInduction DEF InboxInv

\* From the service and from the code that processes messages, the whole path is seen as
\* one log: connections, redelivery, records, used keys, batches and deaths of the process
\* are steps of the inbox or none.
THEOREM PipelineImplementsReliableInbox == Spec => ImplementsReliableInbox
<1>1. Init => InboxInv /\ Inbox!Init
  BY InboxInit
<1>2. InboxInv /\ [Next]_vars => InboxInv'
  BY InboxInvInduction
<1>3. InboxInv /\ InboxInv' /\ [Next]_vars => [Inbox!Next]_(Inbox!vars)
  BY InboxSteps
<1> QED
  BY <1>1, <1>2, <1>3, PTL DEF Spec, ImplementsReliableInbox, Inbox!Spec

------------------------------------------------------------------------------
(***************************************************************************)
(* A content job is always found                                           *)
(***************************************************************************)

\* A drain that is about to end without a job has been told of the jobs it missed.
EndingDrainIsRepeated ==
    drainStep = "read" /\ batchJobs = 0 /\ content # <<>> => drainCalls

DrainInv == NoLostDrain /\ EndingDrainIsRepeated

LEMMA DrainInduction ==
    ASSUME SocketTypeOK, PipelineTypeOK, DrainInv, [Next]_vars
    PROVE  DrainInv'
<1>1. CASE UNCHANGED <<content, drainCalls, drainStep, batchJobs>>
  BY <1>1 DEF DrainInv, NoLostDrain, EndingDrainIsRepeated, isDrainingQueue
<1>2. CASE Relaunch
  <2>1. drainCalls'
    BY <1>2, Zenon DEF Relaunch
  <2> QED
    BY <2>1 DEF DrainInv, NoLostDrain, EndingDrainIsRepeated
<1>3. ASSUME NEW i \in DOMAIN record, Decrypt(i)
      PROVE  DrainInv'
  <2>1. CASE HasContent(persisted[i])
    <3>1. drainCalls'
      BY <1>3, <2>1, Zenon DEF Decrypt, DecryptTransaction
    <3> QED
      BY <3>1 DEF DrainInv, NoLostDrain, EndingDrainIsRepeated
  <2>2. CASE ~HasContent(persisted[i])
    <3>1. UNCHANGED <<content, drainCalls, drainStep, batchJobs>>
      BY <1>3, <2>2 DEF Decrypt, DecryptTransaction
    <3> QED
      BY <3>1, <1>1
  <2> QED
    BY <2>1, <2>2
<1>4. CASE drainQueue
  <2>1. drainStep' = "pending"
    BY <1>4 DEF drainQueue, SerialQueueIsFree, isDrainingQueue, PipelineTypeOK
  <2> QED
    BY <2>1 DEF DrainInv, NoLostDrain, EndingDrainIsRepeated, isDrainingQueue
<1>5. CASE ReadBatch
  <2>1. /\ drainStep' = "read"
        /\ UNCHANGED content
    BY <1>5 DEF ReadBatch
  <2>2. PICK size \in {1, BatchSize} : batchJobs' = Max(NextJobs(size))
    BY <1>5 DEF ReadBatch
  <2>3. size \in Nat /\ size > 0
    BY BatchSizeAssumption
  <2>4. batchJobs' = 0 => Len(content) = 0
    BY <2>2, <2>3, BatchOf
  <2>5. batchJobs' = 0 => content = <<>>
    BY <2>4 DEF PipelineTypeOK
  <2> QED
    BY <2>1, <2>5 DEF DrainInv, NoLostDrain, EndingDrainIsRepeated, isDrainingQueue
<1>6. CASE DrainIsDone
  <2>1. /\ drainStep = "read" /\ batchJobs = 0 /\ drainStep' = "none"
        /\ UNCHANGED <<content, drainCalls>>
    BY <1>6 DEF DrainIsDone
  <2> QED
    BY <2>1 DEF DrainInv, NoLostDrain, EndingDrainIsRepeated
<1>7. CASE ProcessBatch
  <2>1. drainStep' = "pending"
    BY <1>7 DEF ProcessBatch
  <2> QED
    BY <2>1 DEF DrainInv, NoLostDrain, EndingDrainIsRepeated, isDrainingQueue
<1>8. CASE registrationStateDidChange
  <2>1. drainCalls'
    BY <1>8, Zenon DEF registrationStateDidChange
  <2> QED
    BY <2>1 DEF DrainInv, NoLostDrain, EndingDrainIsRepeated
<1> QED
  BY <1>1, <1>2, <1>3, <1>4, <1>5, <1>6, <1>7, <1>8 DEF Next, vars, SocketAlone, Receive,
     DecryptQueueStep, Setup, StartDecrypt, FinishDecrypt, FlushDecrypt, drainQueueWorkStep,
     pipelineVars, drainVars

\* A content job never waits without a drain that will find it: a call of drainQueue that
\* comes while a drain ends is not lost.
THEOREM ContentJobsAreDrained == Spec => []NoLostDrain
<1>1. Init => DrainInv
  BY DEF Init, DrainInv, NoLostDrain, EndingDrainIsRepeated
<1>2. SocketTypeOK /\ PipelineTypeOK /\ DrainInv /\ [Next]_vars => DrainInv'
  BY DrainInduction
<1> QED
  BY <1>1, <1>2, PipelineInvariant, PTL DEF Spec, DrainInv

------------------------------------------------------------------------------
(***************************************************************************)
(* MessageProcessing                                                       *)
(***************************************************************************)


\* The steps that ReceivePipeline leaves out.
QueueEmptyStep ==
    /\ ReceiveQueueEmpty \/ FinishFlush \/ MarkEmptied
    /\ UNCHANGED pipelineVars

\* To the pipeline, a step is one of its own, or none, or has to do with queue/empty.
LEMMA PromiseStepsOfPipeline ==
    ASSUME [PromiseNext]_allVars
    PROVE  [Next]_vars \/ QueueEmptyStep
<1>1. CASE UNCHANGED vars
  BY <1>1
<1>2. CASE SocketOpensOrCloses \/ SocketReceives \/ SocketSerialQueue \/ MainQueue
  BY <1>2 DEF SocketOpensOrCloses, SocketReceives, SocketSerialQueue, MainQueue,
     InitialQueueIsEmptied, webSocketStateDidChange, QueueEmptyStep, Next, SocketAlone
<1>3. CASE Setup \/ DecryptWorkStep \/ DecryptOperation \/ drainQueue \/ ContentWorkStep
  BY <1>3 DEF DecryptWorkStep, DecryptionFlushed, DecryptOperation, ContentWorkStep,
     ProcessingFlushed, Next, DecryptQueueStep, drainQueueWorkStep
<1>4. CASE RelaunchWithoutPromise \/ (Arrive /\ UNCHANGED pipelineVars)
  BY <1>4 DEF RelaunchWithoutPromise, Next, SocketAlone
<1>5. FetchStep \/ PromiseStep \/ RunFetchCycle => UNCHANGED vars
  BY DEF FetchStep, FetchMessages, CompleteFetchCycle, RunFetchCycle, PromiseStep,
     tryToResolveDecryptStepPromises, tryToResolveProcessingStepPromises,
     tryToResolveAllMessageFetchingAndProcessingPromises, Try, ReadPendingJobs
<1>6. /\ flushMessageDecryptionAndProcessingPromise => UNCHANGED vars
      /\ allMessageFetchingAndProcessingPromise => UNCHANGED vars
  BY DEF flushMessageDecryptionAndProcessingPromise, allMessageFetchingAndProcessingPromise,
     Create
<1> QED
  BY <1>1, <1>2, <1>3, <1>4, <1>5, <1>6 DEF PromiseNext, SystemStep, allVars

\* Of what the pipeline is about, queue/empty changes nothing.
LEMMA QueueEmptyLeavesPipeline ==
    ASSUME QueueEmptyStep
    PROVE  UNCHANGED <<persisted, arrived, mailbox, pipelineVars>>
BY DEF QueueEmptyStep, ReceiveQueueEmpty, FlushSerialQueue, FinishFlush, MarkEmptied, service

LEMMA QueueEmptyKeepsInvariants ==
    ASSUME PipelineTypeOK, PipelineInv, QueueEmptyStep
    PROVE  PipelineTypeOK' /\ PipelineInv'
<1>1. UNCHANGED <<persisted, record, consumed, isSetup, report, content, processed,
                  drainStep, batchJobs>>
  BY QueueEmptyLeavesPipeline DEF pipelineVars, decryptVars, drainVars
<1>2. PipelineTypeOK'
  BY <1>1 DEF PipelineTypeOK
<1>3. RecordsInOrder'
  BY <1>1 DEF PipelineInv, RecordsInOrder, GoneInOrder, StartedInOrder
<1>4. UNCHANGED Deliveries /\ \A p : Delivery(p)' = Delivery(p)
  BY <1>1 DEF Deliveries, Delivery
<1>5. \A e : IsDelivered(e)' <=> IsDelivered(e)
  BY <1>4 DEF IsDelivered
<1>6. UsedKeysAreDelivered' /\ GoneIsDelivered'
  BY <1>1, <1>5 DEF PipelineInv, UsedKeysAreDelivered, GoneIsDelivered, LeavesNothingBehind
<1>7. DeliveriesUsedTheirKey' /\ DeliveredOnce' /\ DeliveredInOrder'
  BY <1>1, <1>4 DEF PipelineInv, DeliveriesUsedTheirKey, DeliveredOnce, DeliveredInOrder
<1>8. ReportedIsDelivered'
  BY <1>1, <1>5 DEF PipelineInv, ReportedIsDelivered, LeavesNothingBehind, IsExecuting
<1> QED
  BY <1>2, <1>3, <1>6, <1>7, <1>8 DEF PipelineInv

LEMMA QueueEmptyIsOfSocket ==
    ASSUME QueueEmptyStep
    PROVE  SocketNext
BY DEF QueueEmptyStep, SocketNext, ServiceSends, SerialQueueStep, MainQueueStep

\* What is proved of the pipeline alone holds of it here, queue/empty included.
THEOREM PromisePipeline ==
    PromiseSpec => [](SocketTypeOK /\ DeliveryInv /\ PipelineTypeOK /\ PipelineInv)
<1>1. PromiseInit => SocketTypeOK /\ DeliveryInv /\ PipelineTypeOK /\ PipelineInv
  BY SocketTypeInit, DeliveryInit, PipelineTypeInit, PipelineInvInit DEF PromiseInit, Init
<1>2. ASSUME SocketTypeOK, DeliveryInv, PipelineTypeOK, PipelineInv, [PromiseNext]_allVars
      PROVE  SocketTypeOK' /\ DeliveryInv' /\ PipelineTypeOK' /\ PipelineInv'
  <2>1. CASE [Next]_vars
    BY <1>2, <2>1, PipelineStepsOfSocket, SocketTypeInduction, DeliveryInduction,
       PipelineTypeInduction, PipelineInvInduction
  <2>2. CASE QueueEmptyStep
    BY <1>2, <2>2, QueueEmptyIsOfSocket, SocketTypeInduction, DeliveryInduction,
       QueueEmptyKeepsInvariants
  <2> QED
    BY <1>2, <2>1, <2>2, PromiseStepsOfPipeline
<1> QED
  BY <1>1, <1>2, PTL DEF PromiseSpec

\* The promises and queue/empty leave the inbox what it is.
THEOREM PromisesKeepTheInbox == PromiseSpec => ImplementsReliableInbox
<1>1. PromiseInit => InboxInv /\ Inbox!Init
  BY InboxInit DEF PromiseInit
<1>2. ASSUME InboxInv, [PromiseNext]_allVars
      PROVE  InboxInv' /\ [Inbox!Next]_(Inbox!vars)
  <2>1. CASE [Next]_vars
    BY <1>2, <2>1, InboxInvInduction, InboxSteps
  <2>2. CASE QueueEmptyStep
    <3>1. UNCHANGED <<arrived, mailbox, persisted, content, processed>>
      BY <2>2, QueueEmptyLeavesPipeline DEF pipelineVars
    <3>2. SocketTypeOK' /\ DeliveryInv' /\ PipelineTypeOK' /\ PipelineInv'
      BY <1>2, <2>2, QueueEmptyIsOfSocket, SocketTypeInduction, DeliveryInduction,
         QueueEmptyKeepsInvariants DEF InboxInv
    <3>3. DeliveredIsStored' /\ DroppedIsNotStored'
      BY <1>2, <3>1
         DEF InboxInv, DeliveredIsStored, DroppedIsNotStored, Deliveries, Delivery, IsIn
    <3>4. InboxInv'
      BY <3>2, <3>3 DEF InboxInv
    <3> QED
      BY <1>2, <3>1, <3>4, InboxStutters DEF Inbox!vars
  <2> QED
    BY <1>2, <2>1, <2>2, PromiseStepsOfPipeline
<1> QED
  BY <1>1, <1>2, PTL DEF PromiseSpec, ImplementsReliableInbox, Inbox!Spec

------------------------------------------------------------------------------

\* What was decrypted at the creation of the promise is in the content queue or
\* processed; when the promise resolves, it is processed.
PromiseInv ==
    /\ \A e \in decrypted : IsDelivered(e)
    /\ DecryptedMeansProcessed

\* What was processed stays so.
LEMMA ProcessedStaysProcessed ==
    ASSUME PipelineTypeOK, [Next]_vars, NEW e, IsIn(e, processed)
    PROVE  IsIn(e, processed)'
<1>1. CASE UNCHANGED processed
  BY <1>1 DEF IsIn
<1>2. CASE ProcessBatch
  <2>1. PICK i \in DOMAIN processed : processed[i] = e
    BY DEF IsIn
  <2>2. /\ i \in 1 .. Len(processed) /\ Len(processed) \in Nat
        /\ processed' \in Seq(Envelopes)
    BY <1>2, BatchMoves DEF PipelineTypeOK
  <2>3. processed'[i] = e /\ Len(processed') >= Len(processed)
    BY <1>2, <2>1, <2>2, BatchMoves DEF PipelineTypeOK
  <2>4. i \in DOMAIN processed'
    BY <2>2, <2>3
  <2> QED
    BY <2>3, <2>4 DEF IsIn
<1> QED
  BY <1>1, <1>2 DEF Next, vars, SocketAlone, Relaunch, Receive, DecryptQueueStep, Setup,
     StartDecrypt, Decrypt, FinishDecrypt, FlushDecrypt, drainQueue, drainQueueWorkStep,
     ReadBatch, DrainIsDone, registrationStateDidChange, pipelineVars

\* What is in the content queue is delivered.
LEMMA ContentIsDelivered ==
    ASSUME PipelineTypeOK, NEW i \in DOMAIN content
    PROVE  IsDelivered(content[i])
<1>1. /\ Len(processed) \in Nat /\ Len(content) \in Nat
      /\ i \in 1 .. Len(content)
  BY DEF PipelineTypeOK
<1>2. PICK p : p = Len(processed) + i
  OBVIOUS
<1>3. p \in 1 .. Deliveries /\ Delivery(p) = content[i]
  BY <1>1, <1>2 DEF Deliveries, Delivery
<1> QED
  BY <1>3 DEF IsDelivered

\* With nothing in the content queue, what is delivered is processed.
LEMMA DeliveredIsProcessed ==
    ASSUME PipelineTypeOK, content = <<>>, NEW e, IsDelivered(e)
    PROVE  IsIn(e, processed)
<1>1. PICK p \in 1 .. Deliveries : Delivery(p) = e
  BY DEF IsDelivered
<1>2. Len(processed) \in Nat /\ DOMAIN processed = 1 .. Len(processed) /\ Len(content) = 0
  BY DEF PipelineTypeOK
<1>3. p \in DOMAIN processed /\ processed[p] = e
  BY <1>1, <1>2 DEF Deliveries, Delivery
<1> QED
  BY <1>3 DEF IsIn

\* What a step other than the last of a promise does with it.
LEMMA PromiseIsKept ==
    ASSUME [PromiseNext]_allVars
    PROVE  \/ UNCHANGED decrypted /\ (promise' = promise \/ promise' # "resolved")
           \/ Create("decryptStep") \/ Create("everything")
           \/ tryToResolveProcessingStepPromises
           \/ ReadPendingJobs
           \/ RelaunchWithoutPromise
<1>1. UNCHANGED promiseVars => UNCHANGED decrypted /\ promise' = promise
  BY DEF promiseVars
<1>2. /\ SocketReceives \/ SocketSerialQueue \/ DecryptOperation => UNCHANGED promiseVars
      /\ Unheard => UNCHANGED promiseVars
      /\ FetchMessages => UNCHANGED promiseVars
  BY DEF SocketReceives, SocketSerialQueue, DecryptOperation, Unheard, FetchMessages
<1>3. \A steps : Notify(steps) => UNCHANGED decrypted /\ promise' = promise
  BY DEF Notify
<1>4. MainQueue \/ DecryptWorkStep \/ ContentWorkStep \/ SocketOpensOrCloses
        => UNCHANGED decrypted /\ promise' = promise
  BY <1>1, <1>2, <1>3 DEF MainQueue, InitialQueueIsEmptied, SocketOpensOrCloses,
     webSocketStateDidChange, DecryptWorkStep, DecryptionFlushed, ContentWorkStep,
     ProcessingFlushed
<1>5. RunFetchCycle \/ CompleteFetchCycle => UNCHANGED decrypted /\ promise' = promise
  BY <1>3 DEF RunFetchCycle, CompleteFetchCycle
<1>6. /\ tryToResolveDecryptStepPromises
           => UNCHANGED decrypted /\ (promise' = promise \/ promise' # "resolved")
      /\ tryToResolveAllMessageFetchingAndProcessingPromises
           => UNCHANGED decrypted /\ (promise' = promise \/ promise' # "resolved")
  BY DEF tryToResolveDecryptStepPromises, Try,
     tryToResolveAllMessageFetchingAndProcessingPromises
<1> QED
  BY <1>1, <1>2, <1>4, <1>5, <1>6 DEF PromiseNext, SystemStep, FetchStep, PromiseStep,
     flushMessageDecryptionAndProcessingPromise, allMessageFetchingAndProcessingPromise, allVars

LEMMA PromiseInduction ==
    ASSUME PipelineTypeOK, PipelineTypeOK', SocketTypeOK, PromiseInv, [PromiseNext]_allVars
    PROVE  PromiseInv'
<1>0. ASSUME QueueEmptyStep
      PROVE  /\ \A e : IsDelivered(e)' <=> IsDelivered(e)
             /\ \A e : IsIn(e, processed)' <=> IsIn(e, processed)
  <2>1. UNCHANGED <<content, processed>>
    BY <1>0, QueueEmptyLeavesPipeline DEF pipelineVars
  <2> QED
    BY <2>1 DEF IsDelivered, Deliveries, Delivery, IsIn
<1>1. ASSUME NEW e, IsDelivered(e)
      PROVE  IsDelivered(e)'
  BY <1>0, <1>1, PromiseStepsOfPipeline, DeliverySteps, DeliveredStaysDelivered
<1>2. ASSUME NEW e, IsIn(e, processed)
      PROVE  IsIn(e, processed)'
  BY <1>0, <1>2, PromiseStepsOfPipeline, ProcessedStaysProcessed
<1>3. CASE UNCHANGED decrypted /\ (promise' = promise \/ promise' # "resolved")
  BY <1>1, <1>2, <1>3 DEF PromiseInv, DecryptedMeansProcessed
<1>4. CASE Create("decryptStep") \/ Create("everything")
  <2>1. /\ promise' # "resolved"
        /\ decrypted' = {content[i] : i \in DOMAIN content}
    BY <1>4 DEF Create
  <2>2. \A e \in decrypted' : IsDelivered(e)
    BY <2>1, ContentIsDelivered
  <2> QED
    BY <1>1, <2>1, <2>2 DEF PromiseInv, DecryptedMeansProcessed
<1>5. CASE tryToResolveProcessingStepPromises \/ ReadPendingJobs
  <2>1. UNCHANGED <<decrypted, processed>>
    BY <1>5 DEF tryToResolveProcessingStepPromises, Try, ReadPendingJobs, vars, pipelineVars
  <2>2. CASE content = <<>>
    <3>1. \A e \in decrypted : IsIn(e, processed)
      BY <2>2, DeliveredIsProcessed DEF PromiseInv
    <3> QED
      BY <1>1, <1>2, <2>1, <3>1 DEF PromiseInv, DecryptedMeansProcessed
  <2>3. CASE content # <<>>
    <3>1. promise' = promise \/ promise' # "resolved"
      BY <1>5, <2>3 DEF tryToResolveProcessingStepPromises, Try, ReadPendingJobs,
         hasPendingDecryptionOrProcess, isProcessingIncomingMessages
    <3> QED
      BY <1>3, <2>1, <3>1
  <2> QED
    BY <2>2, <2>3
<1>6. CASE RelaunchWithoutPromise
  BY <1>6 DEF RelaunchWithoutPromise, PromiseInv, DecryptedMeansProcessed
<1> QED
  BY <1>3, <1>4, <1>5, <1>6, PromiseIsKept

\* When either promise resolves, whatever had left the decrypt queue at its creation has
\* been processed, in whatever order notifications and blocks come.
THEOREM FlushedMeansDecryptedIsProcessed == PromiseSpec => []DecryptedMeansProcessed
<1>1. PromiseInit => PromiseInv
  BY DEF PromiseInit, PromiseInv, DecryptedMeansProcessed
<1>2. /\ SocketTypeOK /\ PipelineTypeOK /\ PipelineTypeOK' /\ PromiseInv
      /\ [PromiseNext]_allVars
      => PromiseInv'
  BY PromiseInduction
<1>3. PromiseInv => DecryptedMeansProcessed
  BY DEF PromiseInv
<1> QED
  BY <1>1, <1>2, <1>3, PromisePipeline, PTL DEF PromiseSpec

------------------------------------------------------------------------------
(***************************************************************************)
(* A promise that waits is told of what it waits for                       *)
(***************************************************************************)

\* A ready record has a work step coming.
ReadyIsFound == DecryptionWillFlush \/ \A i \in DOMAIN record : ~IsReady(i)

TryInv == DrainInv /\ ReadyIsFound /\ NoLostTry

\* What keeps the promise from being lost where nobody is told of a step.
StillTold ==
    /\ DecryptionWillFlush => DecryptionWillFlush'
    /\ ProcessingWillFlush => ProcessingWillFlush'
    /\ isWebsocketDrained' => isWebsocketDrained
    /\ areAllFetchCyclesComplete' => areAllFetchCyclesComplete

LEMMA UntoldSteps ==
    ASSUME NoLostTry, StillTold, UNCHANGED promiseVars
    PROVE  NoLostTry'
<1>1. UNCHANGED <<promise, tries>>
  BY DEF promiseVars
<1> QED
  BY <1>1, Zenon DEF NoLostTry, StillTold

\* A notification leaves a promise untried that does not wait for it.
LEMMA ToldSteps ==
    ASSUME NEW steps, Notify(steps), NoLostTry,
           "decryptStep" \notin steps => (DecryptionWillFlush => DecryptionWillFlush'),
           "processingStep" \notin steps => (ProcessingWillFlush => ProcessingWillFlush'),
           "everything" \in steps
    PROVE  NoLostTry'
<1> SUFFICES ASSUME ~tries'
             PROVE  /\ promise' = "decryptStep" => DecryptionWillFlush'
                    /\ promise' = "processingStep" => ProcessingWillFlush'
                    /\ promise' # "everything"
  BY Zenon DEF NoLostTry
<1>1. ~tries /\ promise \notin steps
  BY Zenon DEF Notify
<1>2. promise' = promise
  BY DEF Notify
<1> QED
  BY <1>1, <1>2, Zenon DEF NoLostTry

\* The flags of the socket are Booleans.
LEMMA SteadySocket ==
    ASSUME UNCHANGED <<state, hasEmptiedInitialQueue>>
    PROVE  isWebsocketDrained' => isWebsocketDrained
BY Zenon DEF isWebsocketDrained

\* What tells of the content queue stays, unless it tells.
LEMMA ProcessingIsTold ==
    ASSUME PipelineTypeOK, [Next]_vars, ProcessingWillFlush
    PROVE  ProcessingWillFlush' \/ DrainIsDone
<1>1. CASE Relaunch
  BY <1>1, Zenon DEF Relaunch, ProcessingWillFlush
<1>2. CASE registrationStateDidChange
  BY <1>2, Zenon DEF registrationStateDidChange, ProcessingWillFlush
<1>3. CASE drainQueue
  <2>1. drainStep' \in {"pending", drainStep} /\ (drainStep = "none" => drainStep' = "pending")
    BY <1>3 DEF drainQueue, isDrainingQueue
  <2>2. drainStep' # "none"
    BY <2>1
  <2> QED
    BY <2>2 DEF ProcessingWillFlush, isDrainingQueue
<1>4. CASE ReadBatch \/ ProcessBatch
  BY <1>4 DEF ReadBatch, ProcessBatch, ProcessingWillFlush, isDrainingQueue
<1>5. ASSUME NEW i \in DOMAIN record, Decrypt(i)
      PROVE  ProcessingWillFlush'
  <2>1. drainStep' = drainStep
    BY <1>5 DEF Decrypt
  <2>2. drainCalls' \/ drainCalls' = drainCalls
    BY <1>5, Zenon DEF Decrypt, DecryptTransaction
  <2> QED
    BY <2>1, <2>2, Zenon DEF ProcessingWillFlush, isDrainingQueue
<1>6. CASE UNCHANGED <<drainCalls, drainStep>>
  <2>1. drainCalls' = drainCalls /\ drainStep' = drainStep
    BY <1>6
  <2> QED
    BY <2>1, Zenon DEF ProcessingWillFlush, isDrainingQueue
<1> QED
  BY <1>1, <1>2, <1>3, <1>4, <1>5, <1>6 DEF Next, vars, SocketAlone, Receive,
     DecryptQueueStep, Setup, FlushDecrypt, StartDecrypt, FinishDecrypt, drainQueueWorkStep,
     pipelineVars, drainVars

\* A record that becomes ready, or is left so, has a work step coming.
LEMMA ReadyInduction ==
    ASSUME PipelineTypeOK, ReadyIsFound, [Next]_vars
    PROVE  ReadyIsFound'
<1>1. CASE Relaunch
  BY <1>1, Zenon DEF Relaunch, ReadyIsFound, DecryptionWillFlush
<1>2. CASE Setup
  BY <1>2, Zenon DEF Setup, ReadyIsFound, DecryptionWillFlush
<1>3. CASE Receive
  <2>1. CASE Len(persisted') > Len(persisted)
    <3>1. isSetup' = isSetup /\ (workSteps' \/ ~isSetup)
      BY <1>3, <2>1, Zenon DEF Receive
    <3> QED
      BY <3>1, Zenon DEF ReadyIsFound, DecryptionWillFlush
  <2>2. CASE ~(Len(persisted') > Len(persisted))
    <3>1. UNCHANGED <<isSetup, workSteps, record>>
      BY <1>3, <2>2 DEF Receive
    <3>2. isSetup' = isSetup /\ workSteps' = workSteps /\ record' = record
      BY <3>1
    <3> QED
      BY <3>2, Zenon DEF ReadyIsFound, DecryptionWillFlush, IsReady
  <2> QED
    BY <2>1, <2>2
<1>4. CASE FlushDecrypt
  <2>1. record' = record /\ \A i \in DOMAIN record : ~IsReady(i)
    BY <1>4 DEF FlushDecrypt
  <2> QED
    BY <2>1 DEF ReadyIsFound, IsReady
<1>5. ASSUME NEW i \in DOMAIN record, StartDecrypt(i) \/ FinishDecrypt(i)
      PROVE  ReadyIsFound'
  <2>1. isSetup' = isSetup /\ workSteps' = workSteps
    BY <1>5 DEF StartDecrypt, FinishDecrypt
  <2>2. \/ record' = [record EXCEPT ![i] = "running"]
        \/ record' = [record EXCEPT ![i] = "gone"]
    BY <1>5 DEF StartDecrypt, FinishDecrypt
  <2>3. \A k \in DOMAIN record' : k \in DOMAIN record /\ (record'[k] = "ready" => record[k] = "ready")
    BY <2>2
  <2> QED
    BY <2>1, <2>3, Zenon DEF ReadyIsFound, DecryptionWillFlush, IsReady
<1>6. CASE UNCHANGED <<isSetup, workSteps, record>>
  <2>1. isSetup' = isSetup /\ workSteps' = workSteps /\ record' = record
    BY <1>6
  <2> QED
    BY <2>1, Zenon DEF ReadyIsFound, DecryptionWillFlush, IsReady
<1> QED
  BY <1>1, <1>2, <1>3, <1>4, <1>5, <1>6 DEF Next, vars, SocketAlone, DecryptQueueStep, Decrypt,
     drainQueue, drainQueueWorkStep, ReadBatch, DrainIsDone, ProcessBatch,
     registrationStateDidChange, pipelineVars, decryptVars
\* A step of the decrypt queue that does not end it, or of another component.
LEMMA DecryptionIsQuiet ==
    ASSUME UNCHANGED <<isSetup, workSteps>> \/ Setup \/ Receive, DecryptionWillFlush
    PROVE  DecryptionWillFlush'
<1>1. CASE UNCHANGED <<isSetup, workSteps>>
  <2>1. isSetup' = isSetup /\ workSteps' = workSteps
    BY <1>1
  <2> QED
    BY <2>1, Zenon DEF DecryptionWillFlush
<1>2. CASE Setup
  BY <1>2, Zenon DEF Setup, DecryptionWillFlush
<1>3. CASE Receive
  <2>1. CASE Len(persisted') > Len(persisted)
    <3>1. isSetup' = isSetup /\ (workSteps' \/ ~isSetup)
      BY <1>3, <2>1, Zenon DEF Receive
    <3> QED
      BY <3>1, Zenon DEF DecryptionWillFlush
  <2>2. CASE ~(Len(persisted') > Len(persisted))
    <3>1. UNCHANGED <<isSetup, workSteps>>
      BY <1>3, <2>2 DEF Receive
    <3> QED
      BY <1>1, <3>1
  <2> QED
    BY <2>1, <2>2
<1> QED
  BY <1>1, <1>2, <1>3

\* A step of the pipeline that posts no notification.
QuietStep ==
    \/ Setup \/ Receive \/ drainQueue \/ ReadBatch \/ ProcessBatch
    \/ \E i \in DOMAIN record : StartDecrypt(i) \/ Decrypt(i) \/ FinishDecrypt(i)

LEMMA QuietStepsOfPipeline ==
    ASSUME PipelineTypeOK, QuietStep
    PROVE  /\ DecryptionWillFlush => DecryptionWillFlush'
           /\ ProcessingWillFlush => ProcessingWillFlush'
           /\ UNCHANGED <<state, hasEmptiedInitialQueue>>
<1>1. DecryptionWillFlush => DecryptionWillFlush'
  <2>1. UNCHANGED <<isSetup, workSteps>> \/ Setup \/ Receive
    BY DEF QuietStep, drainQueue, ReadBatch, ProcessBatch, StartDecrypt, Decrypt,
       FinishDecrypt, decryptVars
  <2> QED
    BY <2>1, DecryptionIsQuiet
<1>2. ProcessingWillFlush => ProcessingWillFlush'
  <2>1. [Next]_vars
    BY DEF QuietStep, Next, DecryptQueueStep, drainQueueWorkStep
  <2>2. CASE ProcessBatch \/ ReadBatch
    BY <2>2 DEF ProcessBatch, ReadBatch, ProcessingWillFlush, isDrainingQueue
  <2>3. CASE drainQueue
    <3>1. drainStep' # "none"
      BY <2>3 DEF drainQueue, isDrainingQueue, PipelineTypeOK
    <3> QED
      BY <3>1 DEF ProcessingWillFlush, isDrainingQueue
  <2>4. CASE UNCHANGED drainStep
    <3>1. DrainIsDone => FALSE
      BY <2>4 DEF DrainIsDone
    <3> QED
      BY <2>1, <3>1, ProcessingIsTold
  <2> QED
    BY <2>2, <2>3, <2>4 DEF QuietStep, Setup, Receive, StartDecrypt, Decrypt, FinishDecrypt,
       drainVars
<1>3. UNCHANGED <<state, hasEmptiedInitialQueue>>
  BY DEF QuietStep, Setup, Receive, StoreMessage, drainQueue, ReadBatch, ProcessBatch,
     StartDecrypt, Decrypt, FinishDecrypt, socketVars, socket
<1> QED
  BY <1>1, <1>2, <1>3

\* A step that leaves the pipeline as it is leaves what tells of it.
LEMMA PipelineUnchanged ==
    ASSUME UNCHANGED pipelineVars
    PROVE  /\ DecryptionWillFlush => DecryptionWillFlush'
           /\ ProcessingWillFlush => ProcessingWillFlush'
<1>1. UNCHANGED <<isSetup, workSteps>>
  BY DEF pipelineVars, decryptVars
<1>2. drainStep' = drainStep /\ drainCalls' = drainCalls
  BY DEF pipelineVars, drainVars
<1>3. ProcessingWillFlush => ProcessingWillFlush'
  BY <1>2, Zenon DEF ProcessingWillFlush, isDrainingQueue
<1> QED
  BY <1>1, <1>3, DecryptionIsQuiet

\* The main queue tells of no end of the initial queue where there was none.
LEMMA UnexpectedEmptied ==
    ASSUME SocketTypeOK, MarkEmptied, ~willEmptyInitialQueue
    PROVE  UNCHANGED <<state, hasEmptiedInitialQueue>>
<1>1. hasEmptiedInitialQueue' = hasEmptiedInitialQueue
  BY Zenon DEF MarkEmptied, EmptyIfExpected, SocketTypeOK
<1> QED
  BY <1>1 DEF MarkEmptied

LEMMA SameCycles ==
    ASSUME UNCHANGED fetchVars
    PROVE  areAllFetchCyclesComplete' => areAllFetchCyclesComplete
BY DEF fetchVars, areAllFetchCyclesComplete

\* The steps that nobody is told of.
LEMMA UnheardSteps ==
    ASSUME SocketTypeOK, PipelineTypeOK, NoLostTry, Unheard,
           \/ QuietStep
           \/ /\ \/ ReceiveMessage \/ ReceiveQueueEmpty \/ FinishFlush \/ Acknowledge \/ Arrive
                 \/ MarkEmptied /\ ~willEmptyInitialQueue
              /\ UNCHANGED pipelineVars
    PROVE  NoLostTry'
<1>1. UNCHANGED <<state, hasEmptiedInitialQueue>>
  BY QuietStepsOfPipeline, UnexpectedEmptied DEF ReceiveMessage, ReceiveQueueEmpty,
     FinishFlush, Acknowledge, Arrive, socket
<1>2. /\ DecryptionWillFlush => DecryptionWillFlush'
      /\ ProcessingWillFlush => ProcessingWillFlush'
  BY QuietStepsOfPipeline, PipelineUnchanged
<1>3. StillTold
  BY <1>1, <1>2, SteadySocket, SameCycles DEF StillTold, Unheard
<1> QED
  BY <1>3, UntoldSteps DEF Unheard

\* The blocks of the serial queue, which wait on only for what a notification will tell.
LEMMA TriesAreKept ==
    ASSUME PipelineTypeOK, TryInv, PromiseStep
    PROVE  NoLostTry'
<1>1. /\ DecryptionWillFlush' <=> DecryptionWillFlush
      /\ ProcessingWillFlush' <=> ProcessingWillFlush
      /\ isWebsocketDrained' <=> isWebsocketDrained
      /\ areAllFetchCyclesComplete' <=> areAllFetchCyclesComplete
  <2>1. UNCHANGED <<vars, fetchVars>>
    BY DEF PromiseStep, tryToResolveDecryptStepPromises, tryToResolveProcessingStepPromises,
       tryToResolveAllMessageFetchingAndProcessingPromises, Try, ReadPendingJobs
  <2>2. /\ isSetup' = isSetup /\ workSteps' = workSteps
        /\ drainStep' = drainStep /\ drainCalls' = drainCalls
        /\ state' = state /\ hasEmptiedInitialQueue' = hasEmptiedInitialQueue
        /\ activeFetchCycles' = activeFetchCycles
    BY <2>1 DEF vars, socketVars, socket, pipelineVars, decryptVars, drainVars, fetchVars
  <2> QED
    BY <2>2, Zenon DEF DecryptionWillFlush, ProcessingWillFlush, isDrainingQueue,
       isWebsocketDrained, areAllFetchCyclesComplete
<1>2. isDecryptingIncomingMessages => DecryptionWillFlush
  BY Zenon DEF TryInv, ReadyIsFound, isDecryptingIncomingMessages
<1>3. isProcessingIncomingMessages => ProcessingWillFlush
  BY Zenon DEF TryInv, DrainInv, NoLostDrain, isProcessingIncomingMessages, ProcessingWillFlush
<1>4. CASE tryToResolveDecryptStepPromises
  <2>1. CASE isDecryptingIncomingMessages
    <3>1. promise' = "decryptStep" /\ DecryptionWillFlush'
      BY <1>1, <1>2, <1>4, <2>1 DEF tryToResolveDecryptStepPromises, Try
    <3> QED
      BY <3>1 DEF NoLostTry
  <2>2. CASE ~isDecryptingIncomingMessages
    <3>1. tries'
      BY <1>4, <2>2, Zenon DEF tryToResolveDecryptStepPromises
    <3> QED
      BY <3>1, Zenon DEF NoLostTry
  <2> QED
    BY <2>1, <2>2
<1>5. CASE tryToResolveProcessingStepPromises
  <2>1. CASE isProcessingIncomingMessages
    <3>1. promise' = "processingStep" /\ ProcessingWillFlush'
      BY <1>1, <1>3, <1>5, <2>1 DEF tryToResolveProcessingStepPromises, Try
    <3> QED
      BY <3>1 DEF NoLostTry
  <2>2. CASE ~isProcessingIncomingMessages
    <3>1. promise' = "resolved"
      BY <1>5, <2>2 DEF tryToResolveProcessingStepPromises
    <3> QED
      BY <3>1 DEF NoLostTry
  <2> QED
    BY <2>1, <2>2
<1>6. CASE tryToResolveAllMessageFetchingAndProcessingPromises
  <2>1. CASE isWebsocketDrained /\ areAllFetchCyclesComplete
    <3>1. promise' = "fetched"
      BY <1>6, <2>1 DEF tryToResolveAllMessageFetchingAndProcessingPromises
    <3> QED
      BY <3>1 DEF NoLostTry
  <2>2. CASE ~(isWebsocketDrained /\ areAllFetchCyclesComplete)
    <3>1. promise' = "everything"
      BY <1>6, <2>2 DEF tryToResolveAllMessageFetchingAndProcessingPromises, Try
    <3>2. ~isWebsocketDrained' \/ ~areAllFetchCyclesComplete'
      BY <1>1, <2>2, Zenon
    <3> QED
      BY <3>1, <3>2 DEF NoLostTry
  <2> QED
    BY <2>1, <2>2
<1>7. CASE ReadPendingJobs
  <2>1. CASE hasPendingDecryptionOrProcess
    <3>1. promise' = "everything"
      BY <1>7, <2>1 DEF ReadPendingJobs
    <3>2. DecryptionWillFlush' \/ ProcessingWillFlush'
      BY <1>1, <1>2, <1>3, <2>1, Zenon DEF hasPendingDecryptionOrProcess
    <3> QED
      BY <3>1, <3>2 DEF NoLostTry
  <2>2. CASE ~hasPendingDecryptionOrProcess
    <3>1. promise' = "resolved"
      BY <1>7, <2>2 DEF ReadPendingJobs
    <3> QED
      BY <3>1 DEF NoLostTry
  <2> QED
    BY <2>1, <2>2
<1> QED
  BY <1>4, <1>5, <1>6, <1>7 DEF PromiseStep

\* The steps that post a notification.
LEMMA HeardSteps ==
    ASSUME PipelineTypeOK, NoLostTry,
           \/ DecryptionFlushed \/ ProcessingFlushed
           \/ SocketOpensOrCloses \/ InitialQueueIsEmptied
           \/ RunFetchCycle \/ CompleteFetchCycle
    PROVE  NoLostTry'
<1>1. CASE DecryptionFlushed
  <2>1. Notify({"decryptStep", "everything", "fetched"})
    BY <1>1, Zenon DEF DecryptionFlushed, AllPromise
  <2>2. drainStep' = drainStep /\ drainCalls' = drainCalls
    BY <1>1 DEF DecryptionFlushed, FlushDecrypt, drainVars
  <2>3. ProcessingWillFlush => ProcessingWillFlush'
    BY <2>2, Zenon DEF ProcessingWillFlush, isDrainingQueue
  <2> QED
    BY <2>1, <2>3, ToldSteps
<1>2. CASE ProcessingFlushed
  <2>1. UNCHANGED <<isSetup, workSteps>>
    BY <1>2 DEF ProcessingFlushed, DrainIsDone, decryptVars
  <2>2. DecryptionWillFlush => DecryptionWillFlush'
    BY <2>1, DecryptionIsQuiet
  <2>3. Notify({"processingStep", "everything", "fetched"})
    BY <1>2, Zenon DEF ProcessingFlushed, AllPromise
  <2> QED
    BY <2>2, <2>3, ToldSteps
<1>3. CASE SocketOpensOrCloses \/ InitialQueueIsEmptied \/ RunFetchCycle \/ CompleteFetchCycle
  <2>1. UNCHANGED pipelineVars
    BY <1>3 DEF SocketOpensOrCloses, InitialQueueIsEmptied, webSocketStateDidChange,
       RunFetchCycle, CompleteFetchCycle, vars
  <2>2. Notify({"everything", "fetched"})
    BY <1>3, Zenon DEF SocketOpensOrCloses, InitialQueueIsEmptied, webSocketStateDidChange,
       RunFetchCycle, CompleteFetchCycle, AllPromise
  <2> QED
    BY <2>1, <2>2, PipelineUnchanged, ToldSteps
<1> QED
  BY <1>1, <1>2, <1>3

\* A step of queue/empty leaves the two queues as they are.
LEMMA QueueEmptyKeepsDrain ==
    ASSUME TryInv, QueueEmptyStep
    PROVE  DrainInv' /\ ReadyIsFound'
<1>1. UNCHANGED <<isSetup, workSteps, record, content, drainCalls, drainStep, batchJobs>>
  BY QueueEmptyLeavesPipeline DEF pipelineVars, decryptVars, drainVars
<1>2. DrainInv'
  BY <1>1 DEF TryInv, DrainInv, NoLostDrain, EndingDrainIsRepeated, isDrainingQueue
<1>3. isSetup' = isSetup /\ workSteps' = workSteps /\ record' = record
  BY <1>1
<1>4. ReadyIsFound'
  BY <1>3, Zenon DEF TryInv, ReadyIsFound, DecryptionWillFlush, IsReady
<1> QED
  BY <1>2, <1>4

LEMMA TryInduction ==
    ASSUME SocketTypeOK, PipelineTypeOK, TryInv, [PromiseNext]_allVars
    PROVE  TryInv'
<1>1. DrainInv' /\ ReadyIsFound'
  BY PromiseStepsOfPipeline, QueueEmptyKeepsDrain, DrainInduction, ReadyInduction DEF TryInv
<1> SUFFICES NoLostTry'
  BY <1>1 DEF TryInv
<1>2. NoLostTry
  BY DEF TryInv
<1>3. CASE SocketReceives \/ SocketSerialQueue \/ (Arrive /\ UNCHANGED pipelineVars /\ Unheard)
  BY <1>2, <1>3, UnheardSteps DEF SocketReceives, SocketSerialQueue, QuietStep
<1>4. CASE MainQueue
  BY <1>2, <1>4, UnheardSteps, HeardSteps DEF MainQueue
<1>5. CASE DecryptWorkStep \/ DecryptOperation \/ ContentWorkStep
  BY <1>2, <1>5, UnheardSteps, HeardSteps DEF DecryptWorkStep, DecryptOperation,
     ContentWorkStep, QuietStep
<1>6. CASE (Setup \/ drainQueue) /\ Unheard
  BY <1>2, <1>6, UnheardSteps DEF QuietStep
<1>7. CASE CompleteFetchCycle \/ RunFetchCycle \/ SocketOpensOrCloses
  BY <1>2, <1>7, HeardSteps
<1>8. CASE FetchMessages
  <2>1. UNCHANGED <<pipelineVars, state, hasEmptiedInitialQueue, activeFetchCycles>>
    BY <1>8 DEF FetchMessages, vars, socketVars, socket
  <2>2. areAllFetchCyclesComplete' => areAllFetchCyclesComplete
    BY <2>1 DEF areAllFetchCyclesComplete
  <2>3. StillTold
    BY <2>1, <2>2, PipelineUnchanged, SteadySocket DEF StillTold
  <2> QED
    BY <1>2, <1>8, <2>3, UntoldSteps DEF FetchMessages
<1>9. CASE PromiseStep
  BY <1>9, TriesAreKept
<1>10. CASE Create("decryptStep") \/ Create("everything")
  <2>1. tries'
    BY <1>10, Zenon DEF Create
  <2> QED
    BY <2>1, Zenon DEF NoLostTry
<1>11. CASE RelaunchWithoutPromise
  <2>1. promise' = "none"
    BY <1>11 DEF RelaunchWithoutPromise
  <2> QED
    BY <2>1 DEF NoLostTry
<1>12. CASE UNCHANGED allVars
  <2>1. UNCHANGED <<pipelineVars, state, hasEmptiedInitialQueue, fetchVars, promiseVars>>
    BY <1>12 DEF allVars, vars, socketVars, socket
  <2>2. StillTold
    BY <2>1, PipelineUnchanged, SteadySocket, SameCycles DEF StillTold
  <2> QED
    BY <1>2, <2>1, <2>2, UntoldSteps
<1> QED
  BY <1>3, <1>4, <1>5, <1>6, <1>7, <1>8, <1>9, <1>10, <1>11, <1>12 DEF PromiseNext,
     SystemStep, FetchStep, flushMessageDecryptionAndProcessingPromise,
     allMessageFetchingAndProcessingPromise

\* No notification is missed that a promise waits for: no condition comes true unheard,
\* and none between being read and being waited for, however often the socket closes.
THEOREM NoTryIsLost == PromiseSpec => []NoLostTry
<1>1. PromiseInit => TryInv
  <2>1. PromiseInit => DrainInv
    BY DEF PromiseInit, Init, DrainInv, NoLostDrain, EndingDrainIsRepeated
  <2>2. PromiseInit => ReadyIsFound
    BY DEF PromiseInit, Init, ReadyIsFound
  <2>3. PromiseInit => NoLostTry
    BY DEF PromiseInit, NoLostTry
  <2> QED
    BY <2>1, <2>2, <2>3 DEF TryInv
<1>2. SocketTypeOK /\ PipelineTypeOK /\ TryInv /\ [PromiseNext]_allVars => TryInv'
  BY TryInduction
<1> QED
  BY <1>1, <1>2, PromisePipeline, PTL DEF PromiseSpec, TryInv
==============================================================================
