-------------------------- MODULE MessageSocketProofs -------------------------
(***************************************************************************)
(* Theorems about MessageSocket, for any number of envelopes, connections  *)
(* and launches, and any envelopes that are dropped.                       *)
(***************************************************************************)
EXTENDS MessageSocket, TLAPS

------------------------------------------------------------------------------
(***************************************************************************)
(* Types                                                                   *)
(***************************************************************************)

LEMMA AppendType ==
    ASSUME NEW S, NEW s \in Seq(S), NEW x \in S
    PROVE  Append(s, x) \in Seq(S)
OBVIOUS

\* A block keeps its envelope and connection as it changes its kind.
LEMMA MessageBlocks ==
    ASSUME NEW block \in Blocks("message", "flush"), block.kind = "message"
    PROVE  /\ block.envelope \in Envelopes
           /\ [block EXCEPT !.kind = "acknowledge"] \in Blocks("acknowledge", "emptied")
           /\ [block EXCEPT !.kind = "acknowledge"].envelope = block.envelope
           /\ [block EXCEPT !.kind = "acknowledge"].kind = "acknowledge"
BY DEF Blocks

LEMMA FlushBlocks ==
    ASSUME NEW block \in Blocks("message", "flush"), block.kind = "flush"
    PROVE  /\ [block EXCEPT !.kind = "emptied"] \in Blocks("acknowledge", "emptied")
           /\ [block EXCEPT !.kind = "emptied"].kind = "emptied"
BY DEF Blocks

LEMMA SocketTypeInit == SocketInit => SocketTypeOK
<1> SUFFICES ASSUME SocketInit PROVE SocketTypeOK
  OBVIOUS
<1>1. arrived \in 0 .. MaxEnvelopes /\ connection \in Connections
  BY SocketBoundsAssumption DEF SocketInit, Connections
<1>2. mailbox \subseteq Envelopes /\ sent \subseteq Envelopes /\ backlog \subseteq Envelopes
  BY DEF SocketInit
<1>3. toldEmpty \in BOOLEAN
  BY Zenon DEF SocketInit
<1>4. hasEmptiedInitialQueue \in BOOLEAN
  BY Zenon DEF SocketInit
<1>5. willEmptyInitialQueue \in BOOLEAN
  BY Zenon DEF SocketInit
<1>6. state \in {"closed", "open"} /\ launches \in Nat
  BY DEF SocketInit
<1>7. /\ serialQueue \in Seq(Blocks("message", "flush"))
      /\ mainQueue \in Seq(Blocks("acknowledge", "emptied"))
      /\ persisted \in Seq(Envelopes)
      /\ reported \subseteq Unreadable
  BY DEF SocketInit
<1> QED
  BY <1>1, <1>2, <1>3, <1>4, <1>5, <1>6, <1>7 DEF SocketTypeOK

LEMMA SocketTypeInduction ==
    ASSUME SocketTypeOK, [SocketNext]_socketVars
    PROVE  SocketTypeOK'
<1> USE SocketBoundsAssumption
    DEF SocketTypeOK, socketVars, service, socket, dispatches, Envelopes, Connections
<1>1. CASE UNCHANGED socketVars
  BY <1>1
<1>2. CASE Arrive
  BY <1>2 DEF Arrive
<1>3. CASE Connect
  <2>1. toldEmpty' \in BOOLEAN
    BY <1>3, Zenon DEF Connect
  <2>2. /\ connection' \in Connections /\ state' \in {"closed", "open"}
        /\ sent' = {} /\ backlog' = {}
        /\ UNCHANGED <<arrived, mailbox, hasEmptiedInitialQueue, willEmptyInitialQueue,
                       dispatches, persisted, reported, launches>>
    BY <1>3 DEF Connect
  <2> QED
    BY <2>1, <2>2
<1>4. CASE Close
  <2>1. hasEmptiedInitialQueue' \in BOOLEAN
    BY <1>4, Zenon DEF Close, ForgetEmptying
  <2>2. willEmptyInitialQueue' \in BOOLEAN
    BY <1>4, Zenon DEF Close, ForgetEmptying
  <2>3. /\ state' \in {"closed", "open"}
        /\ UNCHANGED <<service, connection, dispatches, persisted, reported, launches>>
    BY <1>4 DEF Close
  <2> QED
    BY <2>1, <2>2, <2>3
<1>5. CASE SocketRelaunch
  <2>1. hasEmptiedInitialQueue' \in BOOLEAN
    BY <1>5, Zenon DEF SocketRelaunch
  <2>2. willEmptyInitialQueue' \in BOOLEAN
    BY <1>5, Zenon DEF SocketRelaunch
  <2>3. /\ state' \in {"closed", "open"} /\ launches' \in Nat /\ connection' \in Connections
        /\ serialQueue' = <<>> /\ mainQueue' = <<>>
        /\ UNCHANGED <<service, persisted, reported>>
    BY <1>5 DEF SocketRelaunch
  <2> QED
    BY <2>1, <2>2, <2>3
<1>6. CASE ReceiveMessage
  <2>1. PICK e \in Envelopes :
            /\ sent' = sent \cup {e}
            /\ serialQueue' = Append(serialQueue, Block("message", e, connection))
    BY <1>6 DEF ReceiveMessage
  <2>2. Block("message", e, connection) \in Blocks("message", "flush")
    BY DEF Block, Blocks
  <2>3. UNCHANGED <<arrived, mailbox, toldEmpty, backlog, socket, mainQueue, persisted,
                    reported, launches>>
    BY <1>6 DEF ReceiveMessage
  <2> QED
    BY <2>1, <2>2, <2>3
<1>7. CASE ReceiveQueueEmpty
  <2>1. toldEmpty' \in BOOLEAN
    BY <1>7, Zenon DEF ReceiveQueueEmpty
  <2>2. /\ backlog' = sent
        /\ UNCHANGED <<arrived, mailbox, sent, state, connection, hasEmptiedInitialQueue,
                       persisted, reported, launches>>
    BY <1>7 DEF ReceiveQueueEmpty
  <2>3. CASE hasEmptiedInitialQueue
    <3>1. UNCHANGED <<willEmptyInitialQueue, dispatches>>
      BY <1>7, <2>3 DEF ReceiveQueueEmpty
    <3> QED
      BY <2>1, <2>2, <3>1
  <2>4. CASE ~hasEmptiedInitialQueue
    <3>1. willEmptyInitialQueue' \in BOOLEAN
      BY <1>7, <2>4, Zenon DEF ReceiveQueueEmpty
    <3>2. Block("flush", 0, connection) \in Blocks("message", "flush")
      BY DEF Block, Blocks
    <3>3. /\ serialQueue' = Append(serialQueue, Block("flush", 0, connection))
          /\ UNCHANGED mainQueue
      BY <1>7, <2>4 DEF ReceiveQueueEmpty, FlushSerialQueue
    <3> QED
      BY <2>1, <2>2, <3>1, <3>2, <3>3
  <2> QED
    BY <2>3, <2>4
<1>8. CASE StoreMessage
  <2>1. Head(serialQueue) \in Blocks("message", "flush")
    BY <1>8 DEF StoreMessage
  <2>2. [Head(serialQueue) EXCEPT !.kind = "acknowledge"] \in Blocks("acknowledge", "emptied")
    BY <1>8, <2>1, MessageBlocks DEF StoreMessage
  <2>3. /\ mainQueue' = Append(mainQueue, [Head(serialQueue) EXCEPT !.kind = "acknowledge"])
        /\ serialQueue' = Tail(serialQueue)
        /\ UNCHANGED <<service, socket, launches>>
    BY <1>8 DEF StoreMessage, DispatchAcknowledgement
  <2>4. Tail(serialQueue) \in Seq(Blocks("message", "flush"))
    BY <1>8 DEF StoreMessage
  <2>5. persisted' \in Seq(Envelopes)
    <3>1. Head(serialQueue).envelope \in Envelopes
      BY <1>8, <2>1, MessageBlocks DEF StoreMessage
    <3>2. \/ persisted' = persisted
          \/ persisted' = Append(persisted, Head(serialQueue).envelope)
      BY <1>8 DEF StoreMessage, Stored
    <3>3. persisted \in Seq(Envelopes)
      OBVIOUS
    <3> HIDE DEF Envelopes
    <3>4. Append(persisted, Head(serialQueue).envelope) \in Seq(Envelopes)
      BY <3>1, <3>3, AppendType
    <3> QED
      BY <3>2, <3>3, <3>4
  <2>6. reported' \subseteq Unreadable
    BY <1>8 DEF StoreMessage, Reported
  <2> QED
    BY <2>2, <2>3, <2>4, <2>5, <2>6
<1>9. CASE FinishFlush
  <2>1. Head(serialQueue) \in Blocks("message", "flush")
    BY <1>9 DEF FinishFlush
  <2>2. [Head(serialQueue) EXCEPT !.kind = "emptied"] \in Blocks("acknowledge", "emptied")
    BY <1>9, <2>1, FlushBlocks DEF FinishFlush
  <2>3. /\ mainQueue' = Append(mainQueue, [Head(serialQueue) EXCEPT !.kind = "emptied"])
        /\ serialQueue' = Tail(serialQueue)
        /\ UNCHANGED <<service, socket, persisted, reported, launches>>
    BY <1>9 DEF FinishFlush
  <2>4. Tail(serialQueue) \in Seq(Blocks("message", "flush"))
    BY <1>9 DEF FinishFlush
  <2> QED
    BY <2>2, <2>3, <2>4
<1>10. CASE Acknowledge
  <2>1. mailbox' \subseteq mailbox
    BY <1>10 DEF Acknowledge
  <2>2. mainQueue' \in Seq(Blocks("acknowledge", "emptied"))
    BY <1>10 DEF Acknowledge
  <2>3. UNCHANGED <<arrived, sent, toldEmpty, backlog, socket, serialQueue, persisted,
                    reported, launches>>
    BY <1>10 DEF Acknowledge
  <2> QED
    BY <2>1, <2>2, <2>3
<1>11. CASE MarkEmptied
  <2>1. hasEmptiedInitialQueue' \in BOOLEAN
    BY <1>11, Zenon DEF MarkEmptied, EmptyIfExpected
  <2>2. willEmptyInitialQueue' \in BOOLEAN
    BY <1>11, Zenon DEF MarkEmptied, EmptyIfExpected
  <2>3. mainQueue' \in Seq(Blocks("acknowledge", "emptied"))
    BY <1>11 DEF MarkEmptied
  <2>4. UNCHANGED <<service, state, connection, serialQueue, persisted, reported, launches>>
    BY <1>11 DEF MarkEmptied
  <2> QED
    BY <2>1, <2>2, <2>3, <2>4
<1> QED
  BY <1>1, <1>2, <1>3, <1>4, <1>5, <1>6, <1>7, <1>8, <1>9, <1>10, <1>11
     DEF SocketNext, ServiceSends, SerialQueueStep, MainQueueStep

\* Every variable keeps its type.
THEOREM SocketTypeCorrect == SocketSpec => []SocketTypeOK
BY SocketTypeInit, SocketTypeInduction, PTL DEF SocketSpec

------------------------------------------------------------------------------
(***************************************************************************)
(* Envelopes are stored in order, and acknowledged when they are stored    *)
(***************************************************************************)

IsMessage(i, e) == serialQueue[i].kind = "message" /\ serialQueue[i].envelope = e

\* An envelope is stored, or will be before the block i of the serial queue runs.
IsStoredBefore(e, i) == IsHandled(e) \/ \E j \in 1 .. i - 1 : IsMessage(j, e)

End == Len(serialQueue) + 1

MailboxHasArrived == mailbox \subseteq 1 .. arrived

\* What the service sent on an open connection is stored or in the serial queue.
SentIsReceived ==
    state = "open" => \A e \in sent : e <= arrived /\ IsStoredBefore(e, End)

\* What is older than an envelope of the serial queue is stored or comes first there.
QueueIsInOrder ==
    \A i \in 1 .. Len(serialQueue) : \A e \in Envelopes :
        IsMessage(i, e) =>
            e <= arrived /\ \A f \in Envelopes : f < e => IsStoredBefore(f, i)

\* What is about to be acknowledged is stored.
AcknowledgedIsStored ==
    \A i \in 1 .. Len(mainQueue) :
        mainQueue[i].kind = "acknowledge" => IsHandled(mainQueue[i].envelope)

DeliveryInv ==
    /\ MailboxHasArrived
    /\ SentIsReceived
    /\ QueueIsInOrder
    /\ AcknowledgedIsStored
    /\ NothingLostByAcknowledging
    /\ StoredInOrder

\* A record stays in the database.
LEMMA StoredStaysStored ==
    ASSUME SocketTypeOK, [SocketNext]_socketVars, NEW e, IsHandled(e)
    PROVE  IsHandled(e)'
<1>1. \/ persisted' = persisted
      \/ \E x : persisted' = Append(persisted, x)
  BY DEF SocketNext, ServiceSends, SerialQueueStep, MainQueueStep, Arrive, Connect, Close,
     SocketRelaunch, ReceiveMessage, ReceiveQueueEmpty, StoreMessage, Stored, FinishFlush,
     Acknowledge, MarkEmptied, socketVars
<1>2. reported \subseteq reported'
  BY DEF SocketNext, ServiceSends, SerialQueueStep, MainQueueStep, Arrive, Connect, Close,
     SocketRelaunch, ReceiveMessage, ReceiveQueueEmpty, StoreMessage, Reported, FinishFlush,
     Acknowledge, MarkEmptied, socketVars
<1>3. ASSUME NEW x, persisted' = Append(persisted, x),
             NEW i \in DOMAIN persisted, persisted[i] = e
      PROVE  i \in DOMAIN persisted' /\ persisted'[i] = e
  BY <1>3 DEF SocketTypeOK
<1> QED
  BY <1>1, <1>2, <1>3 DEF IsHandled

\* Blocks that join the queue leave those before them where they are.
LEMMA AppendKeepsOrder ==
    ASSUME SocketTypeOK, [SocketNext]_socketVars, NEW block,
           serialQueue' = Append(serialQueue, block),
           NEW e, NEW i \in 1 .. End, IsStoredBefore(e, i)
    PROVE  IsStoredBefore(e, i)'
<1>1. CASE IsHandled(e)
  BY <1>1, StoredStaysStored DEF IsStoredBefore
<1>2. ASSUME NEW j \in 1 .. i - 1, IsMessage(j, e)
      PROVE  IsMessage(j, e)'
  BY <1>2 DEF IsMessage, End, SocketTypeOK
<1> QED
  BY <1>1, <1>2 DEF IsStoredBefore

\* A block that leaves the queue has stored its envelope.
LEMMA TailKeepsOrder ==
    ASSUME SocketTypeOK, [SocketNext]_socketVars, serialQueue # <<>>,
           serialQueue' = Tail(serialQueue),
           \A e : IsMessage(1, e) => IsHandled(e)',
           NEW e, NEW i \in 1 .. Len(serialQueue), IsStoredBefore(e, i + 1)
    PROVE  IsStoredBefore(e, i)'
<1>1. CASE IsHandled(e)
  BY <1>1, StoredStaysStored DEF IsStoredBefore
<1>2. CASE ~IsHandled(e)
  <2>1. PICK j \in 1 .. i : IsMessage(j, e)
    BY <1>2 DEF IsStoredBefore
  <2>2. CASE j = 1
    BY <2>1, <2>2 DEF IsStoredBefore
  <2>3. CASE j # 1
    <3>1. j - 1 \in 1 .. i - 1
      BY <2>3
    <3>2. IsMessage(j - 1, e)'
      BY <2>1, <2>3 DEF IsMessage, SocketTypeOK
    <3> QED
      BY <3>1, <3>2 DEF IsStoredBefore
  <2> QED
    BY <2>2, <2>3
<1> QED
  BY <1>1, <1>2

\* What a step does to the serial queue.
LEMMA SerialQueueSteps ==
    ASSUME SocketTypeOK, [SocketNext]_socketVars
    PROVE  \/ UNCHANGED serialQueue
           \/ SocketRelaunch
           \/ ReceiveMessage
           \/ ReceiveQueueEmpty
           \/ StoreMessage
           \/ FinishFlush
BY DEF SocketNext, ServiceSends, SerialQueueStep, MainQueueStep, Arrive, Connect, Close,
   Acknowledge, MarkEmptied, socketVars, dispatches

\* A step that stores a message stores its envelope.
LEMMA StoreStores ==
    ASSUME SocketTypeOK, StoreMessage
    PROVE  /\ Head(serialQueue).envelope \in Envelopes
           /\ IsMessage(1, Head(serialQueue).envelope)
           /\ \A e : IsMessage(1, e) => IsHandled(e)'
<1>0. PICK x : x = Head(serialQueue).envelope
  OBVIOUS
<1>1. Head(serialQueue) \in Blocks("message", "flush") /\ serialQueue[1] = Head(serialQueue)
  BY DEF StoreMessage, SocketTypeOK
<1>2. x \in Envelopes
  BY <1>0, <1>1, MessageBlocks DEF StoreMessage
<1>3. IsMessage(1, x)
  BY <1>0, <1>1 DEF StoreMessage, IsMessage
<1>4. IsHandled(x)'
  <2>1. CASE x \in Discarded
    BY <2>1 DEF IsHandled
  <2>2. CASE x \in Unreadable
    BY <1>0, <2>2 DEF StoreMessage, Reported, IsHandled
  <2>3. CASE x \notin Dropped
    <3>1. persisted' = Append(persisted, x) /\ persisted \in Seq(Envelopes)
      BY <1>0, <2>3 DEF StoreMessage, Stored, SocketTypeOK
    <3>2. Len(persisted) + 1 \in DOMAIN persisted' /\ persisted'[Len(persisted) + 1] = x
      BY <3>1, <1>2
    <3> QED
      BY <3>2 DEF IsHandled
  <2> QED
    BY <2>1, <2>2, <2>3 DEF Dropped
<1>5. ASSUME NEW e, IsMessage(1, e)
      PROVE  e = x
  BY <1>0, <1>1, <1>5 DEF IsMessage
<1> QED
  BY <1>0, <1>2, <1>3, <1>4, <1>5

\* FinishFlush takes a block that holds no message.
LEMMA FlushHoldsNothing ==
    ASSUME SocketTypeOK, FinishFlush
    PROVE  \A e : ~IsMessage(1, e)
BY DEF FinishFlush, IsMessage, SocketTypeOK

\* The service sends what comes next: all that is older has been sent, or forgotten.
LEMMA ReceivedInOrder ==
    ASSUME SocketTypeOK, DeliveryInv, NEW e \in Envelopes, state = "open", IsNextToSend(e)
    PROVE  e <= arrived /\ \A f \in Envelopes : f < e => IsStoredBefore(f, End)
<1>1. e <= arrived
  BY DEF IsNextToSend, DeliveryInv, MailboxHasArrived, SocketTypeOK
<1>2. ASSUME NEW f \in Envelopes, f < e
      PROVE  IsStoredBefore(f, End)
  <2>1. f \notin mailbox \ sent
    BY <1>2 DEF IsNextToSend, Envelopes
  <2>2. CASE f \in sent
    BY <2>2 DEF DeliveryInv, SentIsReceived
  <2>3. CASE f \notin mailbox
    <3>1. f \in 1 .. arrived
      BY <1>1, <1>2 DEF Envelopes, SocketTypeOK
    <3> QED
      BY <2>3, <3>1 DEF DeliveryInv, NothingLostByAcknowledging, IsStoredBefore
  <2> QED
    BY <2>1, <2>2, <2>3
<1> QED
  BY <1>1, <1>2

\* Envelopes only enter the mailbox as they arrive.
LEMMA MailboxSteps ==
    ASSUME SocketTypeOK, [SocketNext]_socketVars
    PROVE  \/ mailbox' = mailbox /\ arrived' = arrived
           \/ mailbox' = mailbox \cup {arrived + 1} /\ arrived' = arrived + 1
           \/ /\ Acknowledge /\ mainQueue # <<>> /\ Head(mainQueue).kind = "acknowledge"
              /\ mailbox' = mailbox \ {Head(mainQueue).envelope} /\ arrived' = arrived
<1>1. CASE UNCHANGED socketVars
  BY <1>1 DEF socketVars, service
<1>2. CASE Arrive
  BY <1>2 DEF Arrive
<1>3. CASE Acknowledge
  BY <1>3 DEF Acknowledge
<1>4. CASE Connect \/ Close \/ SocketRelaunch \/ ServiceSends \/ SerialQueueStep \/ MarkEmptied
  BY <1>4 DEF Connect, Close, SocketRelaunch, ServiceSends, ReceiveMessage,
     ReceiveQueueEmpty, SerialQueueStep, StoreMessage, FinishFlush, MarkEmptied, service
<1> QED
  BY <1>1, <1>2, <1>3, <1>4 DEF SocketNext, MainQueueStep

LEMMA NothingLostInduction ==
    ASSUME SocketTypeOK, DeliveryInv, [SocketNext]_socketVars
    PROVE  MailboxHasArrived' /\ NothingLostByAcknowledging'
<1>1. MailboxHasArrived'
  <2>1. mailbox \subseteq 1 .. arrived /\ arrived \in Nat
    BY DEF DeliveryInv, MailboxHasArrived, SocketTypeOK
  <2>2. \/ mailbox' \subseteq mailbox /\ arrived' = arrived
        \/ mailbox' = mailbox \cup {arrived + 1} /\ arrived' = arrived + 1
    BY MailboxSteps
  <2>3. ASSUME NEW m \in mailbox'
        PROVE  m \in 1 .. arrived'
    <3>1. CASE m \in mailbox
      BY <3>1, <2>1, <2>2
    <3>2. CASE m \notin mailbox
      BY <3>2, <2>1, <2>2, <2>3
    <3> QED
      BY <3>1, <3>2
  <2> QED
    BY <2>3 DEF MailboxHasArrived
<1>2. ASSUME NEW e \in 1 .. arrived', e \notin mailbox'
      PROVE  IsHandled(e)
  <2>1. CASE e \in 1 .. arrived /\ e \notin mailbox
    BY <2>1 DEF DeliveryInv, NothingLostByAcknowledging
  <2>2. CASE ~(e \in 1 .. arrived /\ e \notin mailbox)
    <3>1. Head(mainQueue).kind = "acknowledge" /\ e = Head(mainQueue).envelope
          /\ mainQueue # <<>>
      BY <1>2, <2>2, MailboxSteps DEF SocketTypeOK
    <3>2. 1 \in 1 .. Len(mainQueue) /\ mainQueue[1] = Head(mainQueue)
      BY <3>1 DEF SocketTypeOK
    <3> QED
      BY <3>1, <3>2 DEF DeliveryInv, AcknowledgedIsStored
  <2> QED
    BY <2>1, <2>2
<1> QED
  BY <1>1, <1>2, StoredStaysStored DEF NothingLostByAcknowledging

LEMMA AcknowledgedInduction ==
    ASSUME SocketTypeOK, DeliveryInv, [SocketNext]_socketVars
    PROVE  AcknowledgedIsStored'
<1> SUFFICES ASSUME NEW i \in 1 .. Len(mainQueue'), mainQueue'[i].kind = "acknowledge",
                    NEW e, e = mainQueue'[i].envelope
             PROVE  IsHandled(e)'
  BY DEF AcknowledgedIsStored, IsHandled
<1>1. ASSUME NEW k \in 1 .. Len(mainQueue), mainQueue'[i] = mainQueue[k]
      PROVE  IsHandled(e)'
  <2>1. IsHandled(e)
    BY <1>1 DEF DeliveryInv, AcknowledgedIsStored
  <2> QED
    BY <2>1, StoredStaysStored
<1>2. CASE UNCHANGED mainQueue
  BY <1>1, <1>2
<1>3. CASE SocketRelaunch
  BY <1>3 DEF SocketRelaunch
<1>4. CASE mainQueue # <<>> /\ mainQueue' = Tail(mainQueue)
  <2>1. i + 1 \in 1 .. Len(mainQueue) /\ mainQueue'[i] = mainQueue[i + 1]
    BY <1>4 DEF SocketTypeOK
  <2> QED
    BY <2>1, <1>1
<1>5. CASE StoreMessage
  <2>1. PICK block : /\ block = [Head(serialQueue) EXCEPT !.kind = "acknowledge"]
                     /\ mainQueue' = Append(mainQueue, block)
    BY <1>5 DEF StoreMessage, DispatchAcknowledgement
  <2>2. CASE i \in 1 .. Len(mainQueue)
    BY <2>1, <2>2, <1>1 DEF SocketTypeOK
  <2>3. CASE i \notin 1 .. Len(mainQueue)
    <3>1. mainQueue'[i] = block
      BY <2>1, <2>3 DEF SocketTypeOK
    <3>2. Head(serialQueue) \in Blocks("message", "flush")
      BY <1>5 DEF StoreMessage, SocketTypeOK
    <3>3. e = Head(serialQueue).envelope
      BY <2>1, <3>1, <3>2, <1>5, MessageBlocks DEF StoreMessage
    <3> QED
      BY <3>3, <1>5, StoreStores
  <2> QED
    BY <2>2, <2>3
<1>6. CASE FinishFlush
  <2>1. PICK block : /\ block = [Head(serialQueue) EXCEPT !.kind = "emptied"]
                     /\ mainQueue' = Append(mainQueue, block)
    BY <1>6 DEF FinishFlush
  <2>2. block.kind = "emptied"
    BY <2>1, <1>6, FlushBlocks DEF FinishFlush, SocketTypeOK
  <2>3. i \in 1 .. Len(mainQueue)
    BY <2>1, <2>2 DEF SocketTypeOK
  <2>4. mainQueue'[i] = mainQueue[i]
    BY <2>1, <2>3 DEF SocketTypeOK
  <2> QED
    BY <2>3, <2>4, <1>1
<1>7. \/ UNCHANGED mainQueue \/ SocketRelaunch \/ StoreMessage \/ FinishFlush
      \/ mainQueue # <<>> /\ mainQueue' = Tail(mainQueue)
  BY DEF SocketNext, ServiceSends, SerialQueueStep, MainQueueStep, Arrive, Connect, Close,
     ReceiveMessage, ReceiveQueueEmpty, FlushSerialQueue, Acknowledge, MarkEmptied,
     socketVars, dispatches
<1> QED
  BY <1>2, <1>3, <1>4, <1>5, <1>6, <1>7

LEMMA StoredInOrderInduction ==
    ASSUME SocketTypeOK, DeliveryInv, [SocketNext]_socketVars
    PROVE  StoredInOrder'
<1>1. CASE UNCHANGED persisted
  BY <1>1 DEF DeliveryInv, StoredInOrder
<1>2. CASE ~UNCHANGED persisted
  <2>1. StoreMessage
    BY <1>2 DEF SocketNext, ServiceSends, SerialQueueStep, MainQueueStep, Arrive, Connect,
       Close, SocketRelaunch, ReceiveMessage, ReceiveQueueEmpty, FinishFlush, Acknowledge,
       MarkEmptied, socketVars
  <2>2. PICK x \in Envelopes : x = Head(serialQueue).envelope /\ IsMessage(1, x)
    BY <2>1, StoreStores
  <2>3. persisted' = Append(persisted, x)
    BY <1>2, <2>1, <2>2 DEF StoreMessage, Stored
  <2>4. \A f \in Envelopes : f < x => IsHandled(f)
    <3>1. 1 \in 1 .. Len(serialQueue)
      BY <2>1 DEF StoreMessage, SocketTypeOK
    <3> QED
      BY <2>2, <3>1 DEF DeliveryInv, QueueIsInOrder, IsStoredBefore
  <2>5. ASSUME NEW i \in DOMAIN persisted', NEW e \in Envelopes \ Dropped,
               e < persisted'[i]
        PROVE  \E k \in 1 .. i : persisted'[k] = e
    <3>0. persisted \in Seq(Envelopes)
      BY DEF SocketTypeOK
    <3>1. CASE i \in DOMAIN persisted
      <4>1. persisted'[i] = persisted[i]
        BY <3>0, <3>1, <2>3
      <4>2. PICK k \in 1 .. i : persisted[k] = e
        BY <2>5, <3>1, <4>1 DEF DeliveryInv, StoredInOrder
      <4>3. persisted'[k] = persisted[k]
        BY <3>0, <3>1, <2>3
      <4> QED
        BY <4>2, <4>3
    <3>2. CASE i \notin DOMAIN persisted
      <4>1. i = Len(persisted) + 1 /\ persisted'[i] = x
        BY <3>0, <3>2, <2>3
      <4>2. PICK k \in DOMAIN persisted : persisted[k] = e
        BY <2>4, <2>5, <4>1 DEF IsHandled, Dropped, SocketTypeOK
      <4>3. persisted'[k] = e /\ k \in 1 .. i
        BY <3>0, <4>1, <4>2, <2>3
      <4> QED
        BY <4>3
    <3> QED
      BY <3>1, <3>2
  <2> QED
    BY <2>5 DEF StoredInOrder
<1> QED
  BY <1>1, <1>2

LEMMA SentInduction ==
    ASSUME SocketTypeOK, DeliveryInv, [SocketNext]_socketVars
    PROVE  SentIsReceived'
<1> SUFFICES ASSUME state' = "open", NEW e \in sent'
             PROVE  e <= arrived' /\ IsStoredBefore(e, End)'
  BY DEF SentIsReceived, End, IsStoredBefore, IsHandled, IsMessage
<1>0. serialQueue \in Seq(Blocks("message", "flush"))
  BY DEF SocketTypeOK
<1>1. CASE state = "open" /\ e \in sent
  <2>1. e <= arrived /\ IsStoredBefore(e, End) /\ e \in Nat /\ arrived \in Nat
    BY <1>1 DEF DeliveryInv, SentIsReceived, SocketTypeOK, Envelopes
  <2>2. e <= arrived'
    BY <2>1, MailboxSteps
  <2>3. CASE UNCHANGED serialQueue
    BY <2>1, <2>2, <2>3, StoredStaysStored DEF IsStoredBefore, IsMessage, End
  <2>4. ASSUME NEW block, serialQueue' = Append(serialQueue, block)
        PROVE  IsStoredBefore(e, End)'
    <3>1. Len(serialQueue') = Len(serialQueue) + 1 /\ Len(serialQueue) \in Nat
      BY <1>0, <2>4
    <3>2. IsStoredBefore(e, End)' <=>
            IsHandled(e)' \/ \E j \in 1 .. Len(serialQueue) + 1 : IsMessage(j, e)'
      BY <3>1 DEF IsStoredBefore, End
    <3>3. CASE IsHandled(e)
      BY <3>2, <3>3, StoredStaysStored
    <3>4. ASSUME NEW j \in 1 .. Len(serialQueue), IsMessage(j, e)
          PROVE  IsMessage(j, e)'
      BY <1>0, <2>4, <3>4 DEF IsMessage
    <3>5. CASE ~IsHandled(e)
      <4>1. PICK j \in 1 .. Len(serialQueue) : IsMessage(j, e)
        BY <2>1, <3>1, <3>5 DEF IsStoredBefore, End
      <4>2. j \in 1 .. Len(serialQueue) + 1 /\ IsMessage(j, e)'
        BY <3>1, <3>4, <4>1
      <4> QED
        BY <3>2, <4>2
    <3> QED
      BY <3>3, <3>5
  <2>5. ASSUME serialQueue # <<>>, serialQueue' = Tail(serialQueue),
               \A f : IsMessage(1, f) => IsHandled(f)'
        PROVE  IsStoredBefore(e, End)'
    <3>1. PICK n \in Nat : n = Len(serialQueue)
      BY <1>0
    <3>2. n \in 1 .. Len(serialQueue) /\ Len(serialQueue') = n - 1
      BY <1>0, <2>5, <3>1
    <3>3. IsStoredBefore(e, n + 1)
      BY <2>1, <3>1 DEF End
    <3>4. IsStoredBefore(e, n)'
      BY <2>5, <3>2, <3>3, TailKeepsOrder
    <3>5. n' = n /\ (Len(serialQueue') + 1) = n
      BY <3>2
    <3> QED
      BY <3>4, <3>5 DEF IsStoredBefore, End
  <2>6. CASE StoreMessage
    BY <2>2, <2>5, <2>6, StoreStores DEF StoreMessage
  <2>7. CASE FinishFlush
    BY <2>2, <2>5, <2>7, FlushHoldsNothing DEF FinishFlush
  <2>8. CASE ReceiveMessage \/ ReceiveQueueEmpty
    <3>1. UNCHANGED serialQueue \/ \E block : serialQueue' = Append(serialQueue, block)
      BY <2>8 DEF ReceiveMessage, ReceiveQueueEmpty, FlushSerialQueue, dispatches
    <3> QED
      BY <2>3, <2>4, <3>1, <2>2, <2>1
  <2>9. ~SocketRelaunch
    BY DEF SocketRelaunch
  <2> QED
    BY <2>2, <2>3, <2>6, <2>7, <2>8, <2>9, SerialQueueSteps
<1>2. CASE ~(state = "open" /\ e \in sent)
  <2>1. ReceiveMessage
    BY <1>2 DEF SocketNext, ServiceSends, SerialQueueStep, MainQueueStep, Arrive, Connect,
       Close, SocketRelaunch, ReceiveQueueEmpty, StoreMessage, FinishFlush, Acknowledge,
       MarkEmptied, socketVars, socket, service
  <2>2. PICK f \in Envelopes :
            /\ state = "open" /\ IsNextToSend(f) /\ sent' = sent \cup {f}
            /\ serialQueue' = Append(serialQueue, Block("message", f, connection))
    BY <2>1 DEF ReceiveMessage
  <2>3. e = f
    BY <1>2, <2>2
  <2>4. e <= arrived /\ arrived' = arrived
    BY <2>1, <2>2, <2>3, ReceivedInOrder DEF ReceiveMessage
  <2>5. /\ Len(serialQueue') = Len(serialQueue) + 1
        /\ serialQueue'[Len(serialQueue) + 1] = Block("message", f, connection)
        /\ Len(serialQueue) \in Nat
    BY <1>0, <2>2
  <2>6. PICK n \in Nat : n = Len(serialQueue) + 1
    BY <2>5
  <2>7. IsMessage(n, e)' /\ n \in 1 .. Len(serialQueue')
    BY <2>3, <2>5, <2>6 DEF IsMessage, Block
  <2>8. IsStoredBefore(e, End)'
    BY <2>5, <2>7 DEF IsStoredBefore, End
  <2> QED
    BY <2>4, <2>8
<1> QED
  BY <1>1, <1>2

LEMMA QueueInduction ==
    ASSUME SocketTypeOK, DeliveryInv, [SocketNext]_socketVars
    PROVE  QueueIsInOrder'
<1> SUFFICES ASSUME NEW i \in 1 .. Len(serialQueue'), NEW e \in Envelopes,
                    IsMessage(i, e)'
             PROVE  e <= arrived' /\ \A f \in Envelopes : f < e => IsStoredBefore(f, i)'
  BY DEF QueueIsInOrder, IsMessage, IsStoredBefore, IsHandled, Envelopes
<1>0. serialQueue \in Seq(Blocks("message", "flush"))
  BY DEF SocketTypeOK
<1>1. ASSUME NEW k \in 1 .. Len(serialQueue), IsMessage(k, e)
      PROVE  e <= arrived' /\ \A f \in Envelopes : f < e => IsStoredBefore(f, k)
  <2>1. e <= arrived /\ \A f \in Envelopes : f < e => IsStoredBefore(f, k)
    BY <1>1 DEF DeliveryInv, QueueIsInOrder
  <2>2. e \in Nat /\ arrived \in Nat
    BY DEF SocketTypeOK, Envelopes
  <2> QED
    BY <2>1, <2>2, MailboxSteps
<1>2. CASE UNCHANGED serialQueue
  <2>1. i \in 1 .. Len(serialQueue) /\ IsMessage(i, e)
    BY <1>2 DEF IsMessage
  <2>2. ASSUME NEW f, IsStoredBefore(f, i)
        PROVE  IsStoredBefore(f, i)'
    BY <1>2, <2>2, StoredStaysStored DEF IsStoredBefore, IsMessage
  <2> QED
    BY <1>1, <2>1, <2>2
<1>3. CASE SocketRelaunch
  BY <1>3 DEF SocketRelaunch
<1>4. ASSUME NEW block, serialQueue' = Append(serialQueue, block),
             i \in 1 .. Len(serialQueue)
      PROVE  e <= arrived' /\ \A f \in Envelopes : f < e => IsStoredBefore(f, i)'
  <2>1. IsMessage(i, e) /\ i \in 1 .. End
    BY <1>0, <1>4 DEF IsMessage, End
  <2> QED
    BY <1>1, <1>4, <2>1, AppendKeepsOrder
<1>5. ASSUME NEW block, serialQueue' = Append(serialQueue, block),
             i \notin 1 .. Len(serialQueue)
      PROVE  i = End /\ i \in 1 .. End /\ serialQueue'[i] = block
  BY <1>0, <1>5 DEF End
<1>6. CASE ReceiveMessage
  <2>1. PICK m \in Envelopes :
            /\ state = "open" /\ IsNextToSend(m)
            /\ serialQueue' = Append(serialQueue, Block("message", m, connection))
    BY <1>6 DEF ReceiveMessage
  <2>2. CASE i \in 1 .. Len(serialQueue)
    BY <1>4, <2>1, <2>2
  <2>3. CASE i \notin 1 .. Len(serialQueue)
    <3>1. i = End /\ i \in 1 .. End /\ serialQueue'[i] = Block("message", m, connection)
      BY <1>5, <2>1, <2>3
    <3>2. e = m
      BY <3>1 DEF IsMessage, Block
    <3>3. e <= arrived /\ \A f \in Envelopes : f < e => IsStoredBefore(f, i)
      BY <2>1, <3>1, <3>2, ReceivedInOrder
    <3>4. arrived' = arrived
      BY <1>6 DEF ReceiveMessage
    <3> QED
      BY <2>1, <3>1, <3>3, <3>4, AppendKeepsOrder
  <2> QED
    BY <2>2, <2>3
<1>7. CASE ReceiveQueueEmpty /\ ~UNCHANGED serialQueue
  <2>1. serialQueue' = Append(serialQueue, Block("flush", 0, connection))
    BY <1>7 DEF ReceiveQueueEmpty, FlushSerialQueue, dispatches
  <2>2. i \in 1 .. Len(serialQueue)
    BY <1>5, <2>1 DEF IsMessage, Block
  <2> QED
    BY <1>4, <2>1, <2>2
<1>8. ASSUME serialQueue # <<>>, serialQueue' = Tail(serialQueue),
             \A f : IsMessage(1, f) => IsHandled(f)'
      PROVE  e <= arrived' /\ \A f \in Envelopes : f < e => IsStoredBefore(f, i)'
  <2>1. /\ i + 1 \in 1 .. Len(serialQueue) /\ i \in 1 .. Len(serialQueue)
        /\ serialQueue'[i] = serialQueue[i + 1]
    BY <1>0, <1>8
  <2>2. IsMessage(i + 1, e)
    BY <2>1 DEF IsMessage
  <2> QED
    BY <1>1, <1>8, <2>1, <2>2, TailKeepsOrder
<1>9. CASE StoreMessage
  BY <1>8, <1>9, StoreStores DEF StoreMessage
<1>10. CASE FinishFlush
  BY <1>8, <1>10, FlushHoldsNothing DEF FinishFlush
<1> QED
  BY <1>2, <1>3, <1>6, <1>7, <1>9, <1>10, SerialQueueSteps

LEMMA DeliveryInit == SocketInit => DeliveryInv
<1> SUFFICES ASSUME SocketInit PROVE DeliveryInv
  OBVIOUS
<1>1. /\ mailbox = {} /\ sent = {} /\ arrived = 0 /\ state = "closed"
      /\ Len(serialQueue) = 0 /\ Len(mainQueue) = 0 /\ DOMAIN persisted = {}
  BY DEF SocketInit
<1> QED
  BY <1>1 DEF DeliveryInv, MailboxHasArrived, SentIsReceived, QueueIsInOrder,
     AcknowledgedIsStored, NothingLostByAcknowledging, StoredInOrder

LEMMA DeliveryInduction ==
    ASSUME SocketTypeOK, DeliveryInv, [SocketNext]_socketVars
    PROVE  DeliveryInv'
BY NothingLostInduction, AcknowledgedInduction, StoredInOrderInduction, SentInduction,
   QueueInduction DEF DeliveryInv

\* Of every reachable state.
THEOREM DeliveryInvariant == SocketSpec => []DeliveryInv
BY DeliveryInit, DeliveryInduction, SocketTypeCorrect, PTL DEF SocketSpec

\* The service forgets an envelope only when its record is in the database, however
\* often the socket closes, the process is killed and envelopes are delivered again.
THEOREM AcknowledgingLosesNothing == SocketSpec => []NothingLostByAcknowledging
BY DeliveryInvariant, PTL DEF DeliveryInv

\* The first records of the envelopes are in the order the service received them.
THEOREM EnvelopesAreStoredInOrder == SocketSpec => []StoredInOrder
BY DeliveryInvariant, PTL DEF DeliveryInv

------------------------------------------------------------------------------
(***************************************************************************)
(* Emptying the initial queue on the first connection                      *)
(***************************************************************************)

BacklogIsStored == \A e \in backlog : IsHandled(e)

\* Nothing is queued before the first connection, and nothing counts as emptied, or
\* will when a flush ends, while the socket is closed.
EmptyBefore ==
    /\ connection = 0 => serialQueue = <<>> /\ mainQueue = <<>> /\ state = "closed"
    /\ state = "closed" => ~hasEmptiedInitialQueue /\ ~willEmptyInitialQueue

OnFirstConnection == connection = 1 /\ state = "open"

\* On the first connection, no flush is underway before queue/empty came.
NoFlushBeforeQueueEmpty ==
    OnFirstConnection /\ ~toldEmpty =>
        /\ ~hasEmptiedInitialQueue
        /\ \A i \in 1 .. Len(serialQueue) : serialQueue[i].kind # "flush"
        /\ \A i \in 1 .. Len(mainQueue) : mainQueue[i].kind # "emptied"

\* What was sent before queue/empty is stored before its flush runs.
FlushComesLast ==
    OnFirstConnection =>
        \A i \in 1 .. Len(serialQueue) :
            serialQueue[i].kind = "flush" => \A e \in backlog : IsStoredBefore(e, i)

EmptiedIsStored ==
    OnFirstConnection =>
        /\ hasEmptiedInitialQueue => BacklogIsStored
        /\ \A i \in 1 .. Len(mainQueue) : mainQueue[i].kind = "emptied" => BacklogIsStored

FirstConnectionInv ==
    EmptyBefore /\ NoFlushBeforeQueueEmpty /\ FlushComesLast /\ EmptiedIsStored

\* The steps after which the connection, the backlog or the queues are not as before.
LEMMA QuietSteps ==
    ASSUME [SocketNext]_socketVars
    PROVE  \/ /\ UNCHANGED <<socket, serialQueue, toldEmpty, backlog>>
              /\ UNCHANGED mainQueue
           \/ /\ Acknowledge /\ mainQueue # <<>> /\ mainQueue' = Tail(mainQueue)
              /\ UNCHANGED <<socket, serialQueue, toldEmpty, backlog>>
           \/ Connect \/ Close \/ SocketRelaunch \/ ReceiveMessage \/ ReceiveQueueEmpty
           \/ StoreMessage \/ FinishFlush \/ MarkEmptied
BY DEF SocketNext, ServiceSends, SerialQueueStep, MainQueueStep, Arrive, Acknowledge,
   socketVars, service, dispatches, socket

\* The first connection is made with empty queues, and is lost for good when it closes.
LEMMA FirstConnectionSteps ==
    ASSUME SocketTypeOK, FirstConnectionInv, [SocketNext]_socketVars, OnFirstConnection'
    PROVE  \/ /\ Connect /\ serialQueue' = <<>> /\ mainQueue' = <<>>
              /\ ~hasEmptiedInitialQueue' /\ toldEmpty' = FALSE
           \/ OnFirstConnection /\ UNCHANGED <<state, connection>>
<1> USE DEF OnFirstConnection, SocketTypeOK, Connections
<1>1. CASE Connect
  <2>1. connection = 0 /\ state = "closed"
    BY <1>1 DEF Connect
  <2>2. serialQueue = <<>> /\ mainQueue = <<>> /\ ~hasEmptiedInitialQueue
    BY <2>1 DEF FirstConnectionInv, EmptyBefore
  <2> QED
    BY <1>1, <2>2 DEF Connect, dispatches
<1>2. ~Close /\ ~SocketRelaunch
  BY DEF Close, SocketRelaunch
<1>3. CASE UNCHANGED <<state, connection>>
  BY <1>3
<1>4. Connect \/ Close \/ SocketRelaunch \/ UNCHANGED <<state, connection>>
  BY QuietSteps DEF socket, ReceiveMessage, ReceiveQueueEmpty, StoreMessage, FinishFlush,
     MarkEmptied
<1> QED
  BY <1>1, <1>2, <1>3, <1>4

LEMMA EmptyBeforeInduction ==
    ASSUME SocketTypeOK, EmptyBefore, [SocketNext]_socketVars
    PROVE  EmptyBefore'
<1> USE DEF EmptyBefore, SocketTypeOK, Connections
<1>1. CASE UNCHANGED <<socket, serialQueue, mainQueue>>
  BY <1>1 DEF socket
<1>2. CASE Acknowledge /\ mainQueue # <<>>
  BY <1>2 DEF Acknowledge, socket
<1>3. CASE Connect
  BY <1>3 DEF Connect
<1>4. CASE Close
  <2>1. state = "open" /\ state' = "closed" /\ connection' = connection
    BY <1>4 DEF Close
  <2>2. ~hasEmptiedInitialQueue' /\ ~willEmptyInitialQueue'
    BY <1>4, Zenon DEF Close, ForgetEmptying
  <2> QED
    BY <2>1, <2>2
<1>5. CASE SocketRelaunch
  <2>1. serialQueue' = <<>> /\ mainQueue' = <<>> /\ state' = "closed"
    BY <1>5 DEF SocketRelaunch
  <2>2. ~hasEmptiedInitialQueue' /\ ~willEmptyInitialQueue'
    BY <1>5, Zenon DEF SocketRelaunch
  <2> QED
    BY <2>1, <2>2
<1>6. CASE ReceiveMessage \/ ReceiveQueueEmpty
  <2>1. state = "open" /\ UNCHANGED <<state, connection>>
    BY <1>6 DEF ReceiveMessage, ReceiveQueueEmpty, socket
  <2> QED
    BY <2>1
<1>7. CASE StoreMessage \/ FinishFlush
  <2>1. serialQueue # <<>> /\ UNCHANGED socket
    BY <1>7 DEF StoreMessage, FinishFlush
  <2> QED
    BY <2>1 DEF socket
<1>8. CASE MarkEmptied
  <2>1. mainQueue # <<>> /\ UNCHANGED <<state, connection>>
    BY <1>8 DEF MarkEmptied
  <2>2. CASE state = "open"
    BY <2>1, <2>2
  <2>3. CASE state = "closed"
    <3>1. ~hasEmptiedInitialQueue /\ ~willEmptyInitialQueue
      BY <2>3
    <3>2. ~hasEmptiedInitialQueue' /\ ~willEmptyInitialQueue'
      BY <1>8, <3>1, Zenon DEF MarkEmptied, EmptyIfExpected
    <3> QED
      BY <2>1, <2>3, <3>2
  <2> QED
    BY <2>2, <2>3
<1> QED
  BY <1>1, <1>2, <1>3, <1>4, <1>5, <1>6, <1>7, <1>8, QuietSteps

LEMMA NoFlushInduction ==
    ASSUME SocketTypeOK, FirstConnectionInv, [SocketNext]_socketVars
    PROVE  NoFlushBeforeQueueEmpty'
<1> SUFFICES ASSUME OnFirstConnection', ~toldEmpty'
             PROVE  /\ ~hasEmptiedInitialQueue'
                    /\ \A i \in 1 .. Len(serialQueue') : serialQueue'[i].kind # "flush"
                    /\ \A i \in 1 .. Len(mainQueue') : mainQueue'[i].kind # "emptied"
  BY DEF NoFlushBeforeQueueEmpty
<1>0. serialQueue \in Seq(Blocks("message", "flush"))
      /\ mainQueue \in Seq(Blocks("acknowledge", "emptied"))
  BY DEF SocketTypeOK
<1>1. CASE Connect
  <2>1. serialQueue' = <<>> /\ mainQueue' = <<>> /\ ~hasEmptiedInitialQueue'
    BY <1>1, FirstConnectionSteps DEF Connect
  <2>2. Len(serialQueue') = 0 /\ Len(mainQueue') = 0
    BY <2>1
  <2> QED
    BY <2>1, <2>2
<1>2. CASE ~Connect
  <2>1. OnFirstConnection
    BY <1>2, FirstConnectionSteps
  <2>2. ASSUME ~toldEmpty
        PROVE  /\ ~hasEmptiedInitialQueue
               /\ \A i \in 1 .. Len(serialQueue) : serialQueue[i].kind # "flush"
               /\ \A i \in 1 .. Len(mainQueue) : mainQueue[i].kind # "emptied"
    BY <2>1, <2>2 DEF FirstConnectionInv, NoFlushBeforeQueueEmpty
  <2>3. CASE UNCHANGED <<socket, serialQueue, toldEmpty, backlog, mainQueue>>
    BY <2>2, <2>3 DEF socket
  <2>4. CASE Acknowledge /\ mainQueue # <<>> /\ mainQueue' = Tail(mainQueue)
    <3>1. UNCHANGED <<hasEmptiedInitialQueue, serialQueue, toldEmpty>>
      BY <2>4 DEF Acknowledge, socket
    <3>2. \A i \in 1 .. Len(mainQueue') :
            i + 1 \in 1 .. Len(mainQueue) /\ mainQueue'[i] = mainQueue[i + 1]
      BY <1>0, <2>4
    <3> QED
      BY <2>2, <3>1, <3>2
  <2>5. CASE ReceiveMessage
    <3>1. UNCHANGED <<hasEmptiedInitialQueue, mainQueue, toldEmpty>>
      BY <2>5 DEF ReceiveMessage, socket
    <3>2. PICK m : serialQueue' = Append(serialQueue, Block("message", m, connection))
      BY <2>5 DEF ReceiveMessage
    <3>3. \A i \in 1 .. Len(serialQueue') :
            \/ i \in 1 .. Len(serialQueue) /\ serialQueue'[i] = serialQueue[i]
            \/ serialQueue'[i] = Block("message", m, connection)
      BY <1>0, <3>2
    <3>4. Block("message", m, connection).kind # "flush"
      BY DEF Block
    <3> QED
      BY <2>2, <3>1, <3>3, <3>4
  <2>6. ~ReceiveQueueEmpty
    BY DEF ReceiveQueueEmpty
  <2>7. CASE StoreMessage
    <3>1. UNCHANGED <<hasEmptiedInitialQueue, toldEmpty>>
      BY <2>7 DEF StoreMessage, socket, service
    <3>2. PICK block : /\ block = [Head(serialQueue) EXCEPT !.kind = "acknowledge"]
                       /\ mainQueue' = Append(mainQueue, block)
      BY <2>7 DEF StoreMessage, DispatchAcknowledgement
    <3>3. Head(serialQueue) \in Blocks("message", "flush")
      BY <1>0, <2>7 DEF StoreMessage
    <3>4. block.kind # "emptied"
      BY <2>7, <3>2, <3>3, MessageBlocks DEF StoreMessage
    <3>5. \A i \in 1 .. Len(mainQueue') :
            \/ i \in 1 .. Len(mainQueue) /\ mainQueue'[i] = mainQueue[i]
            \/ mainQueue'[i] = block
      BY <1>0, <3>2
    <3>6. \A i \in 1 .. Len(serialQueue') :
            i + 1 \in 1 .. Len(serialQueue) /\ serialQueue'[i] = serialQueue[i + 1]
      BY <1>0, <2>7 DEF StoreMessage
    <3> QED
      BY <2>2, <3>1, <3>4, <3>5, <3>6
  <2>8. CASE FinishFlush
    <3>1. toldEmpty' = toldEmpty
      BY <2>8 DEF FinishFlush, service
    <3>2. 1 \in 1 .. Len(serialQueue) /\ serialQueue[1].kind = "flush"
      BY <1>0, <2>8 DEF FinishFlush
    <3> QED
      BY <2>2, <3>1, <3>2
  <2>9. CASE MarkEmptied
    <3>1. toldEmpty' = toldEmpty
      BY <2>9 DEF MarkEmptied, service
    <3>2. 1 \in 1 .. Len(mainQueue) /\ mainQueue[1].kind = "emptied"
      BY <1>0, <2>9 DEF MarkEmptied
    <3> QED
      BY <2>2, <3>1, <3>2
  <2>10. ~Close /\ ~SocketRelaunch
    BY DEF Close, SocketRelaunch, OnFirstConnection
  <2> QED
    BY <1>2, <2>3, <2>4, <2>5, <2>6, <2>7, <2>8, <2>9, <2>10, QuietSteps
<1> QED
  BY <1>1, <1>2

LEMMA FlushInduction ==
    ASSUME SocketTypeOK, DeliveryInv, FirstConnectionInv, [SocketNext]_socketVars
    PROVE  FlushComesLast'
<1> SUFFICES ASSUME OnFirstConnection', NEW i \in 1 .. Len(serialQueue'),
                    serialQueue'[i].kind = "flush", NEW e \in backlog'
             PROVE  IsStoredBefore(e, i)'
  BY DEF FlushComesLast, IsStoredBefore, IsHandled, IsMessage
<1>0. serialQueue \in Seq(Blocks("message", "flush"))
  BY DEF SocketTypeOK
<1>1. CASE Connect
  BY <1>1, FirstConnectionSteps DEF Connect
<1>2. CASE ~Connect
  <2>1. OnFirstConnection
    BY <1>2, FirstConnectionSteps
  <2>2. ASSUME NEW k \in 1 .. Len(serialQueue), serialQueue[k].kind = "flush",
               e \in backlog
        PROVE  IsStoredBefore(e, k)
    BY <2>1, <2>2 DEF FirstConnectionInv, FlushComesLast
  <2>3. CASE UNCHANGED serialQueue /\ UNCHANGED backlog
    <3>1. IsStoredBefore(e, i)
      BY <2>2, <2>3
    <3> QED
      BY <2>3, <3>1, StoredStaysStored DEF IsStoredBefore, IsMessage
  <2>4. CASE ReceiveMessage
    <3>1. PICK m : serialQueue' = Append(serialQueue, Block("message", m, connection))
      BY <2>4 DEF ReceiveMessage
    <3>2. i \in 1 .. Len(serialQueue) /\ serialQueue'[i] = serialQueue[i]
      BY <1>0, <3>1 DEF Block
    <3>3. backlog' = backlog
      BY <2>4 DEF ReceiveMessage
    <3>4. IsStoredBefore(e, i) /\ i \in 1 .. End
      BY <1>0, <2>2, <3>2, <3>3 DEF End
    <3> QED
      BY <3>1, <3>4, AppendKeepsOrder
  <2>5. CASE ReceiveQueueEmpty
    <3>1. /\ ~hasEmptiedInitialQueue
          /\ \A k \in 1 .. Len(serialQueue) : serialQueue[k].kind # "flush"
      BY <2>1, <2>5 DEF ReceiveQueueEmpty, FirstConnectionInv, NoFlushBeforeQueueEmpty
    <3>2. serialQueue' = Append(serialQueue, Block("flush", 0, connection))
      BY <2>5, <3>1 DEF ReceiveQueueEmpty, FlushSerialQueue
    <3>3. i = End /\ i \in 1 .. End
      BY <1>0, <3>1, <3>2 DEF End
    <3>4. e \in sent
      BY <2>5 DEF ReceiveQueueEmpty
    <3>5. IsStoredBefore(e, i)
      BY <2>1, <3>3, <3>4 DEF DeliveryInv, SentIsReceived, OnFirstConnection
    <3> QED
      BY <3>2, <3>3, <3>5, AppendKeepsOrder
  <2>6. ASSUME serialQueue # <<>>, serialQueue' = Tail(serialQueue), backlog' = backlog,
               \A f : IsMessage(1, f) => IsHandled(f)'
        PROVE  IsStoredBefore(e, i)'
    <3>1. /\ i + 1 \in 1 .. Len(serialQueue) /\ i \in 1 .. Len(serialQueue)
          /\ serialQueue'[i] = serialQueue[i + 1]
      BY <1>0, <2>6
    <3>2. IsStoredBefore(e, i + 1)
      BY <2>2, <2>6, <3>1
    <3> QED
      BY <2>6, <3>1, <3>2, TailKeepsOrder
  <2>7. CASE StoreMessage
    BY <2>6, <2>7, StoreStores DEF StoreMessage, service
  <2>8. CASE FinishFlush
    BY <2>6, <2>8, FlushHoldsNothing DEF FinishFlush, service
  <2>9. CASE Close \/ SocketRelaunch
    BY <2>9 DEF Close, SocketRelaunch, OnFirstConnection
  <2>10. CASE MarkEmptied
    BY <2>3, <2>10 DEF MarkEmptied, service
  <2> QED
    BY <1>2, <2>3, <2>4, <2>5, <2>7, <2>8, <2>9, <2>10, QuietSteps
<1> QED
  BY <1>1, <1>2

LEMMA EmptiedInduction ==
    ASSUME SocketTypeOK, FirstConnectionInv, [SocketNext]_socketVars
    PROVE  EmptiedIsStored'
<1> SUFFICES ASSUME OnFirstConnection',
                    \/ hasEmptiedInitialQueue'
                    \/ \E i \in 1 .. Len(mainQueue') : mainQueue'[i].kind = "emptied"
             PROVE  BacklogIsStored'
  BY DEF EmptiedIsStored
<1>0. serialQueue \in Seq(Blocks("message", "flush"))
      /\ mainQueue \in Seq(Blocks("acknowledge", "emptied"))
  BY DEF SocketTypeOK
<1>1. ~Connect
  <2>1. SUFFICES ASSUME Connect PROVE FALSE
    OBVIOUS
  <2>2. mainQueue' = <<>> /\ ~hasEmptiedInitialQueue'
    BY <2>1, FirstConnectionSteps DEF Connect
  <2> QED
    BY <2>2
<1>2. OnFirstConnection
  BY <1>1, FirstConnectionSteps
<1>3. ASSUME backlog' = backlog, BacklogIsStored
      PROVE  BacklogIsStored'
  BY <1>3, StoredStaysStored DEF BacklogIsStored, IsHandled
<1>4. ASSUME NEW k \in 1 .. Len(mainQueue), mainQueue[k].kind = "emptied"
      PROVE  BacklogIsStored
  BY <1>2, <1>4 DEF FirstConnectionInv, EmptiedIsStored
<1>5. ASSUME hasEmptiedInitialQueue
      PROVE  BacklogIsStored
  BY <1>2, <1>5 DEF FirstConnectionInv, EmptiedIsStored
<1>6. ASSUME backlog' = backlog, UNCHANGED hasEmptiedInitialQueue,
             \A i \in 1 .. Len(mainQueue') : mainQueue'[i].kind = "emptied" =>
                \E k \in 1 .. Len(mainQueue) : mainQueue[k].kind = "emptied"
      PROVE  BacklogIsStored'
  BY <1>3, <1>4, <1>5, <1>6
<1>7. CASE UNCHANGED <<socket, backlog, mainQueue>>
  BY <1>6, <1>7 DEF socket
<1>8. CASE Acknowledge /\ mainQueue # <<>> /\ mainQueue' = Tail(mainQueue)
  <2>1. \A i \in 1 .. Len(mainQueue') :
            i + 1 \in 1 .. Len(mainQueue) /\ mainQueue'[i] = mainQueue[i + 1]
    BY <1>0, <1>8
  <2> QED
    BY <1>6, <1>8, <2>1 DEF Acknowledge, socket
<1>9. CASE ReceiveMessage
  BY <1>6, <1>9 DEF ReceiveMessage, socket
<1>10. CASE ReceiveQueueEmpty
  <2>1. /\ ~hasEmptiedInitialQueue
        /\ \A k \in 1 .. Len(mainQueue) : mainQueue[k].kind # "emptied"
    BY <1>2, <1>10 DEF ReceiveQueueEmpty, FirstConnectionInv, NoFlushBeforeQueueEmpty
  <2>2. UNCHANGED <<hasEmptiedInitialQueue, mainQueue>>
    BY <1>10, <2>1 DEF ReceiveQueueEmpty, FlushSerialQueue
  <2> QED
    BY <2>1, <2>2
<1>11. CASE StoreMessage
  <2>1. PICK block : /\ block = [Head(serialQueue) EXCEPT !.kind = "acknowledge"]
                     /\ mainQueue' = Append(mainQueue, block)
    BY <1>11 DEF StoreMessage, DispatchAcknowledgement
  <2>2. Head(serialQueue) \in Blocks("message", "flush")
    BY <1>0, <1>11 DEF StoreMessage
  <2>3. block.kind # "emptied"
    BY <1>11, <2>1, <2>2, MessageBlocks DEF StoreMessage
  <2>4. \A i \in 1 .. Len(mainQueue') :
            \/ i \in 1 .. Len(mainQueue) /\ mainQueue'[i] = mainQueue[i]
            \/ mainQueue'[i] = block
    BY <1>0, <2>1
  <2>5. backlog' = backlog /\ UNCHANGED hasEmptiedInitialQueue
    BY <1>11 DEF StoreMessage, service, socket
  <2> QED
    BY <1>6, <2>3, <2>4, <2>5
<1>12. CASE FinishFlush
  <2>1. 1 \in 1 .. Len(serialQueue) /\ serialQueue[1].kind = "flush"
    BY <1>0, <1>12 DEF FinishFlush
  <2>2. \A e \in backlog : IsStoredBefore(e, 1)
    BY <1>2, <2>1 DEF FirstConnectionInv, FlushComesLast
  <2>3. BacklogIsStored
    BY <2>2 DEF BacklogIsStored, IsStoredBefore
  <2> QED
    BY <1>3, <1>12, <2>3 DEF FinishFlush, service
<1>13. CASE MarkEmptied
  <2>1. 1 \in 1 .. Len(mainQueue) /\ mainQueue[1].kind = "emptied"
    BY <1>0, <1>13 DEF MarkEmptied
  <2> QED
    BY <1>3, <1>4, <1>13, <2>1 DEF MarkEmptied, service
<1>14. ~Close /\ ~SocketRelaunch
  BY DEF Close, SocketRelaunch, OnFirstConnection
<1> QED
  BY <1>1, <1>7, <1>8, <1>9, <1>10, <1>11, <1>12, <1>13, <1>14, QuietSteps

\* On the first connection of a process, what the service sent before queue/empty is
\* stored by the time the initial queue is reported as emptied.
THEOREM FirstConnectionEmptiesTheQueue == SocketSpec => []FirstConnectionEmptied
<1>1. SocketInit => FirstConnectionInv
  <2> SUFFICES ASSUME SocketInit PROVE FirstConnectionInv
    OBVIOUS
  <2>1. /\ connection = 0 /\ state = "closed" /\ serialQueue = <<>> /\ mainQueue = <<>>
        /\ ~hasEmptiedInitialQueue /\ ~willEmptyInitialQueue
    BY DEF SocketInit
  <2> QED
    BY <2>1 DEF FirstConnectionInv, EmptyBefore, NoFlushBeforeQueueEmpty, FlushComesLast,
       EmptiedIsStored, OnFirstConnection
<1>2. /\ SocketTypeOK /\ DeliveryInv /\ FirstConnectionInv
      /\ [SocketNext]_socketVars
      => FirstConnectionInv'
  BY EmptyBeforeInduction, NoFlushInduction, FlushInduction, EmptiedInduction
     DEF FirstConnectionInv
<1>3. SocketTypeOK /\ FirstConnectionInv => FirstConnectionEmptied
  BY DEF SocketTypeOK, FirstConnectionInv, EmptyBefore, EmptiedIsStored, OnFirstConnection,
     BacklogIsStored, FirstConnectionEmptied
<1> QED
  BY <1>1, <1>2, <1>3, SocketTypeCorrect, DeliveryInvariant, PTL DEF SocketSpec
==============================================================================
