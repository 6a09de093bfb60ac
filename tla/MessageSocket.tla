---------------------------- MODULE MessageSocket ----------------------------
(***************************************************************************)
(* How envelopes leave the service's mailbox (OWSWebSocket.m).             *)
(*                                                                         *)
(* Envelopes are numbered in the order the service receives them.  The     *)
(* service keeps an envelope until it is acknowledged and sends, on every  *)
(* new connection, all it keeps, then the message queue/empty, then what   *)
(* arrives.  The socket hands every envelope to a serial dispatch queue,   *)
(* which inserts a record for it and only then has the main queue          *)
(* acknowledge it.  queue/empty goes through the same two queues.          *)
(*                                                                         *)
(* "connecting" is part of "closed": no message is delivered in either.    *)
(***************************************************************************)
EXTENDS Naturals, Sequences

CONSTANTS
    MaxEnvelopes,       \* bound: how many envelopes are ever sent to this device
    Discarded,          \* envelopes handleReceivedEnvelopeData drops (empty, oversize)
    Unreadable,         \* envelopes that cannot be decrypted, have a bad HMAC or throw
    MaxConnections,     \* bound: connections in one life of the process
    MaxLaunches         \* bound: how often the process is launched

Envelopes == 1 .. MaxEnvelopes

ASSUME SocketBoundsAssumption ==
    /\ MaxEnvelopes \in Nat
    /\ MaxConnections \in Nat
    /\ MaxLaunches \in Nat

ASSUME DroppedAssumption == Discarded \subseteq Envelopes /\ Unreadable \subseteq Envelopes

\* The envelopes that get no record.
Dropped == Discarded \cup Unreadable

VARIABLES
    \* the service
    arrived,            \* how many envelopes it has received
    mailbox,            \* those that are not acknowledged
    sent,               \* those sent on the current connection
    toldEmpty,          \* whether queue/empty was sent on the current connection
    backlog,            \* what was sent on it before queue/empty
    \* the socket
    state,
    connection,         \* the number of the current connection in this launch
    hasEmptiedInitialQueue,
    willEmptyInitialQueue,
    serialQueue,        \* its pending blocks
    mainQueue,          \* the blocks the serial queue has dispatched to the main queue
    \* the database
    persisted,          \* the envelopes of the decrypt job records, in insertion order
    \* the user
    reported,           \* the envelopes for which a corrupted message was notified
    \* history
    launches

service    == <<arrived, mailbox, sent, toldEmpty, backlog>>
socket     == <<state, connection, hasEmptiedInitialQueue, willEmptyInitialQueue>>
dispatches == <<serialQueue, mainQueue>>
socketVars == <<service, socket, dispatches, persisted, reported, launches>>

Connections == 0 .. MaxConnections

\* The block that stores a message, the one that acknowledges it, and the two of
\* queue/empty.
Block(kind, e, c) == [kind |-> kind, envelope |-> e, connection |-> c]

Blocks(ofMessage, ofQueueEmpty) ==
         [kind : {ofMessage}, envelope : Envelopes, connection : Connections]
    \cup [kind : {ofQueueEmpty}, envelope : {0}, connection : Connections]

SocketTypeOK ==
    /\ arrived \in 0 .. MaxEnvelopes
    /\ mailbox \subseteq Envelopes
    /\ sent \subseteq Envelopes
    /\ toldEmpty \in BOOLEAN
    /\ backlog \subseteq Envelopes
    /\ state \in {"closed", "open"}
    /\ connection \in Connections
    /\ hasEmptiedInitialQueue \in BOOLEAN
    /\ willEmptyInitialQueue \in BOOLEAN
    /\ serialQueue \in Seq(Blocks("message", "flush"))
    /\ mainQueue \in Seq(Blocks("acknowledge", "emptied"))
    /\ persisted \in Seq(Envelopes)
    /\ reported \subseteq Unreadable
    /\ launches \in Nat

SocketInit ==
    /\ arrived = 0
    /\ mailbox = {}
    /\ sent = {}
    /\ toldEmpty = FALSE
    /\ backlog = {}
    /\ state = "closed"
    /\ connection = 0
    /\ hasEmptiedInitialQueue = FALSE
    /\ willEmptyInitialQueue = FALSE
    /\ serialQueue = <<>>
    /\ mainQueue = <<>>
    /\ persisted = <<>>
    /\ reported = {}
    /\ launches = 1

------------------------------------------------------------------------------
\* The service

Arrive ==
    /\ arrived < MaxEnvelopes
    /\ arrived' = arrived + 1
    /\ mailbox' = mailbox \cup {arrived + 1}
    /\ UNCHANGED <<sent, toldEmpty, backlog, socket, dispatches, persisted, reported, launches>>

\* The service sends the envelopes it keeps in order, each once on a connection.
IsNextToSend(e) ==
    /\ e \in mailbox \ sent
    /\ \A f \in mailbox \ sent : e <= f

------------------------------------------------------------------------------
\* The connection

Connect ==
    /\ state = "closed"
    /\ connection < MaxConnections
    /\ state' = "open"
    /\ connection' = connection + 1
    /\ sent' = {}
    /\ toldEmpty' = FALSE
    /\ backlog' = {}
    /\ UNCHANGED <<arrived, mailbox, hasEmptiedInitialQueue, willEmptyInitialQueue,
                   dispatches, persisted, reported, launches>>

\* What setState does on every change to another state than open.
ForgetEmptying ==
    /\ hasEmptiedInitialQueue' = FALSE
    /\ willEmptyInitialQueue' = FALSE

\* The app closes the socket, or learns that it was closed.  Bound: the last
\* connection of a process stays open.
Close ==
    /\ state = "open"
    /\ connection < MaxConnections
    /\ state' = "closed"
    /\ ForgetEmptying
    /\ UNCHANGED <<service, connection, dispatches, persisted, reported, launches>>

\* The process is killed at any moment: the records and the mailbox survive.
SocketRelaunch ==
    /\ launches < MaxLaunches
    /\ launches' = launches + 1
    /\ state' = "closed"
    /\ connection' = 0
    /\ hasEmptiedInitialQueue' = FALSE
    /\ willEmptyInitialQueue' = FALSE
    /\ serialQueue' = <<>>
    /\ mainQueue' = <<>>
    /\ UNCHANGED <<service, persisted, reported>>

------------------------------------------------------------------------------
\* processWebSocketRequestMessage

\* Mutant: the message is acknowledged as it comes, not when it is stored.
ReceiveAcknowledgesFirst ==
    \E e \in Envelopes :
        /\ state = "open"
        /\ IsNextToSend(e)
        /\ sent' = sent \cup {e}
        /\ serialQueue' = Append(serialQueue, Block("message", e, connection))
        /\ mainQueue' = Append(mainQueue, Block("acknowledge", e, connection))
        /\ UNCHANGED <<arrived, mailbox, toldEmpty, backlog, socket, persisted, reported, launches>>

\* Mutant: messages are dispatched to a concurrent queue.
ReceiveConcurrently ==
    \E e \in Envelopes :
        /\ state = "open"
        /\ IsNextToSend(e)
        /\ sent' = sent \cup {e}
        /\ \/ serialQueue' = Append(serialQueue, Block("message", e, connection))
           \/ serialQueue' = <<Block("message", e, connection)>> \o serialQueue
        /\ UNCHANGED <<arrived, mailbox, toldEmpty, backlog, socket, mainQueue,
                       persisted, reported, launches>>

ReceiveMessage ==
    \E e \in Envelopes :
        /\ state = "open"
        /\ IsNextToSend(e)
        /\ sent' = sent \cup {e}
        /\ serialQueue' = Append(serialQueue, Block("message", e, connection))
        /\ UNCHANGED <<arrived, mailbox, toldEmpty, backlog, socket, mainQueue,
                       persisted, reported, launches>>

\* Mutant: queue/empty does not wait for the serial queue.
EmptiedWithoutFlush ==
    /\ mainQueue' = Append(mainQueue, Block("emptied", 0, connection))
    /\ UNCHANGED serialQueue

\* The flush that queue/empty has the serial queue do.
FlushSerialQueue ==
    /\ serialQueue' = Append(serialQueue, Block("flush", 0, connection))
    /\ UNCHANGED mainQueue

ReceiveQueueEmpty ==
    /\ state = "open"
    /\ ~toldEmpty
    /\ mailbox \subseteq sent
    /\ toldEmpty' = TRUE
    /\ backlog' = sent
    /\ IF hasEmptiedInitialQueue
       THEN UNCHANGED <<willEmptyInitialQueue, dispatches>>
       ELSE /\ willEmptyInitialQueue' = TRUE
            /\ FlushSerialQueue
    /\ UNCHANGED <<arrived, mailbox, sent, state, connection, hasEmptiedInitialQueue,
                   persisted, reported, launches>>

------------------------------------------------------------------------------
\* The blocks

\* handleReceivedEnvelopeData: one record for each envelope it does not drop.
Stored(e) == IF e \in Dropped THEN persisted ELSE Append(persisted, e)

\* Without a payload, and after the catch block: the user is told.
Reported(e) == IF e \in Unreadable THEN reported \cup {e} ELSE reported

\* Mutant: only what was stored is acknowledged.
DispatchIfStored(block) ==
    mainQueue' = IF block.envelope \in Dropped
                 THEN mainQueue
                 ELSE Append(mainQueue, [block EXCEPT !.kind = "acknowledge"])

DispatchAcknowledgement(block) ==
    mainQueue' = Append(mainQueue, [block EXCEPT !.kind = "acknowledge"])

StoreMessage ==
    /\ serialQueue # <<>>
    /\ Head(serialQueue).kind = "message"
    /\ persisted' = Stored(Head(serialQueue).envelope)
    /\ reported' = Reported(Head(serialQueue).envelope)
    /\ DispatchAcknowledgement(Head(serialQueue))
    /\ serialQueue' = Tail(serialQueue)
    /\ UNCHANGED <<service, socket, launches>>

FinishFlush ==
    /\ serialQueue # <<>>
    /\ Head(serialQueue).kind = "flush"
    /\ serialQueue' = Tail(serialQueue)
    /\ mainQueue' = Append(mainQueue, [Head(serialQueue) EXCEPT !.kind = "emptied"])
    /\ UNCHANGED <<service, socket, persisted, reported, launches>>

\* sendWebSocketMessageAcknowledgement: the answer goes out on the socket of the
\* moment and means something to the service only on the connection of its request.
Acknowledge ==
    /\ mainQueue # <<>>
    /\ Head(mainQueue).kind = "acknowledge"
    /\ LET block == Head(mainQueue) IN
        mailbox' = IF state = "open" /\ block.connection = connection
                   THEN mailbox \ {block.envelope}
                   ELSE mailbox
    /\ mainQueue' = Tail(mainQueue)
    /\ UNCHANGED <<arrived, sent, toldEmpty, backlog, socket, serialQueue, persisted, reported,
                   launches>>

EmptyIfExpected ==
    /\ hasEmptiedInitialQueue' = (hasEmptiedInitialQueue \/ willEmptyInitialQueue)
    /\ willEmptyInitialQueue' = FALSE

MarkEmptied ==
    /\ mainQueue # <<>>
    /\ Head(mainQueue).kind = "emptied"
    /\ EmptyIfExpected
    /\ mainQueue' = Tail(mainQueue)
    /\ UNCHANGED <<service, state, connection, serialQueue, persisted, reported, launches>>

------------------------------------------------------------------------------

SerialQueueStep == StoreMessage \/ FinishFlush
MainQueueStep   == Acknowledge \/ MarkEmptied
ServiceSends    == ReceiveMessage \/ ReceiveQueueEmpty

SocketNext ==
    \/ Arrive
    \/ Connect \/ Close \/ SocketRelaunch
    \/ ServiceSends
    \/ SerialQueueStep
    \/ MainQueueStep

\* The reconnect timer connects again, the service sends what it keeps, and both
\* queues run their blocks.
SocketFairness ==
    /\ WF_socketVars(Connect)
    /\ WF_socketVars(ServiceSends)
    /\ WF_socketVars(SerialQueueStep)
    /\ WF_socketVars(MainQueueStep)

SocketSpec == SocketInit /\ [][SocketNext]_socketVars /\ SocketFairness

------------------------------------------------------------------------------
(***************************************************************************)
(* Properties                                                              *)
(***************************************************************************)

\* Stored, unless it is dropped on purpose or the user was told that it is unreadable.
IsHandled(e) ==
    e \in Discarded \/ e \in reported \/ \E i \in DOMAIN persisted : persisted[i] = e

\* "Persist ASAP to prevent data loss": the service forgets an envelope only when
\* its record is in the database, or when the user was told that there will be none,
\* whatever is delivered twice, closed or killed.
NothingLostByAcknowledging ==
    \A e \in 1 .. arrived : e \notin mailbox => IsHandled(e)

\* The first record of every envelope is inserted in the order the service received
\* the envelopes, across redelivery on other connections and by other processes.
StoredInOrder ==
    \A i \in DOMAIN persisted : \A e \in Envelopes \ Dropped :
        e < persisted[i] => \E k \in 1 .. i : persisted[k] = e

\* On the first connection of a process, everything the service sent before
\* queue/empty is stored by the time the initial queue is reported as emptied.
FirstConnectionEmptied ==
    connection = 1 /\ hasEmptiedInitialQueue => \A e \in backlog : IsHandled(e)

\* "We need to flush the serial queue to ensure that all received messages are
\* enqueued by the message receiver before we: a) mark the queue as empty."
\* (OWSWebSocket.m:837)
EmptiedMeansStored ==
    hasEmptiedInitialQueue => \A e \in backlog : IsHandled(e)

\* Every envelope is acknowledged in the end.
EveryEnvelopeAcknowledged ==
    \A e \in Envelopes : e \in mailbox ~> e \notin mailbox
==============================================================================
