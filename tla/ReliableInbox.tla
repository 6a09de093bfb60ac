---------------------------- MODULE ReliableInbox ----------------------------
(***************************************************************************)
(* What the receive path promises, without connections, records, sessions, *)
(* batches or restarts: to the service, which forgets an envelope for good *)
(* when it is told to, and to the code that processes messages.            *)
(*                                                                         *)
(*   - an envelope is forgotten only when the app holds it or has no use   *)
(*     for it, and what the app holds it never loses;                      *)
(*   - what it holds it delivers in the order of arrival, to the end of a  *)
(*     log that is otherwise never changed: what must not be delivered     *)
(*     twice once, anything else perhaps again;                            *)
(*   - what is in the log is processed from its beginning.                 *)
(*                                                                         *)
(* ReceivePipeline is shown to implement this module.                      *)
(***************************************************************************)
EXTENDS Naturals, Sequences

CONSTANTS
    MaxEnvelopes,   \* bound: how many envelopes are ever sent to this device
    Wanted,         \* the envelopes with something to process in them
    Unique          \* the envelopes that must not be delivered twice

VARIABLES
    arrived,        \* how many envelopes the service has received
    mailbox,        \* those it has not forgotten
    held,           \* the wanted ones that the app answers for
    log,            \* what was delivered, in order
    cursor          \* how much of it was processed

vars == <<arrived, mailbox, held, log, cursor>>

InLog(e) == \E p \in 1 .. Len(log) : log[p] = e

Init ==
    /\ arrived = 0
    /\ mailbox = {}
    /\ held = {}
    /\ log = <<>>
    /\ cursor = 0

Arrive ==
    /\ arrived < MaxEnvelopes
    /\ arrived' = arrived + 1
    /\ mailbox' = mailbox \cup {arrived + 1}
    /\ UNCHANGED <<held, log, cursor>>

Hold(e) ==
    /\ e \in (Wanted \cap mailbox) \ held
    /\ \A f \in Wanted : f < e => f \in held
    /\ held' = held \cup {e}
    /\ UNCHANGED <<arrived, mailbox, log, cursor>>

Forget(e) ==
    /\ e \in mailbox
    /\ e \in Wanted => e \in held
    /\ mailbox' = mailbox \ {e}
    /\ UNCHANGED <<arrived, held, log, cursor>>

Deliver(e) ==
    /\ e \in held
    /\ e \in Unique => ~InLog(e)
    /\ \A f \in Wanted : f < e => InLog(f)
    /\ log' = Append(log, e)
    /\ UNCHANGED <<arrived, mailbox, held, cursor>>

Process(n) ==
    /\ cursor + n <= Len(log)
    /\ cursor' = cursor + n
    /\ UNCHANGED <<arrived, mailbox, held, log>>

Next ==
    \/ Arrive
    \/ \E e \in 1 .. MaxEnvelopes : Hold(e) \/ Forget(e) \/ Deliver(e)
    \/ \E n \in 1 .. Len(log) : Process(n)

Spec == Init /\ [][Next]_vars
==============================================================================
