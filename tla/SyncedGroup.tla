----------------------------- MODULE SyncedGroup -----------------------------
(***************************************************************************)
(* What the updates of a group promise to the queue of messages that need  *)
(* them, without operations, retries, timeouts, caches or snapshots:       *)
(*                                                                         *)
(*   - the local model goes forward, and never beyond the service;         *)
(*   - messages are settled one by one, in the order of their arrival, and *)
(*     what is settled remains so;                                         *)
(*   - one that is settled is processed, once the model has reached the    *)
(*     revision it names, or discarded.                                    *)
(*                                                                         *)
(* GroupV2Updates is shown to implement this module.                       *)
(***************************************************************************)
EXTENDS Naturals, Sequences

CONSTANTS
    MaxRevision,        \* bound: the last revision the group reaches
    MessageRevision     \* the revision that each message names

VARIABLES
    serviceRevision,
    revision,           \* of the local model, 0 if there is none
    arrived,            \* how many messages have come
    settled,            \* how many of them need no further care
    processed

vars == <<serviceRevision, revision, arrived, settled, processed>>

Init ==
    /\ serviceRevision = 1
    /\ revision \in {0, 1}
    /\ arrived = 0
    /\ settled = 0
    /\ processed = {}

GroupIsChanged ==
    /\ serviceRevision < MaxRevision
    /\ serviceRevision' = serviceRevision + 1
    /\ UNCHANGED <<revision, arrived, settled, processed>>

Arrive ==
    /\ arrived < Len(MessageRevision)
    /\ MessageRevision[arrived + 1] <= serviceRevision
    /\ arrived' = arrived + 1
    /\ UNCHANGED <<serviceRevision, revision, settled, processed>>

\* The model may be written in the step that settles a message.
GoesForward ==
    /\ revision' \in revision .. serviceRevision
    /\ UNCHANGED serviceRevision

Update == GoesForward /\ UNCHANGED <<arrived, settled, processed>>

Settle ==
    /\ settled < arrived
    /\ settled' = settled + 1
    /\ GoesForward
    /\ UNCHANGED arrived

Discard == Settle /\ UNCHANGED processed

Process ==
    /\ Settle
    /\ processed' = processed \cup {settled + 1}
    /\ MessageRevision[settled + 1] <= revision'

Next == GroupIsChanged \/ Arrive \/ Update \/ Discard \/ Process

Spec == Init /\ [][Next]_vars
==============================================================================
