---------------------- MODULE MCGroupsV2MessageProcessor ----------------------
(***************************************************************************)
(* Small instances of GroupsV2MessageProcessor: a group that is changed    *)
(* twice, and another whose message comes between.                         *)
(***************************************************************************)
EXTENDS GroupsV2MessageProcessor

FourMessages == <<"family", "work", "family", "family">>

FourRevisions == <<1, 2, 2, 1>>

TwoRevisionsEach == [g \in Groups |-> 2]

\* The third message is from a blocked sender.
OneBlocked == {3}
==============================================================================
