--------------------------- MODULE MCMessageSender ---------------------------
(***************************************************************************)
(* A small instance of MessageSender: a group of two others, or a contact. *)
(***************************************************************************)
EXTENDS MessageSender

CONSTANTS alice, bob

Two == {alice, bob}
==============================================================================
