------------------------- MODULE MCMessageProcessing -------------------------
(***************************************************************************)
(* Small instances of MessageProcessing.                                   *)
(***************************************************************************)
EXTENDS MessageProcessing

\* A redelivered plain envelope has content again.
OnePlain == <<"plain">>
==============================================================================
