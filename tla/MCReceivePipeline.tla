-------------------------- MODULE MCReceivePipeline --------------------------
(***************************************************************************)
(* Small instances of ReceivePipeline: which envelopes there are.          *)
(***************************************************************************)
EXTENDS ReceivePipeline

EveryKind == <<"blocked", "corrupt", "cipher", "plain">>
==============================================================================
