----------------------- MODULE MCMessageSenderJobQueue -----------------------
(***************************************************************************)
(* A small instance of MessageSenderJobQueue: one thread, a text message,  *)
(* a media message and another text message, each text with or without     *)
(* renderable content as RenderableOrNot says.                             *)
(***************************************************************************)
EXTENDS MessageSenderJobQueue

OneThread == [j \in Jobs |-> "thread"]

TheSecond == {2}

RenderableOrNot == {Jobs, {2, 3}}

TextAndMedia == [j \in Jobs |-> IF j \in TheSecond THEN "media" ELSE "text"]
==============================================================================
