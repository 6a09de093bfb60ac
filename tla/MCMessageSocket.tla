--------------------------- MODULE MCMessageSocket ---------------------------
(***************************************************************************)
(* Small instances of MessageSocket.                                       *)
(***************************************************************************)
EXTENDS MessageSocket

\* Between two that are stored come one that is dropped without a word, and one of which
\* the user is told.
OneDiscarded == {2}

OneUnreadable == {3}
==============================================================================
