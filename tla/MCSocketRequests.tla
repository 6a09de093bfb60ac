-------------------------- MODULE MCSocketRequests ---------------------------
(***************************************************************************)
(* A small instance of SocketRequests: two requests race for the map, and  *)
(* the socket closes and connects again under them.                        *)
(***************************************************************************)
EXTENDS SocketRequests

TwoRequests == {"send", "receipt"}
==============================================================================
