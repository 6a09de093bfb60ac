----------------------------- MODULE MCJobQueue ------------------------------
(***************************************************************************)
(* A small instance of JobQueue: all jobs belong to one serial queue.      *)
(***************************************************************************)
EXTENDS JobQueue

OneQueue == [j \in Jobs |-> "text"]
==============================================================================
