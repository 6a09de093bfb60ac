----------------------------- MODULE OrderedJobs -----------------------------
(***************************************************************************)
(* What a durable job queue promises to the code that adds jobs to it,     *)
(* without operations, retries, transactions or restarts:                  *)
(*                                                                         *)
(*   - jobs are numbered in the order they are added;                      *)
(*   - the work of a job is performed only when every earlier job of the   *)
(*     same operation queue is settled, however often it is performed;     *)
(*   - a job is settled once and for all: done, which needs the work to    *)
(*     have been performed, failed, or obsolete.                           *)
(*                                                                         *)
(* JobQueue is shown to implement this module.                             *)
(***************************************************************************)
EXTENDS Naturals

CONSTANTS
    MaxJobs,    \* bound: how many jobs are ever added
    QueueOf     \* the serial operation queue each job runs on

Jobs == 1 .. MaxJobs

VARIABLES
    job,        \* what is known of each job
    performed   \* whether the work of a job has been performed at least once

vars == <<job, performed>>

Unsettled == {"pending"}

EarlierSettled(j) ==
    \A k \in Jobs : k < j /\ QueueOf[k] = QueueOf[j] => job[k] \notin Unsettled

Init ==
    /\ job = [j \in Jobs |-> "none"]
    /\ performed = [j \in Jobs |-> FALSE]

Submit(j) ==
    /\ job[j] = "none"
    /\ \A k \in Jobs : k < j => job[k] # "none"
    /\ job' = [job EXCEPT ![j] = "pending"]
    /\ UNCHANGED performed

Perform(j) ==
    /\ job[j] = "pending"
    /\ EarlierSettled(j)
    /\ performed' = [performed EXCEPT ![j] = TRUE]
    /\ UNCHANGED job

Finish(j) ==
    /\ job[j] = "pending"
    /\ performed[j]
    /\ job' = [job EXCEPT ![j] = "done"]
    /\ UNCHANGED performed

Fail(j) ==
    /\ job[j] = "pending"
    /\ job' = [job EXCEPT ![j] = "failed"]
    /\ UNCHANGED performed

Discard(j) ==
    /\ job[j] = "pending"
    /\ job' = [job EXCEPT ![j] = "obsolete"]
    /\ UNCHANGED performed

Next ==
    \E j \in Jobs : Submit(j) \/ Perform(j) \/ Finish(j) \/ Fail(j) \/ Discard(j)

Spec == Init /\ [][Next]_vars
==============================================================================
