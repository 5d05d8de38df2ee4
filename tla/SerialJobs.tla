----------------------------- MODULE SerialJobs -----------------------------
(***************************************************************************)
(* What a user of the action gate may rely on: a job is accepted, may be   *)
(* dropped before it starts, executes alone, and ends.                     *)
(***************************************************************************)
CONSTANT Jobs

VARIABLE job

Init == job = [j \in Jobs |-> "idle"]

Accept(j) == job[j] = "idle" /\ job' = [job EXCEPT ![j] = "accepted"]

Drop(j) == job[j] = "accepted" /\ job' = [job EXCEPT ![j] = "idle"]

\* A job starts only when no other executes.
Start(j) ==
  /\ job[j] = "accepted"
  /\ \A k \in Jobs : job[k] # "executing"
  /\ job' = [job EXCEPT ![j] = "executing"]

End(j) == job[j] = "executing" /\ job' = [job EXCEPT ![j] = "idle"]

Next == \E j \in Jobs : Accept(j) \/ Drop(j) \/ Start(j) \/ End(j)

Spec == Init /\ [][Next]_job
=============================================================================
