------------------------------- MODULE JobQueue -------------------------------
(***************************************************************************)
(* What the two queues promise about their jobs, whatever fails: a job is  *)
(* added once, worked on by nobody else while it runs, handed out a        *)
(* bounded number of times, and its outcome is final.                      *)
(***************************************************************************)
EXTENDS Naturals

CONSTANTS
  Jobs,
  Deliveries   \* how often a job may be handed to a processor

VARIABLES
  job,    \* job -> "absent", "queued", "running", "completed" or "failed"
  taken   \* job -> times it was taken off its queue

Init ==
  /\ job = [j \in Jobs |-> "absent"]
  /\ taken = [j \in Jobs |-> 0]

Goto(j, from, to) == job[j] = from /\ job' = [job EXCEPT ![j] = to]
Count(j) == taken' = [taken EXCEPT ![j] = @ + 1]

Enqueue(j)  == Goto(j, "absent", "queued") /\ UNCHANGED taken
Deliver(j)  == taken[j] < Deliveries /\ Goto(j, "queued", "running") /\ Count(j)
Discard(j)  == Goto(j, "queued", "failed") /\ Count(j)
Requeue(j)  == Goto(j, "running", "queued") /\ UNCHANGED taken
Complete(j) == Goto(j, "running", "completed") /\ UNCHANGED taken
GiveUp(j)   == Goto(j, "running", "failed") /\ UNCHANGED taken

Next == \E j \in Jobs :
  \/ Enqueue(j)
  \/ Deliver(j)
  \/ Discard(j)
  \/ Requeue(j)
  \/ Complete(j)
  \/ GiveUp(j)

Spec == Init /\ [][Next]_<<job, taken>>

\* What a caller can rely on: an outcome, once there, never changes, and a job
\* is handed out Deliveries times at most, plus once to be discarded.
OutcomesStay ==
  \A j \in Jobs : job[j] \in {"completed", "failed"} => job'[j] = job[j]

OutcomeIsFinal == [][OutcomesStay]_<<job, taken>>

DeliveriesBounded ==
  \A j \in Jobs :
    /\ taken[j] <= Deliveries + 1
    /\ job[j] # "failed" => taken[j] <= Deliveries
=============================================================================
