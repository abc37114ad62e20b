----------------------------- MODULE Executions -----------------------------
(* What module Dispatch takes from a batch, and module Batch has to deliver: *)
(* every execution ends at most once, alone, and in that step its row either *)
(* takes the outcome or stays as it is for ever.                             *)
CONSTANTS Jobs, Outcomes

VARIABLES
  live,  \* the executions under way
  row    \* what schedule_jobs says of each job

Init == live = Jobs /\ row = [j \in Jobs |-> "PENDING"]

End(j) == j \in live /\ live' = live \ {j}

Finish(j) ==
  /\ End(j)
  /\ row[j] = "PENDING"
  /\ \E o \in Outcomes : row' = [row EXCEPT ![j] = o]
Lose(j)   == End(j) /\ row' = row

\* DELETE /schedule_jobs may remove any row at any time.
Delete(j) == live' = live /\ row' = [row EXCEPT ![j] = "deleted"]

Next == \E j \in Jobs : Finish(j) \/ Lose(j) \/ Delete(j)

Spec == Init /\ [][Next]_<<live, row>>
=============================================================================
