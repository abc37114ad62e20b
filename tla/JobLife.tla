------------------------------ MODULE JobLife -------------------------------
(* What the dispatcher promises of a schedule job, whatever ticks, locks and *)
(* database do underneath: it is executed by one run at a time, at most      *)
(* RetryMax times, again only after an execution that asked for a retry, and *)
(* neither a finished job nor a lost or deleted one comes back.              *)
EXTENDS Naturals

CONSTANTS Jobs, RetryMax

VARIABLES
  phase,     \* where each job is
  finished   \* how many executions of it were recorded

lifeVars == <<phase, finished>>

Phases == {"none", "running", "retryable", "done", "lost", "gone"}

Init == phase = [j \in Jobs |-> "none"] /\ finished = [j \in Jobs |-> 0]

Move(j, from, to) == phase[j] = from /\ phase'[j] = to

Keep(j)   == phase'[j] = phase[j] /\ finished'[j] = finished[j]
Launch(j) == Move(j, "none", "running") /\ finished'[j] = 0
Record(j) ==
  /\ Move(j, "running", "done") \/ Move(j, "running", "retryable")
  /\ finished'[j] = finished[j] + 1
Vanish(j) == Move(j, "running", "lost") /\ finished'[j] = finished[j]
Drop(j)   == Move(j, "retryable", "done") /\ finished'[j] = finished[j]
\* Deleted, or passed over by the run that could have created it.
Remove(j) == phase[j] # "gone" /\ phase'[j] = "gone" /\ finished'[j] = 0
Relaunch(j) ==
  /\ Move(j, "retryable", "running")
  /\ finished[j] < RetryMax
  /\ finished'[j] = finished[j]

\* One commit may move many jobs at once.
Next ==
  /\ phase' \in [Jobs -> Phases]
  /\ finished' \in [Jobs -> Nat]
  /\ \A j \in Jobs : \/ Keep(j) \/ Launch(j) \/ Record(j) \/ Vanish(j)
                     \/ Drop(j) \/ Relaunch(j) \/ Remove(j)

Spec == Init /\ [][Next]_lifeVars
=============================================================================
