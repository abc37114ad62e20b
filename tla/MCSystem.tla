------------------------------ MODULE MCSystem ------------------------------
(* Instances of System for TLC: the rows POST stores, and what clients PATCH *)
(* or PUT into them afterwards.                                              *)
EXTENDS System, TLC

CONSTANTS c1, c2, t1, t2, t3

Body(cron, interval, start, end) ==
  [cron |-> cron, interval |-> interval, enabled |-> TRUE,
   start |-> start, end |-> end]

OneRow == {CreateRow(Body(Null, 1, Null, Null), 0)}

\* Switch off, replace the config by a cron schedule.
CarefulBodies == {[enabled |-> FALSE], Body(1, Null, Null, Null)}

\* Also a cron expression beside the interval, and no trigger at all.
AllBodies == CarefulBodies \cup {[cron |-> 1], [interval |-> Null]}

\* A client marks a job as failed or done, detaches it from its config and run
\* (a PUT that leaves the references out), or posts it so.
AllJobBodies ==
  {[status |-> "FAILURE"], [status |-> "SUCCESS"],
   [cfg |-> Null, run |-> Null, status |-> "FAILURE", started |-> 0,
    finished |-> Null],
   [cfg |-> c1, run |-> Null, status |-> "FAILURE", started |-> 0,
    finished |-> 0]}

\* Two requests to the config that may overlap; one beside two deletions; two
\* to jobs beside a deletion.
Sent(configs, jobs, deletes) ==
  [config |-> configs, job |-> jobs, delete |-> deletes]

Worlds == {Sent(2, 0, 0), Sent(1, 0, 2), Sent(0, 2, 1)}
OneDelete == {Sent(0, 0, 1)}
OneUpdate == {Sent(1, 0, 0)}

TickSymmetry == Permutations(Ticks)
=============================================================================
