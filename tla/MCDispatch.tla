----------------------------- MODULE MCDispatch -----------------------------
(* Instances of Dispatch for TLC. The initial config rows are what POST      *)
(* /schedule_configs stores, at time 0 or before, for some valid bodies.     *)
EXTENDS Dispatch, TLC

CONSTANTS c1, c2, t1, t2, t3

Body(cron, interval, start, end) ==
  [cron |-> cron, interval |-> interval, enabled |-> TRUE,
   start |-> start, end |-> end]

CreatedAt(time, bodies) ==
  {CreateRow(b, time) : b \in {b \in bodies : ValidTrigger(b)}}

RowsOf(bodies) == CreatedAt(0, bodies)

\* An interval and a cron expression that are due at 0 and once more before
\* the clock stops, and a schedule with a window of validity.
GoodRows ==
  CreatedAt(-2, {Body(Null, 2, Null, Null), Body(2, Null, Null, Null)})
    \cup RowsOf({Body(Null, 1, 1, 2)})

\* interval_seconds = 0 is accepted too; it stores next_run_at = NULL.
AnyRows == GoodRows \cup RowsOf({Body(Null, 0, Null, Null)})

\* A schedule that runs every second from time 0, or a poison config.
SmallRows ==
  CreatedAt(-1, {Body(Null, 1, Null, Null), Body(Null, 0, Null, Null)})

TickSymmetry == Permutations(Ticks)
Symmetry == Permutations(Ticks) \cup Permutations(Configs)
=============================================================================
