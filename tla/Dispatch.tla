------------------------------ MODULE Dispatch ------------------------------
(* The dispatcher: DispatchUseCase.execute and the two queries of            *)
(* DispatcherService, run by several ticks (POST requests) at once over one  *)
(* database, and the row write that ends every task execution.               *)
(*                                                                           *)
(* A tick is one database transaction followed by the batch of executions it *)
(* launched. The statements of the transaction are separate steps; what the  *)
(* transaction wrote is kept in the tick's record and reaches the tables at  *)
(* Commit (READ COMMITTED: nobody else sees it earlier, and its row locks    *)
(* keep others from changing what it read). How a batch is run, with its     *)
(* semaphore and timeout, is module Batch: here an execution is only under   *)
(* way (live), then recorded in its row or lost.                             *)
EXTENDS Schedule, FiniteSets

CONSTANTS
  Configs,           \* ids of schedule_configs rows
  Ticks,             \* ids of dispatcher runs (run_id); each bounds one run
  InitRows,          \* the config rows the API may have stored before
  MaxNow,            \* bound on the clock
  MaxDispatchLimit,  \* MAX_DISPATCH_LIMIT
  RetryMax,          \* retry_max, the column default: no schema carries it
  LocksOuterJoin,    \* the database takes FOR UPDATE over an outer join
  MayRollback        \* the transaction may fail or its process die midway

OptInt == Int \cup {Null}

ConfigRow ==
  [cron : (Nat \ {0}) \cup {Null}, interval : OptInt, enabled : BOOLEAN,
   start : OptInt, end : OptInt, next : OptInt, last : OptInt]

ASSUME ConfigAssumption == InitRows \subseteq ConfigRow /\ Null \notin ConfigRow
ASSUME BoundAssumption ==
  /\ MaxNow \in Nat
  /\ MaxDispatchLimit \in Nat \ {0}
  /\ RetryMax \in Nat \ {0}
ASSUME FlagAssumption == LocksOuterJoin \in BOOLEAN /\ MayRollback \in BOOLEAN

\* A job row is named by the run that created it and the config it is for.
Jobs == Ticks \X Configs

Status == {"PENDING", "SUCCESS", "FAILURE"}

JobRow ==
  [cfg : Configs \cup {Null}, run : Ticks \cup {Null}, status : Status, started : Int,
   finished : OptInt, retryNeed : BOOLEAN, attempts : Nat]

ASSUME RowAssumption == Null \notin JobRow /\ Null \notin Configs

VARIABLES
  now,     \* the wall clock, shared by all processes
  config,  \* table schedule_configs; Null: no such row
  job,     \* table schedule_jobs; Null: no such row
  tick,    \* the dispatcher runs: where each is and what it has in hand
  live     \* per run, the jobs whose task is being executed for it

vars == <<now, config, job, tick, live>>

Stages == {"select", "create", "reset", "retry", "commit", "failed"}

TickRecord ==
  [pc : Stages \cup {"idle", "done"}, now : Int, due : SUBSET Configs,
   reset : SUBSET Jobs, retry : SUBSET Jobs]

Idle == [pc |-> "idle", now |-> 0, due |-> {}, reset |-> {}, retry |-> {}]

-----------------------------------------------------------------------------
(* Locks *)

InTx(t) == tick[t].pc \in Stages

\* Rows a tick's transaction has locked. The retry query locks both tables.
HeldJobs(t) == tick[t].reset \cup tick[t].retry
\* Seeded fault: FOR UPDATE OF schedule_jobs leaves the joined configs unlocked.
DueOnly(t) == tick[t].due

HeldConfigs(t) ==
  tick[t].due \cup ({job[j].cfg : j \in tick[t].retry} \ {Null})

\* Rows SKIP LOCKED skips, and a plain UPDATE waits for.
LockedJobs(t) == UNION {HeldJobs(u) : u \in Ticks \ {t}}
NoLockedConfigs(t) == {}  \* seeded fault: a plain SELECT
LockedConfigs(t) == UNION {HeldConfigs(u) : u \in Ticks \ {t}}

-----------------------------------------------------------------------------
(* What the two queries select *)

\* LIMIT without ORDER BY: any subset that fills the limit.
Picks(S) ==
  {D \in SUBSET S : /\ Cardinality(D) <= MaxDispatchLimit
                    /\ D = S \/ Cardinality(D) = MaxDispatchLimit}

DueConfigs(n) == {c \in Configs : config[c] # Null /\ IsDue(config[c], n)}

\* Seeded faults: the status, or the wish for a retry, is not asked about.
AskedRetry(j) == job[j] # Null /\ job[j].retryNeed
FailedAnyhow(j) == job[j] # Null /\ job[j].status = "FAILURE"

Failed(j) == job[j] # Null /\ job[j].status = "FAILURE" /\ job[j].retryNeed

\* The UPDATE: retries superseded by the runs this tick starts.
Superseded(t) == {j \in Jobs : Failed(j) /\ job[j].cfg \in tick[t].due}

AttemptsLeftLate(j) == job[j].attempts <= RetryMax    \* seeded fault
AttemptsLeftEarly(j) == job[j].attempts + 1 < RetryMax  \* seeded fault
AttemptsLeft(j) == job[j].attempts < RetryMax

\* Seeded fault: NOT IN is dropped, since the UPDATE has cleared retry_need.
AnyConfig(t, j) == TRUE

\* NOT IN is only part of the query when the tick has due configs, and SQL's
\* NULL NOT IN (...) does not hold.
NotCurrent(t, j) ==
  tick[t].due = {} \/ (job[j].cfg # Null /\ job[j].cfg \notin tick[t].due)

RetryCandidates(t) ==
  {j \in Jobs :
     /\ Failed(j)
     /\ j \notin tick[t].reset
     /\ AttemptsLeft(j)
     /\ NotCurrent(t, j)
     /\ j \notin LockedJobs(t)
     /\ job[j].cfg \notin LockedConfigs(t)}

\* ScheduleConfigRead.model_validate(job.schedule_config) raises.
Unreadable(j) == job[j].cfg = Null \/ ~ValidTrigger(config[job[j].cfg])

\* The tick raises between the retry query and its commit. joinedload makes the
\* query a LEFT OUTER JOIN; PostgreSQL has no FOR UPDATE for its nullable side.
RetryFails(R) == ~LocksOuterJoin \/ \E j \in R : Unreadable(j)

-----------------------------------------------------------------------------
(* The transaction of a tick *)

Init ==
  /\ now = 0
  /\ config \in [Configs -> InitRows]
  /\ job = [j \in Jobs |-> Null]
  /\ tick = [t \in Ticks |-> Idle]
  /\ live = [t \in Ticks |-> {}]

Advance ==
  /\ now < MaxNow
  /\ now' = now + 1
  /\ UNCHANGED <<config, job, tick, live>>

\* `now` is read before the transaction begins: it may be old when used.
Begin(t) ==
  /\ tick[t].pc = "idle"
  /\ tick' = [tick EXCEPT ![t] = [Idle EXCEPT !.pc = "select", !.now = now]]
  /\ UNCHANGED <<now, config, job, live>>

SelectDue(t) ==
  /\ tick[t].pc = "select"
  /\ \E D \in Picks(DueConfigs(tick[t].now) \ LockedConfigs(t)) :
       tick' = [tick EXCEPT ![t] = [@ EXCEPT !.pc = "create", !.due = D]]
  /\ UNCHANGED <<now, config, job, live>>

\* create_multi flushes the PENDING rows; then every pair is validated and
\* the config's next run computed, either of which may raise.
CreateJobs(t) ==
  /\ tick[t].pc = "create"
  /\ tick' = [tick EXCEPT ![t] = [@ EXCEPT !.pc =
                CASE \E c \in tick[t].due : Poison(config[c]) -> "failed"
                  [] tick[t].due = {} -> "retry"
                  [] OTHER            -> "reset"]]
  /\ UNCHANGED <<now, config, job, live>>

\* A plain UPDATE: it waits for rows that another transaction has locked.
ResetRetry(t) ==
  /\ tick[t].pc = "reset"
  /\ Superseded(t) \cap LockedJobs(t) = {}
  /\ tick' = [tick EXCEPT ![t] =
                [@ EXCEPT !.pc = "retry", !.reset = Superseded(t)]]
  /\ UNCHANGED <<now, config, job, live>>

SelectRetry(t) ==
  /\ tick[t].pc = "retry"
  /\ \E R \in Picks(RetryCandidates(t)) :
       tick' = [tick EXCEPT ![t] =
                  [@ EXCEPT !.pc = IF RetryFails(R) THEN "failed" ELSE "commit",
                            !.retry = R]]
  /\ UNCHANGED <<now, config, job, live>>

\* The job rows this tick inserted, one per due config.
FreshJobs(t) == {t} \X tick[t].due

\* Seeded fault: the next run is planned from the last plan, not from now.
AdvancedFromPlan(row, n) ==
  [row EXCEPT !.last = n, !.next = CalcNextRun(row, row.next)]

AdvancedRow(row, n) ==
  [row EXCEPT !.last = n, !.next = CalcNextRun(row, n)]

\* Seeded fault: the column default of retry_attempts is forgotten.
FreshRowNoDefault(t, c) ==
  [cfg |-> c, run |-> t, status |-> "PENDING", started |-> tick[t].now,
   finished |-> Null, retryNeed |-> FALSE, attempts |-> Null]

FreshRow(t, c) ==
  [cfg |-> c, run |-> t, status |-> "PENDING", started |-> tick[t].now,
   finished |-> Null, retryNeed |-> FALSE, attempts |-> 0]

\* Seeded fault: the row stays FAILURE while it is retried.
RetryRowKeepsStatus(t, row) ==
  [row EXCEPT !.started = tick[t].now, !.run = t]

\* started_at, status, dispatcher_run_id and error_message are all that is set.
RetryRow(t, row) ==
  [row EXCEPT !.started = tick[t].now, !.status = "PENDING", !.run = t]

\* The batch is launched; a run that found nothing leaves no trace.
Commit(t) ==
  /\ tick[t].pc = "commit"
  /\ config' = [c \in Configs |-> IF c \in tick[t].due
                                  THEN AdvancedRow(config[c], tick[t].now)
                                  ELSE config[c]]
  /\ job' = [j \in Jobs |->
               CASE j \in FreshJobs(t)   -> FreshRow(t, j[2])
                 [] j \in tick[t].retry  -> RetryRow(t, job[j])
                 [] j \in tick[t].reset  -> [job[j] EXCEPT !.retryNeed = FALSE]
                 [] OTHER                -> job[j]]
  /\ live' = [live EXCEPT ![t] = FreshJobs(t) \cup tick[t].retry]
  /\ tick' = [tick EXCEPT ![t] =
                IF live'[t] = {} THEN Idle ELSE [Idle EXCEPT !.pc = "done"]]
  /\ UNCHANGED now

\* Seeded fault: the session is left open, with its row locks.
UnwindLeaking(t) == tick[t].pc = "failed" /\ UNCHANGED vars

\* An exception leaves the transaction: everything is undone, the request
\* fails and its run id is never seen again.
Unwind(t) ==
  /\ tick[t].pc = "failed"
  /\ tick' = [tick EXCEPT ![t] = Idle]
  /\ UNCHANGED <<now, config, job, live>>

\* A database error, a cancelled request or a crash inside the transaction.
Rollback(t) ==
  /\ MayRollback
  /\ InTx(t) /\ tick[t].pc # "failed"
  /\ tick' = [tick EXCEPT ![t] = Idle]
  /\ UNCHANGED <<now, config, job, live>>

-----------------------------------------------------------------------------
(* The executions *)

Outcomes == {"success", "failure", "retry"}

\* Seeded fault: the attempt is not counted.
RecordedUncounted(row, outcome) ==
  [row EXCEPT !.status = IF outcome = "success" THEN "SUCCESS" ELSE "FAILURE",
              !.finished = now,
              !.retryNeed = (outcome = "retry")]

\* The second transaction of _run_dispatch, at the end of an execution. The
\* outcome is "retry" for a timeout or a cancellation, "failure" for any other
\* exception. A job deleted meanwhile is only logged.
RecordedRow(row, outcome) ==
  [row EXCEPT !.status = IF outcome = "success" THEN "SUCCESS" ELSE "FAILURE",
              !.finished = now,
              !.retryNeed = (outcome = "retry"),
              !.attempts = @ + 1]

Finish(t, j, outcome) ==
  /\ j \in live[t]
  /\ j \notin LockedJobs(t)
  /\ job' = [job EXCEPT ![j] =
               IF @ = Null THEN @ ELSE RecordedRow(@, outcome)]
  /\ live' = [live EXCEPT ![t] = @ \ {j}]
  /\ UNCHANGED <<now, config, tick>>

\* The execution ends without its row write: cancelled before it started or
\* while writing, a failed write, a crash (module Batch).
Lose(t, j) ==
  /\ j \in live[t]
  /\ live' = [live EXCEPT ![t] = @ \ {j}]
  /\ UNCHANGED <<now, config, job, tick>>

-----------------------------------------------------------------------------

\* Every run id of the bound is used up and the clock has stopped.
Terminated ==
  /\ now = MaxNow
  /\ \A t \in Ticks : tick[t].pc = "done" /\ live[t] = {}
  /\ UNCHANGED vars

TickStep(t) ==
  \/ SelectDue(t) \/ CreateJobs(t) \/ ResetRetry(t) \/ SelectRetry(t)
  \/ Commit(t) \/ Unwind(t)

ExecutionStep(t) ==
  \E j \in Jobs : Lose(t, j) \/ \E o \in Outcomes : Finish(t, j, o)

Next ==
  \/ Advance
  \/ \E t \in Ticks : Begin(t) \/ TickStep(t) \/ Rollback(t) \/ ExecutionStep(t)
  \/ Terminated

Spec == Init /\ [][Next]_vars

\* A request that runs is scheduled by the event loop, and the callers keep
\* posting: ticks begin for as long as run ids are left.
FairSpec ==
  /\ Spec
  /\ \A t \in Ticks : WF_vars(TickStep(t)) /\ WF_vars(Begin(t))

-----------------------------------------------------------------------------
(* Properties *)

\* Every row and every tick keeps its type.
TypeOK ==
  /\ now \in Nat
  /\ config \in [Configs -> ConfigRow \cup {Null}]
  /\ job \in [Jobs -> JobRow \cup {Null}]
  /\ tick \in [Ticks -> TickRecord]
  /\ live \in [Ticks -> SUBSET Jobs]

\* README.md:14, "no task is executed twice": a job is being executed for one
\* run only, the run its row names, and its row is PENDING meanwhile. Two ticks
\* that select the same failed job break it, and so does a row write that
\* outruns its execution.
OneExecution ==
  /\ \A t, u \in Ticks : t # u => live[t] \cap live[u] = {}
  /\ \A t \in Ticks : \A j \in live[t] :
       job[j] # Null => job[j].status = "PENDING" /\ job[j].run = t

\* retry_max (schedule_jobs/models.py:75) bounds the executions of a job, the
\* first one included: one under way has not used the last attempt yet.
AttemptsBounded ==
  \A j \in Jobs : job[j] # Null =>
    /\ job[j].attempts <= RetryMax
    /\ (\E t \in Ticks : j \in live[t]) => job[j].attempts < RetryMax

\* get_retry_jobs (services.py:111-115): a tick that starts a config anew does
\* not also retry an older job of it, even one whose failure was recorded
\* after the UPDATE of the same tick.
FreshOrRetry ==
  \A t \in Ticks : \A j \in tick[t].retry : job[j].cfg \notin tick[t].due

\* services.py:105, 128-151: ticks and row writes never wait for another tick's locks,
\* so no two transactions can wait for each other. The plain UPDATE of a tick
\* has all of its rows to itself: whoever would retry one of them holds its
\* config as well, and SKIP LOCKED keeps that config from this tick.
NoLockWaits ==
  \A t \in Ticks :
    /\ tick[t].pc = "reset" => Superseded(t) \cap LockedJobs(t) = {}
    /\ live[t] \cap LockedJobs(t) = {}

\* get_schedule_configs (services.py:71-80): a job is only created for a
\* config that is still due, by its current row, when the tick commits. Two
\* ticks that both saw the config due must not both dispatch it.
DispatchedWhenDue ==
  [][\A j \in Jobs : job[j] = Null /\ job'[j] # Null =>
       IsDue(config[job'[j].cfg], job'[j].started)]_vars

\* What separates a config's last run from one at n: a full interval, or a
\* match of the cron expression in between. A late cron run may be close to
\* the one after it, but no match is run twice.
Spaced(row, n) ==
  IF row.cron # Null THEN row.last \div row.cron < n \div row.cron
                     ELSE n - row.last >= row.interval

\* Successive runs of a config keep their distance, whatever order ticks begin
\* and commit in and however long before the commit a tick's `now` was read;
\* and the run planned next lies after the one that plans it.
RunsAdvance ==
  [][\A c \in Configs :
       config[c] # Null /\ config'[c] # Null /\ config'[c].last # config[c].last =>
       /\ config[c].last = Null \/ Spaced(config[c], config'[c].last)
       /\ config'[c].next > config'[c].last]_vars

\* Job rows and executions together refine the abstract life of a job.
Phase(j) ==
  IF job[j] = Null THEN IF tick[j[1]].pc = "done" THEN "gone" ELSE "none"
  ELSE IF \E t \in Ticks : j \in live[t] THEN "running"
  ELSE IF job[j].status = "PENDING"       THEN "lost"
  ELSE IF Failed(j) THEN "retryable" ELSE "done"

Count(j) == IF job[j] = Null THEN 0 ELSE job[j].attempts

Life == INSTANCE JobLife WITH
  phase    <- [j \in Jobs |-> Phase(j)],
  finished <- [j \in Jobs |-> Count(j)]

JobLifeSpec == Life!Spec

\* No two transactions wait for each other's rows for ever: a tick that is
\* inside its transaction leaves it.
TickEnds == \A t \in Ticks : InTx(t) ~> ~InTx(t)

\* services.py:117-118: a retry that is owed is made, or superseded by a new
\* run of its config, while ticks keep coming and no config is poison.
RetryServed ==
  \A j \in Jobs :
    (/\ Failed(j) /\ job[j].attempts < RetryMax
     /\ \A c \in Configs : ~Poison(config[c]))
      ~> (~Failed(j) \/ \A t \in Ticks : tick[t].pc = "done")

-----------------------------------------------------------------------------
(* What documents and comments say and the code does not do *)

\* services.py:83-84: next_run_at = NULL signals "execute me immediately". The
\* tick that selects such a config fails instead: a config the API stores with
\* NULL has no trigger calc_next_run accepts.
SentinelRuns ==
  \A t \in Ticks : tick[t].pc = "failed" =>
    \A c \in tick[t].due : config[c].next # Null

\* README.md:15 and services.py:117-118: failed jobs are retried, so a tick
\* whose configs are all sound gets past the retry query.
RetryQueryRuns ==
  \A t \in Ticks : tick[t].pc = "failed" =>
    \E c \in Configs : config[c] = Null \/ Poison(config[c])

=============================================================================
