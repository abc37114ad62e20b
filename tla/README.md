# Verification of the scheduler manager

TLA+ models of the scheduling hub in `modules/hub/app`, the TLC instances that
check them, and TLAPS proofs of the main results. `PROJECT.json` holds the same
information in machine-readable form: components, runs, the seeded fault that
each property catches, the source lines behind each definition, findings,
hazards and theorems.

To check: `tlc -config X.cfg M` for each run of section 3, and `tlapm` on
`DispatchProofs`, `DispatchRefines`, `BatchProofs`, `NamesProofs`,
`SystemProofs`, `SystemRefines` and `TasksProofs`. The models need the standard
modules only; two proof modules cite the library's `FiniteSetTheorems`.

Source paths below are relative to `modules/hub/app/features` unless they say
otherwise.

## 1. The system

| Component | State it keeps | Operations | Interacts with |
|---|---|---|---|
| dispatchers, the tick (`dispatchers/usecases/dispatch.py`, queries in `dispatchers/services.py`) | one transaction: the rows selected and locked, the rows written; `now` and `run_id` of the run | `execute`: select due configs, insert PENDING jobs, advance the configs, clear superseded retries, select retries, commit, launch | both tables; the batch |
| dispatchers, the batch (`dispatchers/services.py:160-254`) | the child tasks, the permits of a semaphore, a timer, the outcome each child has in hand | `dispatch_jobs`, `_dispatch`, `_run_dispatch` | the registry, task functions; one transaction per job on `schedule_jobs` |
| schedule_configs | table `schedule_configs` | POST, PUT, PATCH, DELETE, GET | rows read by the tick; foreign key from jobs with ON DELETE SET NULL |
| schedule_jobs | table `schedule_jobs` | POST, PUT, PATCH, DELETE, GET | rows written by tick and batch |
| system_configs | table of name/value pairs, names unique | POST, PUT, PATCH, DELETE, GET | nobody else reads it |
| calc_schedule (`common/utils`) | none | `calc_next_run` | tick and schedule_configs |
| tasks, registry (`tasks/core/registry.py`) | a dictionary filled at start-up | `task`, `get`, `all_tasks`, `autodiscover` | lifespan of `main.py`; the batch looks functions up; the specs API lists them |
| tasks, context and log (`tasks/core/context.py`, `log.py`) | a context variable per asyncio task | `task_context`, `get_task_meta` | entered by the batch around each execution, read by the logger |
| settings, database types, routing, auth, migrations, scripts, docker | - | - | - |

A tick is one `POST /dispatchers/trigger`, sent by an external scheduler. Several
may overlap, in one process or in several. Everything they share is in the
database: `SELECT ... FOR UPDATE SKIP LOCKED` on configs and on failed jobs, a
plain `UPDATE` that waits for locks, and plain reads and writes by the API.
After its commit a tick runs its jobs concurrently in its own event loop.

Hard behaviour, and what makes each component correct:

* **Overlapping ticks.** A due config is started by one tick, a failed job is
  retried by one tick; a tick that starts a config does not retry an older job
  of it; `now` is read before the transaction and may be stale at its end.
* **Failure in the middle.** One bad config or job raises in the loop and undoes
  the whole tick; a crash after the commit leaves PENDING rows behind.
* **The end of an execution** is a transaction of its own that can fail, be
  cancelled, find its row deleted, or come after the timer.
* **Retries** are counted, bounded, owed, superseded and eventually served.
* **API writes** between the steps of a tick: PATCH computes `next_run_at` from a
  row it read without a lock; DELETE orphans the jobs of a config; clients may
  post jobs and set the status of any job. What they do to one row must not
  spread to the rows they left alone.
* **Names** are checked by a query before the write: requests that overlap pass
  each other's check.
* **asyncio**: `gather` without `return_exceptions` resolves with the first
  failure and leaves the siblings running; cancellation reaches a child where it
  is suspended - waiting for a permit, in its task function, or in its row write.
* **Start-up** may fail half-way through the task modules and be repeated; a task
  that cannot run must be told from one that failed.

## 2. The modules

| Module | What it models |
|---|---|
| `Schedule` | pure operators: triggers, `calc_next_run`, the two validators, what POST and PATCH/PUT write, the WHERE clause of due configs |
| `Dispatch` | the tick, statement by statement, for any number of overlapping ticks, and the row write that ends an execution |
| `JobLife` | abstract: what the dispatcher promises of one job. `Dispatch` refines it, and so does `System` for the jobs no client wrote to |
| `System` | `Dispatch` composed with the requests to `/schedule_configs` and `/schedule_jobs` that write the same rows |
| `Executions` | abstract: what `Dispatch` takes for granted of a batch. `Batch` refines it |
| `Batch` | `dispatch_jobs`, `_dispatch`, `_run_dispatch` on asyncio, for several requests of one process |
| `Registry` | start-up: importing the task modules, the `@task` decorator, the specs API |
| `Tasks` | `Batch` over `Registry`: lookup, payload adapter, task context |
| `Names` | the names of `schedule_configs` and `system_configs` under overlapping requests |
| `DispatchProofs`, `DispatchRefines` | the inductive invariant of `Dispatch`, its theorems, its refinement of `JobLife` |
| `BatchProofs` | the invariants of `Batch` and its refinement of `Executions` |
| `NamesProofs` | what the constraint does for names, and what the check alone does |
| `TasksProofs` | what the start-up leaves behind, what executions make of it, and that the batch inside `Tasks` is the one of `Batch` |
| `SystemProofs`, `SystemRefines` | the promises of `Dispatch` with clients at work; `System` refines `JobLife` |
| `MCDispatch`, `MCSystem`, `MCBatch`, `MCTasks`, `MCNames` | instances for TLC |

**Dispatch.** `config` and `job` are the committed tables, `Null` for no row. A
job row is named by the run that created it and its config, which a run creates
at most once. `tick[t]` is the run: where it is (`pc`), its `now`, and the keys
of the rows it has in hand: `due` (selected configs), `reset` (rows the UPDATE
hit), `retry` (selected failed jobs). What a transaction wrote is a function of
these sets and of rows nobody else can change while they are locked, so it is
computed at `Commit`; that is READ COMMITTED. `Begin` is `now =
datetime.now(...)`, `SelectDue` the first query, `CreateJobs` the insert and the
validation loop, `ResetRetry` and `SelectRetry` the two statements of
`get_retry_jobs` with the loop over its result, `Commit` the rest. A raise sets
`pc` to `failed` and `Unwind` rolls back; `Rollback` is a database error, a
cancelled request or a crash at any point of the transaction. `live[t]` are the
executions under way for run `t`; `Finish` is the row write of `_run_dispatch`,
`Lose` any end without one. `LIMIT` without `ORDER BY` is any subset that fills
the limit. SQL's three-valued `NULL NOT IN (...)` is kept. `LocksOuterJoin` says
whether the database accepts `FOR UPDATE` over the outer join that `joinedload`
makes.

**System.** A PATCH or PUT of a config is `ReadForUpdate` (the row it saw and the
time at which it computes `next_run_at`) and `WriteUpdate` (the columns that
differ from what it saw, which is what the ORM puts in its UPDATE, once the row
is not locked). `PostConfig` inserts a config in place of one that was deleted:
its id is new, so no request under way refers to it. `DeleteConfig` sets `schedule_config_id` of its jobs to NULL.
`PostJob` inserts a row with the columns of `ScheduleJobCreate`; it stands for a
row of a run that is over, since its id is new. `ReadForEdit` and `WriteEdit` are
PATCH and PUT of a job. `ConfigColumns` and `JobColumns` are the columns of the
schemas with their types: `retry_need` and `retry_attempts` are in none. The
requests clients may send are bounded by `clients`. Three history variables say
which rows they meddled with: `raced` (configs whose trigger changed between a
request's read and its write), `posted` and `edited` (jobs).

**Batch.** `child[j]` goes from `waiting` (for a permit) to `running`, `writing`
(the transaction has begun), `flushing` (`get_by_pk` has found the row) and `ok`,
`error` or `cancelled`. `Find` and `Miss` are the two answers of `get_by_pk`,
`Write` the UPDATE and its COMMIT, `WriteFails` any error of the transaction, among
them the UPDATE of a row that was deleted after `get_by_pk` (`CannotWrite`).
`Reject` and `RejectForRetry` go to `writing` at once: nothing is awaited before the
task has failed. `cancel[j]` is a `CancelledError` on its way. `gather[r]` is how the gather future was resolved,
`request[r]` where the request is. A behaviour takes place in one world, a set
`faults` of what may happen in it: timer, outside cancellation, failed writes,
hanging functions, functions that swallow or raise `CancelledError`, deleted
jobs. `dispatch_jobs` is only called with jobs, so each request owns at least one
in every instance.

**Registry.** `layout` is what is deployed: for each module the declarations its
decorators make, each with its key, its signature and whether it is a coroutine
function. `Register` is a decorator that succeeds, `Refuse` one that raises and
stops the start-up, `ImportFails` any other statement of a task module that does so.
`Discover` is the lifespan, entered again if the process is kept after a failure; a
module that failed is executed from its start once more, which may go well as long
as it had registered nothing. `registry` maps a key to its wrapper: the declaration behind it
and the signature it shows to `inspect`.

**Tasks** instantiates `Batch` and says for each child which of its actions the
registry allows: `Start` acquires a permit and enters a function that can run,
`Fail` is the rejection of a job whose function is not entered, and `RunSync` the
execution of a synchronous function: its body runs and may raise `TimeoutError`,
and if it does not, awaiting what it returned raises. `meta` is the context variable in
the context of every asyncio task; `gather` gives each child its own.

**Names.** A request checks (`Check`), writes (`Write`, which waits for rows and
index entries that another transaction has written), and commits. The two tables
differ in the unique constraint. PUT stands for PATCH too; requests that give no
name are left out.

A few definitions next to the ones that model the code are marked *seeded fault*.
No specification uses them: each is what a plausible slip would make of the
definition that follows it, and `PROJECT.json` names the property that notices.

## 3. The runs

| Run | Bounds | What it shows |
|---|---|---|
| `DispatchSafety` | 2 configs, 3 ticks, clock 0..2, RetryMax 2, rollback anywhere; a config by interval and one by cron, both created before time 0, due at 0 and again at 2; a config with a validity window, or one with interval 0 | `OneExecution`, `AttemptsBounded`, `FreshOrRetry`, `NoLockWaits`, `DispatchedWhenDue`, `RunsAdvance`, and the refinement of `JobLife` |
| `DispatchLiveness` | 2 configs, 3 ticks, clock 0..1 | `TickEnds`, `RetryServed` under fairness |
| `SystemSafety` | 1 config, 3 ticks, clock 0..2; two PATCH or PUT requests to the config, or two deletions and one such request or POST, or two requests to jobs and a deletion; switch off, add a cron expression, clear the interval, replace; set a job's status, detach it, post a failed one | the promises about rows no client wrote, `PostedNeverRun`, `NullMeansNoTrigger`, `NoLockWaitsUnlessEdited`, `StartedWhenDue`, `RelaunchReadable`, the refinement of `JobLife` |
| `BatchSafety` | 2 requests with 2 and 1 jobs, 1 permit each, five worlds: failed writes; hanging; timer, abort and hanging; timer, failed writes and deletions; timer, self-cancelling and swallowing | `CompletedMeansRecorded`, `NobodyStranded`, refinement of `Executions`, `NoStartAfterTimeout`, `RequestAnswers`, `RecordedUnlessOwnWriteFails`, `OthersDoNotStarve` |
| `Tasks` | 3 jobs, 2 permits, every fault at once; five deployments, one of which comes up; at most one job asks for something unusual | `UpMeansComplete`, `RestartFails`, `SpecsMatchDeclarations`, `SuccessMeansRan`, `HopelessNotRetried`, `OwnLabel` |
| `Names` | 3 requests, 3 rows, two names and the empty one, both tables | `UniqueNames`, `SerialNamesUnique`, `ConflictNeedsOverlap` |

The bounds are enough for the cases that matter. Two ticks are needed to race for
a row and a third to retry what they left; two configs let one tick hold both
kinds of row; three instants give a due time, a stale `now` and a next due time;
RetryMax 2 is the least that allows a retry and then forbids one. Two requests to
one config are what a lost trigger takes; one to a job whose retry is owed and
one while it runs are what a second execution takes. Two jobs on one permit put
a child in the semaphore while its sibling runs or writes; the third belongs to
another request of the process. In `Tasks` three jobs on two permits give a child
in each stage in which cancellation finds it. Three requests and rows let names
move round a ring. Symmetry (of ticks, configs, jobs, names) is used in safety
runs only. Ticks and requests are finitely many: `Terminated`, `Finished` and
`AllAnswered` mark the end of the bound, so deadlock is checked in every run.

Six runs show where the code does something else than its documents or comments
say. Each checks one property and finds it violated:

| Run | Said | Done |
|---|---|---|
| `DispatchSentinel` | `next_run_at = NULL` means "execute me immediately" (`dispatchers/services.py:83`, `schedule_configs/models.py:51`, a test's docstring) | only configs without a usable trigger are stored with NULL, and the tick that selects one raises and rolls back, with all its other configs, every time |
| `DispatchPostgres` | failed jobs are retried (`README.md:15`); production is PostgreSQL (`README.md:59`) | `FOR UPDATE` over `LEFT OUTER JOIN` is an error there: every tick fails at the retry query |
| `SystemOrphans` | a job not of a current config with attempts left is retried (`dispatchers/services.py:117`) | if its config was deleted, the validation of `None` raises and the tick rolls back |
| `SystemDisabled` | `enabled` says whether the dispatcher picks a schedule up (`schedule_configs/models.py:34`) | retries are launched for a disabled config |
| `BatchPending` | every attempt is recorded with status and timing (`README.md:23`) | a job cancelled while waiting for its permit keeps its PENDING row for ever |
| `NamesDuplicate` | "ScheduleConfig name must be unique." (`schedule_configs/services.py:56`) | two requests that overlap both find the name free and both store it; no constraint stops them |

`LocksOuterJoin = TRUE` in every other run: they describe the code as it would
behave on a database that takes the query.

Also seen while modelling, without a run:

* `retry_max` counts the first execution; `MAX_RETRY_ATTEMPTS` is never used;
  `finished_at` keeps its old value while a retry runs; SQLite ignores
  `FOR UPDATE`; a PATCH can store both triggers, after which the config breaks
  ticks and read requests alike.
* `_run_dispatch` says it supports "both async and sync callables"
  (`dispatchers/services.py:194`). A synchronous function is wrapped in a coroutine
  function: its body runs, awaiting its result raises, and the job is recorded as
  failed - or for retry, if the body raises `TimeoutError`. The `else` of line 217
  is never reached.
* A job deleted between `get_by_pk` and the UPDATE of its row write fails its
  execution (`StaleDataError`) and with it the request; deleted before, it is only
  logged.
* `README.md:43` has tasks found in submodules too; `iter_modules` does not look
  into packages.
* `README.md:84` has the response blocked until all jobs complete. It comes
  earlier when a sibling's row write fails. The timer that fires after such a
  failure, before the request has resumed, cancels nothing.
* `MAX_CONCURRENT_TASKS` bounds the tasks of a tick, not of the process.
* A client that sets a job to FAILURE while a retry of it runs makes a tick launch
  it a second time. Hence the exception for `edited` in `OneExecutionUnlessEdited`.
* Two overlapping PATCH requests, one clearing the interval and one setting a cron
  expression, leave a cron expression with `next_run_at` NULL. Hence `raced`.
* A buffer that is not smaller than the global timeout makes `effective_timeout`
  raise for every request to the dispatcher, not at start-up.

### Fairness

`FairSpec` of `Dispatch` has weak fairness of each tick's own steps (the event
loop resumes a coroutine whose query was answered) and of `Begin` (the external
scheduler keeps posting). Nothing is assumed of `Finish` and `Lose`: a task may
run for ever. `FairSpec` of `Batch` has weak fairness of every child's steps, of
the timer and of the request; of `Return` only in worlds where functions do not
hang. No fairness makes an abort, a deletion or a self-cancellation happen.
`MayRollback` is off in the liveness run, since no property can hold if every
transaction fails. `Tasks`, `Names` and `System` are checked for safety only.

## 4. The proofs

Assumptions: those of the modules (`Null` is no number, no row and no config id,
initial rows have the types of the columns, the limits are positive, every job
has an owner and every request a job, request bodies are typed by the schemas),
and the hypotheses that are part of the theorems that need them: `ForwardRows`,
`SoundRows`, finitely many ticks and configs in `TicksGoOn`, and a database that
rejects the retry query in `NothingRunsOnPostgres`.

**The tick.** `DispatchProofs` proves that `Inv` is inductive. The safety
properties alone are not: that two ticks do not launch the same retry follows
from their locks (`Locks`: the rows in hand are disjoint), from what was selected
still being true when it is used (`Held`: locked jobs are failed, retries have
attempts left, locked configs are due and, once validated, not poison), from a
run having no rows and no executions before its commit (`RunShape`), and from the
stages (`StageShape`). These make up `Core`. There is one lemma per action, stated
for `InvBut(X)`, which is `Inv` for all jobs but those of a set `X`: with `X = {}`
it is the invariant of the dispatcher alone, with `X = edited` the one it keeps
beside clients. `CommitInv` carries most of it. From it:

* `TypeCorrect`, `SingleExecution`, `BoundedAttempts`, `NeverBoth` - the
  invariants of `DispatchSafety`;
* `CreatedWhenDue` - the action property `DispatchedWhenDue`, for every
  interleaving of any number of ticks;
* `RunsInOrder` - `RunsAdvance`, under the hypothesis `ForwardRows` that stored
  intervals are not negative. The schema does not enforce it; with a negative
  interval the property is false. Successive runs move forward in time and are
  `Spaced`: an interval lies between them, or a match of the cron expression of the
  later run's own. (A cron run that comes late may be close to the next, so a full
  period between them is not promised.) A second inductive fact, `Planned`, says
  that `next_run_at` is what `CalcNextRun` makes of the last run;
* `NobodyWaits` - `NoLockWaits`. Every query skips locked rows but the UPDATE, and
  a row write at the end of an execution may meet a lock as well. `LockInv` says
  why neither does: no tick has a config in hand that another holds, be it only as
  the config of a retry (`Apart`), and what an UPDATE has hit belongs to the tick's
  own configs (`ResetOwn`). So a job that the UPDATE wants and another tick holds
  would be of a config both hold. There is no ring of waiting transactions because
  nobody waits;
* `TicksGoOn` - in every reachable state the guard of each transaction's next
  statement is true. It needs finite sets of ticks and configs, since a selection
  fills its limit or takes all there is (`PicksSomething`). This is the safety half
  of `TickEnds`; the liveness itself is left to TLC;
* `NothingRunsOnPostgres` - if the database rejects the retry query, then no row is
  ever stored and no execution started: the counterexample of `DispatchPostgres`
  is not one unlucky tick but all of them.

`DispatchRefines` proves `ImplementsJobLife`, i.e. `Spec => JobLifeSpec`: for every
job, each step of the dispatcher is a step of its abstract life (`Lives`) or a
stutter.

**The service.** `SystemProofs` adds what clients have under way (`Requests`) and
that posted jobs belong to runs that are over and ask for no retry
(`PostedIdle`). A client's step leaves ticks and executions alone and writes no
locked row: `ClientInv` says that `InvBut` survives any such step, and `ClientKeeps`
that each request is one. From `SystemInv`: `OneExecutionWithClients`,
`AttemptsWithClients`, `PostedStayIdle` and `StartedWhenDueWithClients`.
`SentinelAgrees` is `NullMeansNoTrigger` from the hypothesis `SoundRows` that it
holds of the initial rows, as it does of what POST stores (`CreatedRow`). Its
second inductive fact, `Seen`, is about the rows that requests have read, and
`UpdateRowKeeps` is the case analysis of `UpdateRow`: what is written over a newer
row still agrees if the trigger did not change in between. `SystemRefines` proves
`ServiceImplementsJobLife`, where a job a client has written to is gone from the
abstract life, and from the same steps `OverForGood`: a job that is finished, lost
or deleted stays so. For a process that dies between its commit and its row writes
that is bad news - the row says PENDING for ever.

Clients write no row a tick has locked (`ClientLeavesLocked`), so `LockInv` holds
beside them: `NobodyWaitsWithClients`, no UPDATE finds a row another tick has
locked. (The lock a client holds while it commits is not modelled, see section 5.)
The exception for `edited` jobs is the one of `OneExecutionUnlessEdited`. `RetriesHaveConfigs` is `RelaunchReadable`. Its
inductive invariant `ReferInv` has two parts: every job's config exists or is NULL
(`Referential`, the foreign key), and what the loop over the retries has validated
is still valid when the tick commits (`Validated`). The second rests on
`joinedload`: the lock of the retry query covers the joined config, so no client
can change its trigger in between. A lock on the jobs alone (`FOR UPDATE OF`, the
usual way around the error of PostgreSQL) breaks it, as the seeded fault `DueOnly`
shows. `SentinelStartsNothing` says what `next_run_at = NULL` amounts to: by
`NullMeansNoTrigger` such a config has no next run, so the tick that selects it
never commits and no job is ever created for it.

**The batch.** `BatchProofs` proves `TypeOK`, `Gathers` (an open gather has seen no
child fail, an `ok` one has seen all end well, a request is only completed by
such a gather) and `Rows` (a row is written by the step that ends its child)
inductive. From them `BatchTyped`, `CompletedBatches` and
`BatchImplementsExecutions`, in every world of faults. `NothingStartsLate` rests
on `Timely`: a request that waits for the tasks its timer or an abort has cancelled
is `Stopped`, every child of it that waits for a permit has a `CancelledError` on
its way, in every world of faults; where no child can fail by itself (`Calm`), no
request is interrupted but so, and it stays `Stopped` after it has answered. `RequestsWaitForTheirOwn` is
`NobodyStranded`: an open gather has an unfinished child (`Wakeful`: the last child
to end resolves it), and while none of a request's children holds a permit they
are all free (`PermitsLeft`).

**Names.** That names are distinct is not inductive. `NamesProofs` adds that
requests about to commit hold different rows and different names (`RowsApart`,
`NamesApart`) and that no other row bears a name about to be committed
(`NamesFree`). From that `NamesTyped` and `NamesUnique`. Without the constraint,
names are unique while requests come one by one: as long as none has overlapped
another, at most one is active (`Alone`), and its check is still right when it
writes and commits (`Checked`). From that `SerialRequests`, and `ConflictsOverlap`
for the table that has the constraint.

**Tasks.** `RegistryInv` says of the registry under construction that every key
names the function registered for it (`Keyed`) and that every declaration whose
decorator has run is registered (`Filled`); a repeated start-up does not disturb
it, since only a module that was left half-way is executed again. From it
`ServingIsComplete` and `SpecsAreDeclared`. `HalfInv` says that what is registered
comes from the modules up to the one being imported, and that the first decorator
of a module which has registered a task raises if it is executed again. That is
`RestartsFail`, whatever made the module fail; a module that failed before its first
task is registered is not meant, its import may go well the next time. `Doomed`
carries the fact through the next start-up, and gives `FailedNeverServes`. `ExecInv`
is about the executions: one that holds a permit is in its own context and its reset
token restores the empty one; one that runs, or has a success in hand, has entered a
function that can run (`Entered`), and one that asks for a retry has entered a
function, be it a synchronous one (`Called`); and before the application is up there
is none. From it `LabelsAreOwn` and `HopelessStayFailed`, and with `RegistryInv`
`SuccessIsEarned`. They hold for any deployment, jobs, requests and faults, if no job is a request.
`BatchInside` proves that a behaviour of `Tasks`, seen through the variables of the
batch, is one of `Batch`. So its theorems carry over without a second proof:
`CompletedInside`, `ExecutionsInside`, and with `HistoryTyped` `TasksTyped`.

Only model-checked: the liveness properties `TickEnds`, `RetryServed`,
`RequestAnswers`, `RecordedUnlessOwnWriteFails` and `OthersDoNotStarve`, which are
beyond the prover. `NobodyWaits`, `TicksGoOn` and `RequestsWaitForTheirOwn` prove
what they rest on: that nothing is blocked. Every other property of a passing run
is stated by a theorem.

## 5. Not modelled

* What task functions do, and the text of log records, errors and schemas.
* Read endpoints, pagination, the `data` of system_configs: nothing is changed and
  no other component reads them.
* `autodiscover` with explicit packages, which the application does not call.
* Settings, routing, authentication (`verify_api_key` is attached to no router),
  scripts, docker, and the running of migrations. Of the schema, the constraints
  on rows are modelled.
* Time zones and cron syntax: a cron expression is the period of its matches.
* A lock is released when its transaction ends; the database's own deadlock
  detection and serialization errors are covered by `Rollback` and by `Fail` of
  `Names`, where two requests that swap names wait for each other.
* At most one PATCH or PUT of a job is under way at a time, and no POST beside it.
* The row locks a client holds between the flush and the commit of one request:
  `WriteUpdate`, `DeleteConfig`, `WriteEdit` and `DeleteJob` are one step each. The
  UPDATE of `dispatchers/services.py:129-138` and the row write of an execution
  would wait for such a lock, the queries of the tick skip it.
  `NoLockWaitsUnlessEdited` is about the locks of other ticks only.
* Task modules that import one another: each is imported by `autodiscover` in its turn.

## 6. Plan

1. *Done:* the tick, its refinement and their proofs; the service with client
   requests to configs and jobs, its proofs and refinement; the batch for several
   requests, its proofs and refinement; registry, lookup and context, with
   their proofs and the batch's theorems; names, with and without the constraint.
2. *Left:* selection under a limit smaller than the number of due configs or
   failed jobs, which needs a model of unboundedly many ticks and an assumption
   about the order in which the database returns rows.
3. *Left:* several PATCH requests to one job at once.
