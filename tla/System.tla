------------------------------- MODULE System -------------------------------
(* The whole service over one database: the dispatcher's ticks (module       *)
(* Dispatch) together with the requests of the schedule_configs and          *)
(* schedule_jobs APIs that change the same rows while ticks are under way.   *)
(* A PATCH or PUT reads its row and writes it later, in one transaction      *)
(* without FOR UPDATE: a tick may commit in between. The write and the       *)
(* commit of a client's request are one step.                                *)
EXTENDS Dispatch

CONSTANTS
  Bodies,     \* what clients PATCH or PUT to configs: functions on Fields
  JobBodies,  \* what they send to jobs: functions on subsets of JobFields
  Clients     \* how many requests of each kind clients may send

\* The columns that a client can set, with their types: Fields of a config, and
\* of a job JobFields. A Post or Put carries them all: schedule_config_id and
\* dispatcher_run_id are NULL when left out. retry_need and retry_attempts are
\* in no schema.
ConfigColumns ==
  [cron |-> (Nat \ {0}) \cup {Null}, interval |-> OptInt, enabled |-> BOOLEAN,
   start |-> OptInt, end |-> OptInt]
JobColumns ==
  [cfg |-> Configs \cup {Null}, run |-> Ticks \cup {Null}, status |-> Status,
   started |-> Int, finished |-> OptInt]
JobFields == DOMAIN JobColumns

\* A body is a function on some of the columns.
Fills(body, columns) ==
  DOMAIN body \subseteq DOMAIN columns /\ \A f \in DOMAIN body : body[f] \in columns[f]

\* The bounds on client activity: POST, PATCH and PUT requests to configs and to
\* jobs, DELETE requests to either.
Budget == [config : Nat, job : Nat, delete : Nat]

ASSUME BodiesAssumption ==
  /\ \A b \in Bodies : Fills(b, ConfigColumns)
  /\ \A b \in JobBodies : Fills(b, JobColumns)
  /\ Clients \subseteq Budget

VARIABLES
  updates,  \* PATCH and PUT requests to configs that are under way
  edit,     \* the one to a job, Null when there is none
  clients,  \* the requests clients may still send
  raced,    \* history: the configs whose trigger changed under a request
  posted,   \* history: the jobs clients have posted
  edited    \* history: the jobs whose rows clients have written, posts included

history == <<raced, posted, edited>>
apiVars == <<updates, edit, clients, history>>
systemVars == <<vars, apiVars>>

\* A Put replaces every field and must be a valid config by itself.
Accepted(body) ==
  IF DOMAIN body = Fields THEN ValidTrigger(body) ELSE ValidPatch(body)

\* An UPDATE or DELETE waits for the rows a tick's transaction has locked.
ConfigFree(c) == \A t \in Ticks : c \notin HeldConfigs(t)
JobFree(j) == \A t \in Ticks : j \notin HeldJobs(t)

SystemInit ==
  /\ Init
  /\ updates = {} /\ edit = Null
  /\ clients \in Clients
  /\ raced = {} /\ posted = {} /\ edited = {}

-----------------------------------------------------------------------------
(* /schedule_configs *)

Spend(kind) == clients[kind] > 0 /\ clients' = [clients EXCEPT ![kind] = @ - 1]

\* The row is read and next_run_at is computed from it, at this time.
ReadForUpdate(c, body) ==
  /\ Spend("config")
  /\ config[c] # Null
  /\ Accepted(body)
  /\ updates' = updates \cup
       {[cfg |-> c, seen |-> config[c], body |-> body, now |-> now]}
  /\ UNCHANGED <<vars, edit, history>>

\* A new config has a new id: it stands for one whose row is gone and which no
\* request under way refers to. Its next run was computed before it is visible.
PostConfig(c, body) ==
  /\ Spend("config")
  /\ DOMAIN body = Fields /\ ValidTrigger(body)
  /\ config[c] = Null /\ edit = Null
  /\ \A u \in updates : u.cfg # c
  /\ \E n \in 0 .. now : config' = [config EXCEPT ![c] = CreateRow(body, n)]
  /\ raced' = raced \ {c}
  /\ UNCHANGED <<now, job, tick, live, updates, edit, posted, edited>>

TriggerOf(row) == <<row.cron, row.interval>>

\* The UPDATE of a row deleted since it was read matches nothing; it fails.
WriteUpdate(u) ==
  /\ ConfigFree(u.cfg)
  /\ LET row == config[u.cfg]
     IN  IF row = Null THEN UNCHANGED <<config, raced>>
         ELSE /\ config' = [config EXCEPT ![u.cfg] =
                              UpdateRow(row, u.seen, u.body, u.now)]
              /\ raced' = IF TriggerOf(row) = TriggerOf(u.seen) THEN raced
                          ELSE raced \cup {u.cfg}
  /\ updates' = updates \ {u}
  /\ UNCHANGED <<now, job, tick, live, edit, clients, posted, edited>>

\* ON DELETE SET NULL: the jobs of the config stay, without it.
DeleteConfig(c) ==
  /\ Spend("delete")
  /\ config[c] # Null
  /\ ConfigFree(c)
  /\ \A j \in Jobs : job[j] # Null /\ job[j].cfg = c => JobFree(j)
  /\ config' = [config EXCEPT ![c] = Null]
  /\ job' = [j \in Jobs |->
               IF job[j] # Null /\ job[j].cfg = c
               THEN [job[j] EXCEPT !.cfg = Null] ELSE job[j]]
  /\ UNCHANGED <<now, tick, live, updates, edit, history>>

-----------------------------------------------------------------------------
(* /schedule_jobs *)

\* The foreign key must refer to a row, or be NULL.
Refers(row) == row.cfg # Null => config[row.cfg] # Null

\* A client inserts a job. Its id is new: it stands for a job that a run which
\* is over did not create.
PostJob(j, body) ==
  /\ Spend("job")
  /\ DOMAIN body = JobFields
  /\ job[j] = Null /\ tick[j[1]].pc = "done" /\ j \notin UNION {live[t] : t \in Ticks}
  /\ edit = Null
  /\ LET row == [cfg |-> body.cfg, run |-> body.run, status |-> body.status,
                 started |-> body.started, finished |-> body.finished,
                 retryNeed |-> FALSE, attempts |-> 0]
     IN  Refers(row) /\ job' = [job EXCEPT ![j] = row]
  /\ posted' = posted \cup {j}
  /\ edited' = edited \cup {j}
  /\ UNCHANGED <<now, config, tick, live, updates, edit, raced>>

ReadForEdit(j, body) ==
  /\ Spend("job")
  /\ edit = Null
  /\ job[j] # Null
  /\ edit' = [job |-> j, seen |-> job[j], body |-> body]
  /\ UNCHANGED <<vars, updates, history>>

\* The ORM writes the columns whose value is not the one it read. A row that
\* is gone, or a reference to a config that is, makes the request fail.
EditRow(row, seen, body) ==
  [f \in DOMAIN row |->
     IF f \in DOMAIN body /\ body[f] # seen[f] THEN body[f] ELSE row[f]]

WriteEdit ==
  /\ edit # Null
  /\ JobFree(edit.job)
  /\ LET old == job[edit.job]
         new == EditRow(old, edit.seen, edit.body)
     IN  IF old # Null /\ Refers(new)
         THEN /\ job' = [job EXCEPT ![edit.job] = new]
              /\ edited' = edited \cup {edit.job}
         ELSE UNCHANGED <<job, edited>>
  /\ edit' = Null
  /\ UNCHANGED <<now, config, tick, live, updates, clients, raced, posted>>

DeleteJob(j) ==
  /\ Spend("delete")
  /\ job[j] # Null
  /\ JobFree(j)
  /\ job' = [job EXCEPT ![j] = Null]
  /\ UNCHANGED <<now, config, tick, live, updates, edit, history>>

-----------------------------------------------------------------------------

ConfigStep ==
  \/ \E c \in Configs : \/ DeleteConfig(c)
                        \/ \E b \in Bodies : PostConfig(c, b) \/ ReadForUpdate(c, b)
  \/ \E u \in updates : WriteUpdate(u)

JobStep ==
  \/ \E j \in Jobs : \/ DeleteJob(j)
                     \/ \E b \in JobBodies : PostJob(j, b) \/ ReadForEdit(j, b)
  \/ WriteEdit

SystemNext == (Next /\ UNCHANGED apiVars) \/ ConfigStep \/ JobStep

SystemSpec == SystemInit /\ [][SystemNext]_systemVars

-----------------------------------------------------------------------------
(* Properties *)

\* services.py:58-64 and the dispatcher agree on the sentinel: next_run_at is
\* NULL exactly for a config no next run can be computed for, whatever PATCH
\* requests and ticks write to the row in whatever order - but for configs
\* whose trigger was changed between a request's read and its write. (A PATCH
\* that clears the interval and one that sets a cron expression meanwhile leave
\* the expression with next_run_at NULL.)
NullMeansNoTrigger ==
  \A c \in Configs \ raced :
    config[c] # Null => (config[c].next = Null <=> ~CanCalc(config[c]))

\* README.md:14 with clients at work: jobs whose rows no client has written are
\* executed for one run at a time, also while clients edit other jobs. (A PATCH
\* that sets a retry under way to FAILURE does make a tick launch it again.)
OneExecutionUnlessEdited ==
  /\ \A t, u \in Ticks : t # u => live[t] \cap live[u] \subseteq edited
  /\ \A t \in Ticks : \A j \in live[t] \ edited :
       job[j] # Null => job[j].status = "PENDING" /\ job[j].run = t

\* schedule_jobs/models.py:75 with clients at work.
AttemptsBoundedUnlessEdited ==
  \A j \in Jobs \ edited : job[j] # Null =>
    /\ job[j].attempts <= RetryMax
    /\ (\E t \in Ticks : j \in live[t]) => job[j].attempts < RetryMax

\* services.py:105, 128-151 with clients at work: whatever clients delete, detach
\* and edit between the steps of ticks, no tick's UPDATE finds a row locked by
\* another tick, and only the row write of an edited job may. (The lock a client
\* holds between its own flush and commit is not modelled; it waits for nothing.)
NoLockWaitsUnlessEdited ==
  \A t \in Ticks :
    /\ tick[t].pc = "reset" => Superseded(t) \cap LockedJobs(t) = {}
    /\ live[t] \cap LockedJobs(t) \subseteq edited

\* dispatch.py:62-65 with clients at work: an execution is only launched again
\* with the config of its job, which exists at that moment and would pass its
\* validation. That it did when the tick looked is not enough: the lock on the
\* joined row keeps clients from changing it before the commit.
RelaunchReadable ==
  [][\A t \in Ticks : \A j \in live'[t] \ live[t] : job[j] # Null =>
       /\ job[j].cfg # Null /\ config[job[j].cfg] # Null
       /\ ValidTrigger(config[job[j].cfg])]_systemVars

\* schedule_jobs/schemas.py:9-30: a client cannot ask for a retry, so a job it
\* posts is never executed, whatever status it posts or sets it to.
PostedNeverRun == \A t \in Ticks : live[t] \cap posted = {}

\* services.py:71-80 with clients at work: a config is only started while it is
\* due by its row at the commit, whatever clients PATCH in between.
StartedWhenDue ==
  [][\A j \in Jobs \ posted' : job[j] = Null /\ job'[j] # Null =>
       IsDue(config[job'[j].cfg], job'[j].started)]_systemVars

\* Unless a client meddles with its row, a job still leads the abstract life:
\* for JobLife an edited job is gone.
EditedLife == INSTANCE JobLife WITH
  phase    <- [j \in Jobs |-> IF j \in edited THEN "gone" ELSE Phase(j)],
  finished <- [j \in Jobs |-> IF j \in edited THEN 0 ELSE Count(j)]

JobLifeUnlessEdited == EditedLife!Spec

-----------------------------------------------------------------------------
(* What documents and comments say and the code does not do *)

\* services.py:117-118: a job that is not of a current config, asks for a retry
\* and has attempts left is selected for retry. A job whose config was deleted
\* makes the tick that selects it fail instead.
OrphanRetried ==
  \A t \in Ticks : tick[t].pc = "failed" =>
    \A j \in tick[t].retry : job[j].cfg # Null

\* schedule_configs/models.py:34: enabled says whether the dispatcher picks
\* the schedule up; no execution is launched for one that is switched off.
OnlyEnabledLaunched ==
  [][\A t \in Ticks : \A j \in live'[t] \ live[t] :
       config[job'[j].cfg].enabled]_vars

=============================================================================
