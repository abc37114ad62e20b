---------------------------- MODULE SystemProofs ----------------------------
(* Proofs about the whole service: what the dispatcher promises of the jobs  *)
(* clients leave alone survives everything clients do, for any number of     *)
(* clients, requests, configs and ticks.                                     *)
EXTENDS System, DispatchProofs

Update == [cfg : Configs, seen : ConfigRow, body : Bodies, now : Int]
Edit == [job : Jobs, seen : JobRow, body : JobBodies]

\* Posted jobs belong to runs that are over, and ask for no retry.
PostedIdle ==
  \A j \in posted :
    /\ tick[j[1]].pc = "done"
    /\ \A t \in Ticks : j \notin live[t]
    /\ job[j] # Null => ~job[j].retryNeed

Requests ==
  /\ updates \subseteq Update
  /\ edit \in Edit \cup {Null}
  /\ posted \subseteq Jobs

SystemInv ==
  /\ Core /\ OneExecutionUnlessEdited /\ AttemptsBoundedUnlessEdited
  /\ Requests /\ PostedIdle

\* The first three, for a set of edited jobs that does not change.
LEMMA ButEdited ==
  ASSUME NEW X, X = edited
  PROVE  InvBut(X) <=> Core /\ OneExecutionUnlessEdited /\ AttemptsBoundedUnlessEdited
BY DEF InvBut, OnceBut, BoundedBut, OneExecutionUnlessEdited, AttemptsBoundedUnlessEdited

LEMMA ButEditedNext ==
  ASSUME NEW X, X = edited'
  PROVE  InvBut(X)' <=>
           (Core /\ OneExecutionUnlessEdited /\ AttemptsBoundedUnlessEdited)'
BY DEF InvBut, OnceBut, BoundedBut, OneExecutionUnlessEdited, AttemptsBoundedUnlessEdited,
   Core, TypeOK

LEMMA SystemInvInit == SystemInit => SystemInv
<1> SUFFICES ASSUME SystemInit PROVE SystemInv
  OBVIOUS
<1>1. Core /\ OneExecution /\ AttemptsBounded
  BY InvInit DEF SystemInit, Inv
<1>2. OneExecutionUnlessEdited /\ AttemptsBoundedUnlessEdited
  BY <1>1 DEF OneExecution, AttemptsBounded, OneExecutionUnlessEdited,
     AttemptsBoundedUnlessEdited
<1> QED
  BY <1>1, <1>2 DEF SystemInit, SystemInv, Requests, PostedIdle

-----------------------------------------------------------------------------
(* What clients write *)

\* A client's step leaves ticks and executions alone and writes no row a tick
\* has locked. What it makes of a job's row only matters when the job is not in
\* Y: then the row is gone, or has its status, run and attempts still.
LEMMA ClientInv ==
  ASSUME NEW X, InvBut(X), NEW Y, X \subseteq Y, UNCHANGED <<now, tick, live>>,
         config' \in [Configs -> ConfigRow \cup {Null}],
         job' \in [Jobs -> JobRow \cup {Null}],
         \A t \in Ticks : \A c \in tick[t].due : config'[c] = config[c],
         \A t \in Ticks : \A j \in HeldJobs(t) : job'[j] = job[j],
         \A j \in Jobs : job[j] = Null /\ tick[j[1]].pc # "done" => job'[j] = Null,
         \A j \in Jobs \ Y : job'[j] # Null =>
           /\ job[j] # Null
           /\ job'[j].status = job[j].status /\ job'[j].run = job[j].run
           /\ job'[j].attempts = job[j].attempts
  PROVE  InvBut(Y)'
<1> USE DEF InvBut, Core
<1>1. TypeOK' /\ StageShape'
  BY DEF TypeOK, StageShape
<1>2. RunShape'
  <2>1. ASSUME NEW t \in Ticks, tick[t].pc # "done", NEW c \in Configs
        PROVE  job'[<<t, c>>] = Null
    <3>1. <<t, c>> \in Jobs /\ job[<<t, c>>] = Null
      BY <2>1 DEF RunShape, Jobs
    <3> QED
      BY <2>1, <3>1
  <2> QED
    BY <2>1 DEF RunShape
<1>3. Locks'
  BY DEF Locks, HeldJobs
<1>4. Held'
  BY DEF Held, HeldJobs, Failed, AttemptsLeft
<1>5. FreshOrRetry'
  BY DEF FreshOrRetry, HeldJobs
<1>6. OnceBut(Y)'
  BY DEF OnceBut, TypeOK
<1>7. BoundedBut(Y)'
  BY DEF BoundedBut
<1> QED
  BY <1>1, <1>2, <1>3, <1>4, <1>5, <1>6, <1>7

\* The next run the service computes is NULL exactly when it can compute none.
LEMMA ServiceNextRunType ==
  ASSUME NEW tr, tr.cron \in (Nat \ {0}) \cup {Null}, tr.interval \in OptInt, NEW n \in Int
  PROVE  /\ ServiceNextRun(tr, n) \in OptInt
         /\ ServiceNextRun(tr, n) = Null <=> ~CanCalc(tr)
<1>1. CASE ~CanCalc(tr)
  BY <1>1 DEF ServiceNextRun, OptInt
<1>2. CASE CanCalc(tr)
  <2>1. CalcNextRun(tr, n) \in Int
    <3>1. CASE tr.cron # Null
      <4>1. tr.cron \in Nat /\ tr.cron > 0
        BY <3>1
      <4> QED
        BY <3>1, <4>1, NextMultiple DEF CalcNextRun
    <3>2. CASE tr.cron = Null
      <4>1. tr.interval \in Int
        BY <1>2, <3>2 DEF CanCalc, Falsy, OptInt
      <4> QED
        BY <3>2, <4>1 DEF CalcNextRun
    <3> QED
      BY <3>1, <3>2
  <2> QED
    BY <1>2, <2>1, NullAssumption DEF ServiceNextRun, OptInt
<1> QED
  BY <1>1, <1>2

\* The row a body asks for, with the types of the columns.
LEMMA AskedType ==
  ASSUME NEW seen \in ConfigRow, NEW body \in Bodies
  PROVE  [f \in DOMAIN seen |-> IF f \in DOMAIN body THEN body[f] ELSE seen[f]] \in ConfigRow
<1> DEFINE asked == [f \in DOMAIN seen |-> IF f \in DOMAIN body THEN body[f] ELSE seen[f]]
<1>1. DOMAIN seen = {"cron", "interval", "enabled", "start", "end", "next", "last"}
  BY DEF ConfigRow
<1>2. /\ DOMAIN body \subseteq {"cron", "interval", "enabled", "start", "end"}
      /\ "cron" \in DOMAIN body => body["cron"] \in (Nat \ {0}) \cup {Null}
      /\ "interval" \in DOMAIN body => body["interval"] \in OptInt
      /\ "enabled" \in DOMAIN body => body["enabled"] \in BOOLEAN
      /\ "start" \in DOMAIN body => body["start"] \in OptInt
      /\ "end" \in DOMAIN body => body["end"] \in OptInt
  BY BodiesAssumption DEF Fills, ConfigColumns
<1>3. /\ asked.cron \in (Nat \ {0}) \cup {Null} /\ asked.interval \in OptInt
      /\ asked.enabled \in BOOLEAN
      /\ asked.start \in OptInt /\ asked.end \in OptInt
      /\ asked.next \in OptInt /\ asked.last \in OptInt
  BY <1>1, <1>2 DEF ConfigRow
<1>4. asked = [cron |-> asked.cron, interval |-> asked.interval, enabled |-> asked.enabled,
               start |-> asked.start, end |-> asked.end, next |-> asked.next,
               last |-> asked.last]
  BY <1>1
<1>5. asked \in ConfigRow
  <2> HIDE DEF asked
  <2> QED
    BY <1>3, <1>4 DEF ConfigRow
<1> QED
  BY <1>5

\* The sentinel of a row is right.
Agrees(row) == row.next = Null <=> ~CanCalc(row)

\* What an UPDATE makes of a row keeps the types of the columns, and keeps the
\* sentinel right if the trigger is still the one the request has seen.
LEMMA UpdateRowKeeps ==
  ASSUME NEW row \in ConfigRow, NEW seen \in ConfigRow, NEW body \in Bodies, NEW n \in Int
  PROVE  /\ UpdateRow(row, seen, body, n) \in ConfigRow
         /\ TriggerOf(row) = TriggerOf(seen) /\ Agrees(row) /\ Agrees(seen) =>
              Agrees(UpdateRow(row, seen, body, n))
<1> DEFINE asked   == [f \in DOMAIN seen |-> IF f \in DOMAIN body THEN body[f] ELSE seen[f]]
           changed == asked.cron # seen.cron \/ asked.interval # seen.interval
           planned == [asked EXCEPT !.next = ServiceNextRun(asked, n)]
           new     == IF changed THEN planned ELSE asked
           result  == [f \in DOMAIN row |-> IF new[f] # seen[f] THEN new[f] ELSE row[f]]
<1>1. UpdateRow(row, seen, body, n) = result
  BY DEF UpdateRow
<1>2. asked \in ConfigRow /\ ("next" \notin DOMAIN body)
  BY AskedType, BodiesAssumption DEF Fills, ConfigColumns
<1>3. asked.next = seen.next
  BY <1>2 DEF ConfigRow
<1> HIDE DEF asked
<1>4. /\ ServiceNextRun(asked, n) \in OptInt
      /\ ServiceNextRun(asked, n) = Null <=> ~CanCalc(asked)
  BY <1>2, ServiceNextRunType DEF ConfigRow
<1>5. /\ planned \in ConfigRow /\ planned.next = ServiceNextRun(asked, n)
      /\ planned.cron = asked.cron /\ planned.interval = asked.interval
  BY <1>2, <1>4 DEF ConfigRow
<1> HIDE DEF planned
<1>6. /\ new \in ConfigRow
      /\ new.cron = asked.cron /\ new.interval = asked.interval
      /\ new.next = IF changed THEN ServiceNextRun(asked, n) ELSE seen.next
  BY <1>2, <1>3, <1>5
<1> HIDE DEF new
<1>7. /\ result.cron = IF new.cron # seen.cron THEN new.cron ELSE row.cron
      /\ result.interval = IF new.interval # seen.interval THEN new.interval ELSE row.interval
      /\ result.next = IF new.next # seen.next THEN new.next ELSE row.next
      /\ result.enabled \in {new.enabled, row.enabled}
      /\ result.start \in {new.start, row.start}
      /\ result.end \in {new.end, row.end}
      /\ result.last \in {new.last, row.last}
  BY DEF ConfigRow
<1>8. result \in ConfigRow
  <2>1. result = [cron |-> result.cron, interval |-> result.interval,
                  enabled |-> result.enabled, start |-> result.start, end |-> result.end,
                  next |-> result.next, last |-> result.last]
    BY DEF ConfigRow
  <2> HIDE DEF result
  <2> QED
    BY <1>6, <1>7, <2>1 DEF ConfigRow
<1> HIDE DEF result
<1>9. ASSUME TriggerOf(row) = TriggerOf(seen), Agrees(row), Agrees(seen)
      PROVE  Agrees(result)
  <2>1. row.cron = seen.cron /\ row.interval = seen.interval
    BY <1>9 DEF TriggerOf
  <2>2. result.cron = asked.cron /\ result.interval = asked.interval
    BY <1>6, <1>7, <2>1
  <2>3. CASE ~changed
    BY <1>6, <1>7, <1>9, <2>1, <2>2, <2>3 DEF Agrees, CanCalc
  <2>4. CASE changed
    <3>1. CanCalc(result) <=> CanCalc(asked)
      BY <2>2 DEF CanCalc
    <3>2. row.next = Null <=> seen.next = Null
      BY <1>9, <2>1 DEF Agrees, CanCalc
    <3> QED
      BY <1>4, <1>6, <1>7, <2>4, <3>1, <3>2 DEF Agrees
  <2> QED
    BY <2>3, <2>4
<1> QED
  BY <1>1, <1>8, <1>9

\* The job row a body makes, and what it leaves alone.
LEMMA EditRowType ==
  ASSUME NEW row \in JobRow, NEW seen \in JobRow, NEW body \in JobBodies
  PROVE  /\ EditRow(row, seen, body) \in JobRow
         /\ EditRow(row, seen, body).retryNeed = row.retryNeed
<1> DEFINE result == EditRow(row, seen, body)
<1>1. DOMAIN row = {"cfg", "run", "status", "started", "finished", "retryNeed", "attempts"}
  BY DEF JobRow
<1>2. /\ DOMAIN body \subseteq {"cfg", "run", "status", "started", "finished"}
      /\ "cfg" \in DOMAIN body => body["cfg"] \in Configs \cup {Null}
      /\ "run" \in DOMAIN body => body["run"] \in Ticks \cup {Null}
      /\ "status" \in DOMAIN body => body["status"] \in Status
      /\ "started" \in DOMAIN body => body["started"] \in Int
      /\ "finished" \in DOMAIN body => body["finished"] \in OptInt
  BY BodiesAssumption DEF Fills, JobColumns
<1>3. /\ result.cfg \in Configs \cup {Null} /\ result.run \in Ticks \cup {Null}
      /\ result.status \in Status /\ result.started \in Int /\ result.finished \in OptInt
      /\ result.retryNeed = row.retryNeed /\ result.attempts = row.attempts
  BY <1>1, <1>2 DEF EditRow, JobRow
<1>4. result = [cfg |-> result.cfg, run |-> result.run, status |-> result.status,
                started |-> result.started, finished |-> result.finished,
                retryNeed |-> result.retryNeed, attempts |-> result.attempts]
  BY <1>1 DEF EditRow
<1>5. result \in JobRow
  <2> HIDE DEF result
  <2> QED
    BY <1>3, <1>4 DEF JobRow
<1> QED
  BY <1>3, <1>5

-----------------------------------------------------------------------------
(* The steps of the clients *)

LEMMA ClientKeeps ==
  ASSUME SystemInv, edited \subseteq edited', UNCHANGED <<now, tick, live>>,
         config' \in [Configs -> ConfigRow \cup {Null}],
         job' \in [Jobs -> JobRow \cup {Null}],
         \A t \in Ticks : \A c \in tick[t].due : config'[c] = config[c],
         \A t \in Ticks : \A j \in HeldJobs(t) : job'[j] = job[j],
         \A j \in Jobs : job[j] = Null /\ tick[j[1]].pc # "done" => job'[j] = Null,
         \A j \in Jobs \ edited' : job'[j] # Null =>
           /\ job[j] # Null
           /\ job'[j].status = job[j].status /\ job'[j].run = job[j].run
           /\ job'[j].attempts = job[j].attempts
  PROVE  (Core /\ OneExecutionUnlessEdited /\ AttemptsBoundedUnlessEdited)'
<1>1. PICK X : X = edited
  OBVIOUS
<1>2. PICK Y : Y = edited'
  OBVIOUS
<1>3. InvBut(X)
  BY <1>1, ButEdited DEF SystemInv
<1>4. InvBut(Y)'
  BY <1>1, <1>2, <1>3, ClientInv
<1> QED
  BY <1>2, <1>4, ButEditedNext

\* The tables, and what ticks have locked of them.
LEMMA Tables ==
  ASSUME SystemInv
  PROVE  /\ now \in Int
         /\ config \in [Configs -> ConfigRow \cup {Null}]
         /\ job \in [Jobs -> JobRow \cup {Null}]
         /\ \A t \in Ticks : tick[t].due \subseteq Configs /\ HeldJobs(t) \subseteq Jobs
         /\ \A t \in Ticks : tick[t].due \subseteq HeldConfigs(t)
BY DEF SystemInv, Core, TypeOK, TickRecord, HeldJobs, HeldConfigs

LEMMA ReadInv ==
  ASSUME SystemInv,
         \/ \E c \in Configs, b \in Bodies : ReadForUpdate(c, b)
         \/ \E j \in Jobs, b \in JobBodies : ReadForEdit(j, b)
  PROVE  SystemInv'
<1>1. UNCHANGED <<now, config, job, tick, live, raced, posted, edited>>
  BY DEF ReadForUpdate, ReadForEdit, vars, history
<1>2. (Core /\ OneExecutionUnlessEdited /\ AttemptsBoundedUnlessEdited)'
  BY <1>1, Tables, ClientKeeps
<1>3. Requests'
  <2>1. CASE \E c \in Configs, b \in Bodies : ReadForUpdate(c, b)
    <3>1. PICK c \in Configs, b \in Bodies : ReadForUpdate(c, b)
      BY <2>1
    <3>2. config[c] \in ConfigRow /\ now \in Int
      BY <3>1, Tables DEF ReadForUpdate
    <3>3. [cfg |-> c, seen |-> config[c], body |-> b, now |-> now] \in Update
      BY <3>2 DEF Update
    <3> QED
      BY <1>1, <3>1, <3>3 DEF ReadForUpdate, SystemInv, Requests
  <2>2. CASE \E j \in Jobs, b \in JobBodies : ReadForEdit(j, b)
    <3>1. PICK j \in Jobs, b \in JobBodies : ReadForEdit(j, b)
      BY <2>2
    <3>2. job[j] \in JobRow
      BY <3>1, Tables DEF ReadForEdit
    <3>3. [job |-> j, seen |-> job[j], body |-> b] \in Edit
      BY <3>2 DEF Edit
    <3> QED
      BY <1>1, <3>1, <3>3 DEF ReadForEdit, SystemInv, Requests
  <2> QED
    BY <2>1, <2>2
<1>4. PostedIdle'
  BY <1>1 DEF SystemInv, PostedIdle
<1> QED
  BY <1>2, <1>3, <1>4 DEF SystemInv

\* An UPDATE of a config waits for the ticks that have selected it.
LEMMA WriteUpdateInv ==
  ASSUME SystemInv, NEW u \in updates, WriteUpdate(u) PROVE SystemInv'
<1>1. UNCHANGED <<now, job, tick, live, edit, posted, edited>> /\ updates' \subseteq updates
  BY DEF WriteUpdate
<1>2. u \in Update
  BY DEF SystemInv, Requests
<1>3. /\ config' \in [Configs -> ConfigRow \cup {Null}]
      /\ \A c \in Configs \ {u.cfg} : config'[c] = config[c]
  <2>1. CASE config[u.cfg] = Null
    BY <2>1, Tables DEF WriteUpdate
  <2>2. CASE config[u.cfg] # Null
    <3>1. config[u.cfg] \in ConfigRow
      BY <1>2, <2>2, Tables DEF Update
    <3>2. UpdateRow(config[u.cfg], u.seen, u.body, u.now) \in ConfigRow
      BY <1>2, <3>1, UpdateRowKeeps DEF Update
    <3>3. config' = [config EXCEPT ![u.cfg] =
                       UpdateRow(config[u.cfg], u.seen, u.body, u.now)]
      BY <2>2 DEF WriteUpdate
    <3> QED
      BY <3>2, <3>3, Tables
  <2> QED
    BY <2>1, <2>2
<1>4. \A t \in Ticks : \A c \in tick[t].due : config'[c] = config[c]
  BY <1>3, Tables DEF WriteUpdate, ConfigFree
<1>5. (Core /\ OneExecutionUnlessEdited /\ AttemptsBoundedUnlessEdited)'
  BY <1>1, <1>3, <1>4, Tables, ClientKeeps
<1>6. Requests' /\ PostedIdle'
  BY <1>1 DEF SystemInv, Requests, PostedIdle
<1> QED
  BY <1>5, <1>6 DEF SystemInv

\* Rows as POST stores them: its body has the types of the columns.
LEMMA CreatedRow ==
  ASSUME NEW body, Fills(body, ConfigColumns), DOMAIN body = Fields, NEW n \in Int
  PROVE  CreateRow(body, n) \in ConfigRow /\ Agrees(CreateRow(body, n))
<1>1. /\ body.cron \in (Nat \ {0}) \cup {Null} /\ body.interval \in OptInt
      /\ body.enabled \in BOOLEAN /\ body.start \in OptInt /\ body.end \in OptInt
  BY DEF Fills, ConfigColumns, Fields
<1>2. /\ ServiceNextRun(body, n) \in OptInt
      /\ ServiceNextRun(body, n) = Null <=> ~CanCalc(body)
  BY <1>1, ServiceNextRunType
<1>3. CreateRow(body, n) \in ConfigRow
  BY <1>1, <1>2 DEF CreateRow, ConfigRow, OptInt
<1>4. Agrees(CreateRow(body, n))
  BY <1>2 DEF CreateRow, Agrees, CanCalc
<1> QED
  BY <1>3, <1>4

\* No tick has selected a config that is not there.
LEMMA PostConfigInv ==
  ASSUME SystemInv, NEW c \in Configs, NEW b \in Bodies, PostConfig(c, b) PROVE SystemInv'
<1>1. UNCHANGED <<now, job, tick, live, updates, edit, posted, edited>>
  BY DEF PostConfig
<1>2. PICK n \in 0 .. now : config' = [config EXCEPT ![c] = CreateRow(b, n)]
  BY DEF PostConfig
<1>3. CreateRow(b, n) \in ConfigRow
  BY <1>2, CreatedRow, BodiesAssumption DEF PostConfig
<1>4. config' \in [Configs -> ConfigRow \cup {Null}]
  BY <1>2, <1>3, Tables
<1>5. \A t \in Ticks : \A d \in tick[t].due : config[d] # Null
  BY DEF SystemInv, Core, Held
<1>6. \A t \in Ticks : \A d \in tick[t].due : config'[d] = config[d]
  BY <1>2, <1>5, Tables DEF PostConfig
<1>7. (Core /\ OneExecutionUnlessEdited /\ AttemptsBoundedUnlessEdited)'
  BY <1>1, <1>4, <1>6, Tables, ClientKeeps
<1>8. Requests' /\ PostedIdle'
  BY <1>1 DEF SystemInv, Requests, PostedIdle
<1> QED
  BY <1>7, <1>8 DEF SystemInv

\* ON DELETE SET NULL writes jobs too, and waits for their locks.
LEMMA DeleteConfigInv ==
  ASSUME SystemInv, NEW c \in Configs, DeleteConfig(c) PROVE SystemInv'
<1>1. UNCHANGED <<now, tick, live, updates, edit, posted, edited>>
  BY DEF DeleteConfig, history
<1>2. /\ config' \in [Configs -> ConfigRow \cup {Null}]
      /\ \A t \in Ticks : \A d \in tick[t].due : config'[d] = config[d]
  BY Tables DEF DeleteConfig, ConfigFree
<1>3. ASSUME NEW j \in Jobs
      PROVE  \/ job'[j] = job[j]
             \/ /\ job[j] \in JobRow /\ job[j] # Null /\ JobFree(j)
                /\ job'[j] = [job[j] EXCEPT !.cfg = Null]
  BY Tables DEF DeleteConfig
<1>4. ASSUME NEW j \in Jobs
      PROVE  /\ job'[j] \in JobRow \cup {Null}
             /\ job[j] = Null => job'[j] = Null
             /\ job'[j] # Null =>
                  /\ job'[j].status = job[j].status /\ job'[j].run = job[j].run
                  /\ job'[j].attempts = job[j].attempts
                  /\ job'[j].retryNeed = job[j].retryNeed
             /\ job'[j] = job[j] \/ JobFree(j)
  <2>1. CASE job'[j] = job[j]
    BY <2>1, Tables
  <2>2. CASE /\ job[j] \in JobRow /\ job[j] # Null /\ JobFree(j)
             /\ job'[j] = [job[j] EXCEPT !.cfg = Null]
    BY <2>2 DEF JobRow
  <2> QED
    BY <1>3, <2>1, <2>2
<1>5. job' \in [Jobs -> JobRow \cup {Null}]
  <2>1. job' = [j \in Jobs |-> job'[j]]
    BY DEF DeleteConfig
  <2> QED
    BY <1>4, <2>1
<1>6. \A t \in Ticks : \A j \in HeldJobs(t) : job'[j] = job[j]
  BY <1>4, Tables DEF JobFree
<1>7. (Core /\ OneExecutionUnlessEdited /\ AttemptsBoundedUnlessEdited)'
  BY <1>1, <1>2, <1>4, <1>5, <1>6, ClientKeeps
<1>8. Requests' /\ PostedIdle'
  BY <1>1, <1>4 DEF SystemInv, Requests, PostedIdle
<1> QED
  BY <1>7, <1>8 DEF SystemInv

LEMMA DeleteJobInv ==
  ASSUME SystemInv, NEW j \in Jobs, DeleteJob(j) PROVE SystemInv'
<1>1. /\ job' = [job EXCEPT ![j] = Null] /\ JobFree(j)
      /\ UNCHANGED <<now, config, tick, live, updates, edit, posted, edited>>
  BY DEF DeleteJob, history
<1>2. \A t \in Ticks : \A i \in HeldJobs(t) : job'[i] = job[i]
  BY <1>1, Tables DEF JobFree
<1>3. (Core /\ OneExecutionUnlessEdited /\ AttemptsBoundedUnlessEdited)'
  BY <1>1, <1>2, Tables, ClientKeeps
<1>4. Requests' /\ PostedIdle'
  BY <1>1, Tables DEF SystemInv, Requests, PostedIdle
<1> QED
  BY <1>3, <1>4 DEF SystemInv

\* The row a client posts is of a run that is over, and of no execution.
LEMMA PostJobInv ==
  ASSUME SystemInv, NEW j \in Jobs, NEW body \in JobBodies, PostJob(j, body)
  PROVE  SystemInv'
<1> DEFINE new == [cfg |-> body.cfg, run |-> body.run, status |-> body.status,
                   started |-> body.started, finished |-> body.finished,
                   retryNeed |-> FALSE, attempts |-> 0]
<1>1. /\ job' = [job EXCEPT ![j] = new] /\ job[j] = Null /\ tick[j[1]].pc = "done"
      /\ \A t \in Ticks : j \notin live[t]
      /\ posted' = posted \cup {j} /\ edited' = edited \cup {j}
      /\ UNCHANGED <<now, config, tick, live, updates, edit>>
  BY DEF PostJob
<1>2. new \in JobRow
  <2>1. DOMAIN body = {"cfg", "run", "status", "started", "finished"}
    BY DEF PostJob, JobFields, JobColumns
  <2>2. /\ body.cfg \in Configs \cup {Null} /\ body.run \in Ticks \cup {Null}
        /\ body.status \in Status /\ body.started \in Int /\ body.finished \in OptInt
    BY <2>1, BodiesAssumption DEF Fills, JobColumns
  <2> QED
    BY <2>2 DEF JobRow
<1>3. ~new.retryNeed
  OBVIOUS
<1> HIDE DEF new
<1>4. \A t \in Ticks : \A i \in HeldJobs(t) : job'[i] = job[i]
  <2>1. \A t \in Ticks : j \notin HeldJobs(t)
    BY <1>1 DEF SystemInv, Core, Held, Failed
  <2> QED
    BY <1>1, <2>1, Tables
<1>5. (Core /\ OneExecutionUnlessEdited /\ AttemptsBoundedUnlessEdited)'
  BY <1>1, <1>2, <1>4, Tables, ClientKeeps
<1>6. Requests' /\ PostedIdle'
  BY <1>1, <1>3, Tables DEF SystemInv, Requests, PostedIdle
<1> QED
  BY <1>5, <1>6 DEF SystemInv

LEMMA WriteEditInv ==
  ASSUME SystemInv, WriteEdit PROVE SystemInv'
<1>1. /\ edit \in Edit /\ edit' = Null /\ JobFree(edit.job)
      /\ UNCHANGED <<now, config, tick, live, updates, posted>>
  BY DEF WriteEdit, SystemInv, Requests
<1>2. edit.job \in Jobs /\ edit.seen \in JobRow /\ edit.body \in JobBodies
  BY <1>1 DEF Edit
<1> DEFINE new == EditRow(job[edit.job], edit.seen, edit.body)
<1>3. CASE UNCHANGED <<job, edited>>
  <2>1. (Core /\ OneExecutionUnlessEdited /\ AttemptsBoundedUnlessEdited)'
    BY <1>1, <1>3, Tables, ClientKeeps
  <2>2. Requests' /\ PostedIdle'
    BY <1>1, <1>3 DEF SystemInv, Requests, PostedIdle
  <2> QED
    BY <2>1, <2>2 DEF SystemInv
<1>4. CASE /\ job[edit.job] # Null
           /\ job' = [job EXCEPT ![edit.job] = new]
           /\ edited' = edited \cup {edit.job}
  <2>1. job[edit.job] \in JobRow
    BY <1>2, <1>4, Tables
  <2>2. new \in JobRow /\ new.retryNeed = job[edit.job].retryNeed
    BY <1>2, <2>1, EditRowType
  <2> HIDE DEF new
  <2>3. \A t \in Ticks : \A i \in HeldJobs(t) : job'[i] = job[i]
    BY <1>1, <1>4, Tables DEF JobFree
  <2>4. (Core /\ OneExecutionUnlessEdited /\ AttemptsBoundedUnlessEdited)'
    BY <1>1, <1>2, <1>4, <2>2, <2>3, Tables, ClientKeeps
  <2>5. Requests' /\ PostedIdle'
    BY <1>1, <1>4, <2>2, Tables DEF SystemInv, Requests, PostedIdle
  <2> QED
    BY <2>4, <2>5 DEF SystemInv
<1> QED
  BY <1>3, <1>4 DEF WriteEdit

-----------------------------------------------------------------------------
(* The steps of the dispatcher *)

\* A tick never executes a posted job: it launches the jobs it creates itself,
\* and retries, which ask for it.
LEMMA DispatcherInv ==
  ASSUME SystemInv, Next, UNCHANGED apiVars PROVE SystemInv'
<1>1. UNCHANGED <<updates, edit, posted, edited>>
  BY DEF apiVars, history
<1>2. PICK X : X = edited
  OBVIOUS
<1>3. InvBut(X)'
  BY <1>2, ButEdited, InvButStep DEF SystemInv
<1>4. (Core /\ OneExecutionUnlessEdited /\ AttemptsBoundedUnlessEdited)'
  BY <1>1, <1>2, <1>3, ButEditedNext
<1>5. Requests'
  BY <1>1 DEF SystemInv, Requests
<1>6. ASSUME NEW j \in posted
      PROVE  /\ tick'[j[1]].pc = "done"
             /\ \A t \in Ticks : j \notin live'[t]
             /\ job'[j] # Null => ~job'[j].retryNeed
  <2>1. /\ j \in Jobs /\ j[1] \in Ticks /\ tick[j[1]].pc = "done"
        /\ \A t \in Ticks : j \notin live[t]
        /\ job[j] # Null => ~job[j].retryNeed
    BY <1>6 DEF SystemInv, Requests, PostedIdle, Jobs
  <2>2. Core
    BY DEF SystemInv
  <2>3. ASSUME NEW t \in Ticks, Commit(t)
        PROVE  /\ tick'[j[1]].pc = "done"
               /\ \A u \in Ticks : j \notin live'[u]
               /\ job'[j] # Null => ~job'[j].retryNeed
    <3>1. tick[t].pc = "commit" /\ j[1] # t
      BY <2>1, <2>2, <2>3, CommitTicks
    <3>2. j \notin FreshJobs(t)
      BY <3>1 DEF FreshJobs
    <3>3. j \notin HeldJobs(t)
      BY <2>1, <2>2 DEF Core, Held, Failed
    <3>4. job'[j] = job[j]
      BY <2>1, <2>2, <2>3, <3>2, <3>3, CommitRows
    <3> QED
      BY <2>1, <2>2, <2>3, <3>1, <3>2, <3>3, <3>4, CommitTicks DEF HeldJobs
  <2>4. ASSUME NEW t \in Ticks, Begin(t) \/ SelectDue(t) \/ CreateJobs(t)
                 \/ ResetRetry(t) \/ SelectRetry(t) \/ Unwind(t) \/ Rollback(t)
        PROVE  /\ tick'[j[1]].pc = "done" /\ live' = live /\ job' = job
    <3>1. live' = live /\ job' = job /\ tick[t].pc # "done"
      BY <2>4 DEF Begin, SelectDue, CreateJobs, ResetRetry, SelectRetry, Unwind,
         Rollback, InTx, Stages
    <3>2. \A u \in Ticks \ {t} : tick'[u] = tick[u]
      BY <2>2, <2>4 DEF Begin, SelectDue, CreateJobs, ResetRetry, SelectRetry, Unwind,
         Rollback, Core, TypeOK
    <3> QED
      BY <2>1, <3>1, <3>2
  <2>5. ASSUME NEW t \in Ticks, ExecutionStep(t)
        PROVE  /\ tick' = tick /\ job'[j] = job[j]
               /\ \A u \in Ticks : live'[u] \subseteq live[u]
    <3>1. PICK i \in live[t] : /\ tick' = tick /\ live' = [live EXCEPT ![t] = @ \ {i}]
                               /\ \A k \in Jobs \ {i} : job'[k] = job[k]
      BY <2>2, <2>5 DEF ExecutionStep, Lose, Finish, Core, TypeOK
    <3> QED
      BY <2>1, <2>2, <3>1 DEF Core, TypeOK
  <2>6. CASE Advance \/ Terminated
    BY <2>1, <2>6 DEF Advance, Terminated, vars
  <2> QED
    BY <2>1, <2>3, <2>4, <2>5, <2>6 DEF Next, TickStep
<1>7. PostedIdle'
  BY <1>1, <1>6 DEF PostedIdle
<1> QED
  BY <1>4, <1>5, <1>7 DEF SystemInv

LEMMA SystemInvStep == SystemInv /\ [SystemNext]_systemVars => SystemInv'
<1> SUFFICES ASSUME SystemInv, [SystemNext]_systemVars PROVE SystemInv'
  OBVIOUS
<1>1. CASE Next /\ UNCHANGED apiVars
  BY <1>1, DispatcherInv
<1>2. CASE ConfigStep
  BY <1>2, ReadInv, WriteUpdateInv, PostConfigInv, DeleteConfigInv DEF ConfigStep
<1>3. CASE JobStep
  BY <1>3, ReadInv, DeleteJobInv, PostJobInv, WriteEditInv DEF JobStep
<1>4. CASE UNCHANGED systemVars
  <2>1. UNCHANGED <<now, config, job, tick, live, updates, edit, posted, edited>>
    BY <1>4 DEF systemVars, vars, apiVars, history
  <2>2. (Core /\ OneExecutionUnlessEdited /\ AttemptsBoundedUnlessEdited)'
    BY <2>1, Tables, ClientKeeps
  <2>3. Requests' /\ PostedIdle'
    BY <2>1 DEF SystemInv, Requests, PostedIdle
  <2> QED
    BY <2>2, <2>3 DEF SystemInv
<1> QED
  BY <1>1, <1>2, <1>3, <1>4 DEF SystemNext

THEOREM SystemInvariance == SystemSpec => []SystemInv
BY SystemInvInit, SystemInvStep, PTL DEF SystemSpec

\* Whatever clients do to configs and to other jobs, a job they have not written
\* is executed for one run at a time.
THEOREM OneExecutionWithClients == SystemSpec => []OneExecutionUnlessEdited
<1>1. SystemInv => OneExecutionUnlessEdited
  BY DEF SystemInv
<1> QED
  BY <1>1, SystemInvariance, PTL

\* And it is executed at most RetryMax times.
THEOREM AttemptsWithClients == SystemSpec => []AttemptsBoundedUnlessEdited
<1>1. SystemInv => AttemptsBoundedUnlessEdited
  BY DEF SystemInv
<1> QED
  BY <1>1, SystemInvariance, PTL

\* A job a client posts is never executed, whatever status clients give it.
THEOREM PostedStayIdle == SystemSpec => []PostedNeverRun
<1>1. SystemInv => PostedNeverRun
  BY DEF SystemInv, PostedIdle, PostedNeverRun
<1> QED
  BY <1>1, SystemInvariance, PTL

-----------------------------------------------------------------------------
(* Nobody waits for a lock *)

\* Clients wait for the rows ticks hold: they take none, and change none.
LEMMA ClientLeavesLocked ==
  ASSUME SystemInv, ConfigStep \/ JobStep
  PROVE  tick' = tick /\ \A t \in Ticks : \A j \in HeldJobs(t) : job'[j] = job[j]
<1>1. tick' = tick
  BY DEF ConfigStep, JobStep, DeleteConfig, PostConfig, ReadForUpdate, WriteUpdate,
     DeleteJob, PostJob, ReadForEdit, WriteEdit, vars
<1> SUFFICES ASSUME NEW t \in Ticks, NEW j \in HeldJobs(t) PROVE job'[j] = job[j]
  BY <1>1
<1>2. j \in Jobs /\ job[j] # Null /\ ~JobFree(j)
  BY Tables DEF SystemInv, Core, Held, Failed, JobFree
<1>3. CASE \E c \in Configs : DeleteConfig(c)
  BY <1>2, <1>3 DEF DeleteConfig
<1>4. CASE \E i \in Jobs : DeleteJob(i)
  BY <1>2, <1>4, Tables DEF DeleteJob
<1>5. CASE \E i \in Jobs, b \in JobBodies : PostJob(i, b)
  BY <1>2, <1>5, Tables DEF PostJob
<1>6. CASE WriteEdit
  BY <1>2, <1>6, Tables DEF WriteEdit
<1>7. CASE job' = job
  BY <1>7
<1> QED
  BY <1>3, <1>4, <1>5, <1>6, <1>7 DEF ConfigStep, JobStep, PostConfig, ReadForUpdate,
     WriteUpdate, ReadForEdit, vars

LEMMA SystemLockStep == SystemInv /\ LockInv /\ [SystemNext]_systemVars => LockInv'
<1> SUFFICES ASSUME SystemInv, LockInv, [SystemNext]_systemVars PROVE LockInv'
  OBVIOUS
<1>1. CASE [Next]_vars
  BY <1>1, LockStep DEF SystemInv
<1>2. CASE ConfigStep \/ JobStep
  BY <1>2, ClientLeavesLocked, LockKept DEF Keeps
<1> QED
  BY <1>1, <1>2 DEF SystemNext, systemVars

\* With any number of clients deleting, detaching and editing jobs and configs,
\* no UPDATE of a tick finds a row that another tick has locked, and only the row
\* write of an edited job may.
THEOREM NobodyWaitsWithClients == SystemSpec => []NoLockWaitsUnlessEdited
<1>1. SystemInit => LockInv
  BY LockInit DEF SystemInit
<1>2. SystemInv /\ LockInv => NoLockWaitsUnlessEdited
  <2> SUFFICES ASSUME SystemInv, LockInv, NEW t \in Ticks, NEW j \in live[t] \ edited,
                      j \in LockedJobs(t)
               PROVE  FALSE
    BY UpdateIsFree DEF NoLockWaitsUnlessEdited, SystemInv
  <2>1. PICK u \in Ticks : j \in HeldJobs(u)
    BY DEF LockedJobs
  <2> QED
    BY <2>1 DEF SystemInv, Core, Held, Failed, OneExecutionUnlessEdited
<1> QED
  BY <1>1, <1>2, SystemLockStep, SystemInvariance, PTL DEF SystemSpec

-----------------------------------------------------------------------------
(* Due configs and the sentinel *)

\* Only commits create rows that clients have not posted.
LEMMA StartStep ==
  ASSUME SystemInv, [SystemNext]_systemVars, NEW j \in Jobs \ posted',
         job[j] = Null, job'[j] # Null
  PROVE  /\ IsDue(config[job'[j].cfg], job'[j].started)
         /\ job'[j].cfg \in Configs /\ config[job'[j].cfg] # Null
         /\ ~Poison(config[job'[j].cfg])
<1>1. CASE Next
  BY <1>1, CreationStep DEF SystemInv
<1>2. CASE job' = job
  BY <1>2
<1>3. ASSUME NEW c \in Configs, DeleteConfig(c) PROVE FALSE
  BY <1>3 DEF DeleteConfig
<1>4. ASSUME NEW i \in Jobs, DeleteJob(i) PROVE FALSE
  BY <1>4, Tables DEF DeleteJob
<1>5. ASSUME NEW i \in Jobs, NEW b \in JobBodies, PostJob(i, b) PROVE FALSE
  BY <1>5, Tables DEF PostJob
<1>6. ASSUME WriteEdit PROVE FALSE
  <2>1. edit \in Edit
    BY <1>6 DEF WriteEdit, SystemInv, Requests
  <2> QED
    BY <1>6, <2>1, Tables DEF WriteEdit, Edit
<1> QED
  BY <1>1, <1>2, <1>3, <1>4, <1>5, <1>6 DEF SystemNext, ConfigStep, JobStep,
     ReadForUpdate, WriteUpdate, PostConfig, ReadForEdit, systemVars, vars

\* Whatever clients PATCH in between, a config is only started while it is due.
THEOREM StartedWhenDueWithClients == SystemSpec => StartedWhenDue
<1> DEFINE Due == \A j \in Jobs \ posted' : job[j] = Null /\ job'[j] # Null =>
                    IsDue(config[job'[j].cfg], job'[j].started)
<1>1. SystemInv /\ [SystemNext]_systemVars => [Due]_systemVars
  BY StartStep
<1> QED
  BY <1>1, SystemInvariance, PTL DEF SystemSpec, StartedWhenDue

\* The initial rows are ones POST has stored, so they may be assumed to agree.
SoundRows == \A row \in InitRows : Agrees(row)

\* What a request has read agrees too, unless the trigger has changed since.
Seen == \A u \in updates : u.cfg \notin raced => Agrees(u.seen)

LEMMA AgreeStep ==
  ASSUME SystemInv, NullMeansNoTrigger, Seen, [SystemNext]_systemVars
  PROVE  NullMeansNoTrigger' /\ Seen'
<1> USE DEF Agrees
<1>1. ASSUME NEW t \in Ticks, Commit(t), UNCHANGED apiVars
      PROVE  NullMeansNoTrigger' /\ Seen'
  <2>1. updates' = updates /\ raced' = raced
    BY <1>1 DEF apiVars, history
  <2>2. ASSUME NEW c \in tick[t].due
        PROVE  config'[c].next # Null /\ CanCalc(config'[c])
    <3>1. c \in Configs /\ config[c] \in ConfigRow /\ ~Poison(config[c])
      BY <1>1, <2>2 DEF Commit, SystemInv, Core, Held, TypeOK, TickRecord
    <3>2. CalcNextRun(config[c], tick[t].now) \in Int
      BY <1>1, <3>1, NextRunType DEF SystemInv, Core, TypeOK, TickRecord
    <3>3. config'[c] = AdvancedRow(config[c], tick[t].now)
      BY <1>1, <2>2, <3>1 DEF Commit
    <3> QED
      BY <3>1, <3>2, <3>3, NullAssumption DEF AdvancedRow, ConfigRow, CanCalc, Poison
  <2>3. \A c \in Configs \ tick[t].due : config'[c] = config[c]
    BY <1>1 DEF Commit
  <2> QED
    BY <2>1, <2>2, <2>3 DEF NullMeansNoTrigger, Seen
<1>2. ASSUME UNCHANGED <<config, updates, raced>> PROVE NullMeansNoTrigger' /\ Seen'
  BY <1>2 DEF NullMeansNoTrigger, Seen
<1>3. ASSUME NEW c \in Configs, NEW b \in Bodies, ReadForUpdate(c, b)
      PROVE  NullMeansNoTrigger' /\ Seen'
  <2>1. UNCHANGED <<config, raced>>
    BY <1>3 DEF ReadForUpdate, vars, history
  <2>2. ASSUME c \notin raced PROVE Agrees(config[c])
    BY <1>3, <2>2 DEF ReadForUpdate, NullMeansNoTrigger
  <2>3. Seen'
    BY <1>3, <2>1, <2>2 DEF ReadForUpdate, Seen
  <2> QED
    BY <2>1, <2>3 DEF NullMeansNoTrigger
<1>4. ASSUME NEW u \in updates, WriteUpdate(u) PROVE NullMeansNoTrigger' /\ Seen'
  <2>1. raced \subseteq raced' /\ updates' \subseteq updates
    BY <1>4 DEF WriteUpdate
  <2>2. Seen'
    BY <2>1 DEF Seen
  <2>3. u \in Update
    BY DEF SystemInv, Requests
  <2>4. CASE config[u.cfg] = Null
    <3>1. UNCHANGED <<config, raced>>
      BY <1>4, <2>4 DEF WriteUpdate
    <3> QED
      BY <2>2, <3>1 DEF NullMeansNoTrigger
  <2>5. CASE config[u.cfg] # Null
    <3>1. config[u.cfg] \in ConfigRow
      BY <2>3, <2>5, Tables DEF Update
    <3> DEFINE new == UpdateRow(config[u.cfg], u.seen, u.body, u.now)
    <3>2. config' = [config EXCEPT ![u.cfg] = new]
      BY <1>4, <2>5 DEF WriteUpdate
    <3>3. ASSUME u.cfg \notin raced' PROVE Agrees(new)
      <4>1. TriggerOf(config[u.cfg]) = TriggerOf(u.seen) /\ u.cfg \notin raced
        BY <1>4, <2>5, <3>3 DEF WriteUpdate
      <4>2. Agrees(config[u.cfg]) /\ Agrees(u.seen)
        BY <2>3, <2>5, <4>1 DEF NullMeansNoTrigger, Seen, Update
      <4> QED
        BY <2>3, <3>1, <4>1, <4>2, UpdateRowKeeps DEF Update
    <3> HIDE DEF new
    <3> QED
      BY <2>1, <2>2, <3>2, <3>3, Tables DEF NullMeansNoTrigger
  <2> QED
    BY <2>4, <2>5
<1>5. ASSUME NEW c \in Configs, DeleteConfig(c) PROVE NullMeansNoTrigger' /\ Seen'
  BY <1>5, Tables DEF DeleteConfig, history, NullMeansNoTrigger, Seen
<1>6. ASSUME NEW c \in Configs, NEW b \in Bodies, PostConfig(c, b)
      PROVE  NullMeansNoTrigger' /\ Seen'
  <2>1. PICK n \in 0 .. now : config' = [config EXCEPT ![c] = CreateRow(b, n)]
    BY <1>6 DEF PostConfig
  <2> DEFINE new == CreateRow(b, n)
  <2>2. Agrees(new)
    BY <1>6, CreatedRow, BodiesAssumption DEF PostConfig
  <2>3. raced' = raced \ {c} /\ updates' = updates /\ \A u \in updates : u.cfg # c
    BY <1>6 DEF PostConfig
  <2>4. config' = [config EXCEPT ![c] = new]
    BY <2>1
  <2> HIDE DEF new
  <2>5. NullMeansNoTrigger'
    BY <2>2, <2>3, <2>4, Tables DEF NullMeansNoTrigger
  <2>6. Seen'
    BY <2>3 DEF Seen
  <2> QED
    BY <2>5, <2>6
<1>7. CASE Next /\ UNCHANGED apiVars
  BY <1>1, <1>2, <1>7 DEF Next, Advance, Begin, TickStep, SelectDue, CreateJobs,
     ResetRetry, SelectRetry, Unwind, Rollback, ExecutionStep, Lose, Finish,
     Terminated, vars, apiVars, history
<1>8. CASE JobStep
  BY <1>2, <1>8 DEF JobStep, DeleteJob, PostJob, ReadForEdit, WriteEdit, vars, history
<1>9. CASE UNCHANGED systemVars
  BY <1>2, <1>9 DEF systemVars, vars, apiVars, history
<1> QED
  BY <1>3, <1>4, <1>5, <1>6, <1>7, <1>8, <1>9 DEF SystemNext, ConfigStep

\* However PATCH and PUT requests and ticks overlap, next_run_at is NULL just
\* for the configs no next run can be computed for, unless the trigger changed
\* between a request's read and its write.
THEOREM SentinelAgrees == ASSUME SoundRows PROVE SystemSpec => []NullMeansNoTrigger
<1>1. SystemInit => NullMeansNoTrigger /\ Seen
  BY DEF SoundRows, SystemInit, Init, NullMeansNoTrigger, Seen, Agrees
<1>2. SystemInv /\ NullMeansNoTrigger /\ Seen /\ [SystemNext]_systemVars =>
        NullMeansNoTrigger' /\ Seen'
  BY AgreeStep
<1> QED
  BY <1>1, <1>2, SystemInvariance, PTL DEF SystemSpec

\* services.py:83-84, "execute me immediately": what the sentinel does instead.
\* No job is ever started for a config whose next_run_at is NULL, but for configs
\* whose trigger two requests have changed at once.
NeverBySentinel ==
  [][\A j \in Jobs \ posted' :
       job[j] = Null /\ job'[j] # Null /\ job'[j].cfg \notin raced =>
         config[job'[j].cfg].next # Null]_systemVars

\* However clients clear and set triggers, a tick that selects a config by the
\* sentinel never commits: the agreement of next_run_at with the trigger, which
\* PATCH and PUT take care of, leaves nothing for it to start.
THEOREM SentinelStartsNothing == ASSUME SoundRows PROVE SystemSpec => NeverBySentinel
<1> DEFINE NotBySentinel ==
      \A j \in Jobs \ posted' :
        job[j] = Null /\ job'[j] # Null /\ job'[j].cfg \notin raced =>
          config[job'[j].cfg].next # Null
<1>1. SystemInv /\ NullMeansNoTrigger /\ [SystemNext]_systemVars => [NotBySentinel]_systemVars
  BY StartStep DEF NullMeansNoTrigger, Poison
<1> QED
  BY <1>1, SystemInvariance, SentinelAgrees, PTL DEF SystemSpec, NeverBySentinel
-----------------------------------------------------------------------------
(* Configs of retried jobs *)

\* The foreign key: a job's config exists, or the job has none.
Referential == \A j \in Jobs : job[j] # Null => Refers(job[j])

\* What the validation of a tick's retries has found is still true when the tick
\* commits: the query has locked the joined configs too.
Validated ==
  \A t \in Ticks : tick[t].pc = "commit" => \A j \in tick[t].retry : ~Unreadable(j)

ReferInv == Referential /\ Validated

\* Rows stay valid where nothing writes the config and the retries of a tick.
LEMMA ValidatedKept ==
  ASSUME SystemInv, Validated,
         \A t \in Ticks :
           \/ tick'[t].pc # "commit"
           \/ /\ tick'[t] = tick[t]
              /\ \A j \in HeldJobs(t) : job'[j] = job[j]
              /\ \A c \in HeldConfigs(t) : config'[c] = config[c]
  PROVE  Validated'
<1> SUFFICES ASSUME NEW t \in Ticks, tick'[t].pc = "commit", NEW j \in tick'[t].retry
             PROVE  ~Unreadable(j)'
  BY DEF Validated
<1>1. /\ tick'[t] = tick[t] /\ job'[j] = job[j]
      /\ \A c \in HeldConfigs(t) : config'[c] = config[c]
  BY DEF HeldJobs
<1>2. ~Unreadable(j)
  BY <1>1 DEF Validated
<1>3. job[j].cfg \in HeldConfigs(t)
  BY <1>1, <1>2 DEF Unreadable, HeldConfigs
<1> QED
  BY <1>1, <1>2, <1>3 DEF Unreadable
\* Ticks advance configs and drop none; the executions they launch are of jobs
\* they have just created, or of the retries they have in hand.
LEMMA CommitRefers ==
  ASSUME SystemInv, NEW t \in Ticks, Commit(t)
  PROVE  /\ \A c \in Configs : config'[c] = Null <=> config[c] = Null
         /\ \A c \in Configs \ tick[t].due : config'[c] = config[c]
         /\ \A j \in Jobs : job'[j] # Null =>
              \/ job'[j].cfg \in tick[t].due
              \/ job[j] # Null /\ job'[j].cfg = job[j].cfg
         /\ \A c \in tick[t].due : c \in Configs /\ config[c] # Null
<1>1. tick[t].pc = "commit" /\ tick[t].now \in Int
  BY DEF Commit, SystemInv, Core, TypeOK, TickRecord
<1>2. ASSUME NEW c \in tick[t].due
      PROVE  c \in Configs /\ config[c] # Null /\ config'[c] # Null
  <2>1. c \in Configs /\ config[c] \in ConfigRow /\ ~Poison(config[c])
    BY <1>1, <1>2, Tables DEF SystemInv, Core, Held
  <2>2. CalcNextRun(config[c], tick[t].now) \in Int
    BY <1>1, <2>1, NextRunType
  <2>3. config'[c] = AdvancedRow(config[c], tick[t].now)
    BY <1>2, <2>1 DEF Commit
  <2>4. config'[c] \in ConfigRow
    BY <1>1, <2>1, <2>2, <2>3 DEF AdvancedRow, ConfigRow, OptInt
  <2> QED
    BY <2>1, <2>4, ConfigAssumption
<1>3. \A c \in Configs \ tick[t].due : config'[c] = config[c]
  BY DEF Commit
<1>4. ASSUME NEW j \in Jobs, job'[j] # Null
      PROVE  \/ job'[j].cfg \in tick[t].due
             \/ job[j] # Null /\ job'[j].cfg = job[j].cfg
  <2>1. CASE j \in FreshJobs(t)
    <3>1. j[2] \in tick[t].due
      BY <2>1 DEF FreshJobs
    <3>2. job'[j] = FreshRow(t, j[2])
      BY <2>1, CommitRows DEF SystemInv
    <3> QED
      BY <3>1, <3>2 DEF FreshRow
  <2>2. CASE j \in HeldJobs(t)
    <3>1. job[j] \in JobRow
      BY <2>2, Tables DEF SystemInv, Core, Held, Failed
    <3>2. \/ job'[j] = RetryRow(t, job[j])
          \/ job'[j] = [job[j] EXCEPT !.retryNeed = FALSE]
      BY <2>2, CommitRows DEF SystemInv, HeldJobs
    <3> QED
      BY <3>1, <3>2, RowAssumption DEF RetryRow, JobRow
  <2>3. CASE j \notin FreshJobs(t) \cup HeldJobs(t)
    BY <1>4, <2>3, CommitRows DEF SystemInv
  <2> QED
    BY <2>1, <2>2, <2>3
<1> QED
  BY <1>2, <1>3, <1>4

LEMMA ReferentialStep ==
  ASSUME SystemInv, Referential, [SystemNext]_systemVars PROVE Referential'
<1> SUFFICES ASSUME NEW j \in Jobs, job'[j] # Null, job'[j].cfg # Null
             PROVE  config'[job'[j].cfg] # Null
  BY DEF Referential, Refers
<1>1. CASE \E t \in Ticks : Commit(t)
  <2>1. PICK t \in Ticks : Commit(t)
    BY <1>1
  <2>2. \/ job'[j].cfg \in tick[t].due
        \/ job[j] # Null /\ job'[j].cfg = job[j].cfg /\ job[j].cfg \in Configs
    BY <2>1, CommitRefers, Tables DEF JobRow
  <2> QED
    BY <2>1, <2>2, CommitRefers DEF Referential, Refers
<1>2. CASE \E t \in Ticks, i \in Jobs, o \in Outcomes : Finish(t, i, o)
  <2>1. config' = config /\ job[j] # Null /\ job'[j].cfg = job[j].cfg
    BY <1>2, Tables DEF Finish, RecordedRow, JobRow
  <2> QED
    BY <2>1 DEF Referential, Refers
<1>3. CASE config' = config /\ job' = job
  BY <1>3 DEF Referential, Refers
<1>4. ASSUME NEW c \in Configs, DeleteConfig(c) PROVE config'[job'[j].cfg] # Null
  <2>1. job[j] \in JobRow /\ job'[j].cfg = job[j].cfg /\ job[j].cfg # c
    BY <1>4, Tables DEF DeleteConfig, JobRow
  <2>2. config'[job[j].cfg] = config[job[j].cfg]
    BY <1>4, <2>1, Tables DEF DeleteConfig, JobRow
  <2> QED
    BY <2>1, <2>2, RowAssumption DEF Referential, Refers
<1>5. ASSUME NEW c \in Configs, NEW b \in Bodies, PostConfig(c, b)
      PROVE  config'[job'[j].cfg] # Null
  <2>1. job' = job /\ \A d \in Configs \ {c} : config'[d] = config[d]
    BY <1>5, Tables DEF PostConfig
  <2>2. job[j].cfg \in Configs /\ config[job[j].cfg] # Null /\ config[c] = Null
    BY <1>5, <2>1, Tables DEF PostConfig, JobRow, Referential, Refers
  <2> QED
    BY <2>1, <2>2
<1>6. ASSUME NEW u \in updates, WriteUpdate(u) PROVE config'[job'[j].cfg] # Null
  <2>1. job' = job /\ config[job[j].cfg] # Null /\ job[j].cfg \in Configs
    BY <1>6, Tables DEF WriteUpdate, Referential, Refers, JobRow
  <2>2. u \in Update
    BY DEF SystemInv, Requests
  <2>3. CASE config[u.cfg] = Null
    BY <1>6, <2>1, <2>3 DEF WriteUpdate
  <2>4. CASE config[u.cfg] # Null
    <3>1. UpdateRow(config[u.cfg], u.seen, u.body, u.now) \in ConfigRow
      BY <2>2, <2>4, Tables, UpdateRowKeeps DEF Update
    <3>2. config' = [config EXCEPT ![u.cfg] =
                       UpdateRow(config[u.cfg], u.seen, u.body, u.now)]
      BY <1>6, <2>4 DEF WriteUpdate
    <3> QED
      BY <2>1, <3>1, <3>2, Tables, ConfigAssumption
  <2> QED
    BY <2>3, <2>4
<1>7. CASE \E i \in Jobs : DeleteJob(i)
  BY <1>7, Tables DEF DeleteJob, Referential, Refers
<1>8. CASE \E i \in Jobs, b \in JobBodies : PostJob(i, b)
  BY <1>8, Tables DEF PostJob, Referential, Refers
<1>9. CASE WriteEdit
  BY <1>9, Tables DEF WriteEdit, Referential, Refers
<1> QED
  BY <1>1, <1>2, <1>3, <1>4, <1>5, <1>6, <1>7, <1>8, <1>9 DEF SystemNext, ConfigStep,
     JobStep, ReadForUpdate, ReadForEdit, systemVars, vars, Next, Advance, Begin,
     TickStep, SelectDue, CreateJobs, ResetRetry, SelectRetry, Unwind, Rollback,
     ExecutionStep, Lose, Terminated
LEMMA HeldConfigsExist ==
  ASSUME SystemInv, Referential, NEW t \in Ticks, NEW c \in HeldConfigs(t)
  PROVE  c \in Configs /\ config[c] # Null
<1>1. CASE c \in tick[t].due
  BY <1>1, Tables DEF SystemInv, Core, Held
<1>2. ASSUME NEW j \in tick[t].retry, c = job[j].cfg, c # Null
      PROVE  c \in Configs /\ config[c] # Null
  <2>1. j \in Jobs /\ job[j] \in JobRow
    BY Tables DEF HeldJobs, SystemInv, Core, Held, Failed
  <2>2. job[j] # Null
    BY <2>1, RowAssumption
  <2> QED
    BY <1>2, <2>1, <2>2 DEF Referential, Refers, JobRow
<1> QED
  BY <1>1, <1>2 DEF HeldConfigs

\* The locks of a tick keep clients off the configs of its retries.
LEMMA ClientKeepsValid ==
  ASSUME SystemInv, ReferInv, ConfigStep \/ JobStep PROVE Validated'
<1>1. tick' = tick /\ \A t \in Ticks : \A j \in HeldJobs(t) : job'[j] = job[j]
  BY ClientLeavesLocked
<1>2. ASSUME NEW t \in Ticks, NEW c \in HeldConfigs(t) PROVE config'[c] = config[c]
  <2>1. c \in Configs /\ config[c] # Null /\ ~ConfigFree(c)
    BY HeldConfigsExist DEF ReferInv, ConfigFree
  <2>2. CASE \E d \in Configs : DeleteConfig(d)
    BY <2>1, <2>2, Tables DEF DeleteConfig
  <2>3. CASE \E d \in Configs, b \in Bodies : PostConfig(d, b)
    BY <2>1, <2>3, Tables DEF PostConfig
  <2>4. CASE \E u \in updates : WriteUpdate(u)
    BY <2>1, <2>4, Tables DEF WriteUpdate
  <2>5. CASE config' = config
    BY <2>5
  <2> QED
    BY <2>2, <2>3, <2>4, <2>5 DEF ConfigStep, JobStep, ReadForUpdate, DeleteJob,
       PostJob, ReadForEdit, WriteEdit, vars
<1> QED
  BY <1>1, <1>2, ValidatedKept DEF ReferInv

\* A tick goes to its commit with retries it has just validated, and what it
\* advances at its commit no other tick has in hand.
LEMMA TickKeepsValid ==
  ASSUME SystemInv, LockInv, ReferInv, [Next]_vars PROVE Validated'
<1>1. tick \in [Ticks -> TickRecord]
  BY DEF SystemInv, Core, TypeOK
<1>2. ASSUME NEW t \in Ticks, Commit(t) PROVE Validated'
  <2>1. tick'[t].pc # "commit" /\ \A u \in Ticks \ {t} : tick'[u] = tick[u]
    BY <1>2, CommitTicks DEF SystemInv
  <2>2. ASSUME NEW u \in Ticks \ {t}, NEW j \in HeldJobs(u) PROVE job'[j] = job[j]
    <3>1. j \in Jobs /\ job[j] # Null /\ j \notin HeldJobs(t)
      BY <2>2, Tables DEF SystemInv, Core, HeldJobs, Held, Failed, Locks
    <3> QED
      BY <1>2, <3>1, CommitRows DEF SystemInv
  <2>3. ASSUME NEW u \in Ticks \ {t}, NEW c \in HeldConfigs(u) PROVE config'[c] = config[c]
    <3>1. c \in Configs /\ c \notin tick[t].due
      BY HeldConfigsExist DEF ReferInv, LockInv, Apart
    <3> QED
      BY <1>2, <3>1, CommitRefers
  <2> QED
    BY <2>1, <2>2, <2>3, ValidatedKept DEF ReferInv
<1>3. ASSUME NEW t \in Ticks, SelectRetry(t) PROVE Validated'
  <2>1. PICK R \in Picks(RetryCandidates(t)) :
          tick' = [tick EXCEPT ![t] =
                     [@ EXCEPT !.pc = IF RetryFails(R) THEN "failed" ELSE "commit",
                               !.retry = R]]
    BY <1>3 DEF SelectRetry
  <2>2. /\ tick'[t].pc = IF RetryFails(R) THEN "failed" ELSE "commit"
        /\ tick'[t].retry = R
        /\ \A u \in Ticks \ {t} : tick'[u] = tick[u]
    BY <1>1, <2>1 DEF TickRecord
  <2>3. UNCHANGED <<config, job>>
    BY <1>3 DEF SelectRetry
  <2>4. ASSUME NEW u \in Ticks, tick'[u].pc = "commit", NEW j \in tick'[u].retry
        PROVE  ~Unreadable(j)
    BY <2>2, <2>4 DEF RetryFails, ReferInv, Validated
  <2> QED
    BY <2>3, <2>4 DEF Validated, Unreadable
<1>4. ASSUME NEW t \in Ticks, ExecutionStep(t) PROVE Validated'
  <2>1. PICK j \in live[t] : /\ tick' = tick /\ config' = config
                             /\ job' = job \/ j \notin LockedJobs(t)
                             /\ \A i \in Jobs \ {j} : job'[i] = job[i]
    BY <1>4, Tables DEF ExecutionStep, Lose, Finish
  <2>2. HeldJobs(t) = {}
    BY DEF SystemInv, Core, RunShape, StageShape, HeldJobs, TypeOK, TickRecord
  <2>3. ASSUME NEW u \in Ticks, NEW i \in HeldJobs(u) PROVE job'[i] = job[i]
    BY <2>1, <2>2, <2>3, Tables DEF LockedJobs
  <2> QED
    BY <2>1, <2>3, ValidatedKept DEF ReferInv
<1>5. ASSUME NEW t \in Ticks, \/ Begin(t) \/ SelectDue(t) \/ CreateJobs(t)
                              \/ ResetRetry(t) \/ Unwind(t) \/ Rollback(t)
      PROVE  Validated'
  <2>1. /\ UNCHANGED <<config, job>> /\ tick'[t].pc # "commit"
        /\ \A u \in Ticks \ {t} : tick'[u] = tick[u]
    <3>1. CASE Begin(t)
      BY <1>1, <3>1 DEF Begin, Idle
    <3>2. CASE Unwind(t) \/ Rollback(t)
      BY <1>1, <3>2 DEF Unwind, Rollback, Idle
    <3>3. CASE SelectDue(t) \/ ResetRetry(t)
      BY <1>1, <3>3 DEF SelectDue, ResetRetry, TickRecord
    <3>4. CASE CreateJobs(t)
      <4>1. PICK pc \in {"failed", "retry", "reset"} :
              tick' = [tick EXCEPT ![t] = [@ EXCEPT !.pc = pc]]
        BY <3>4 DEF CreateJobs
      <4> QED
        BY <1>1, <3>4, <4>1 DEF CreateJobs, TickRecord
    <3> QED
      BY <1>5, <3>1, <3>2, <3>3, <3>4
  <2> QED
    BY <2>1, ValidatedKept DEF ReferInv
<1>6. CASE Advance \/ Terminated \/ UNCHANGED vars
  BY <1>6, ValidatedKept DEF Advance, Terminated, vars, ReferInv
<1> QED
  BY <1>2, <1>3, <1>4, <1>5, <1>6 DEF Next, TickStep

LEMMA ReferStep ==
  SystemInv /\ LockInv /\ ReferInv /\ [SystemNext]_systemVars => ReferInv'
<1> SUFFICES ASSUME SystemInv, LockInv, ReferInv, [SystemNext]_systemVars PROVE ReferInv'
  OBVIOUS
<1>1. Referential'
  BY ReferentialStep DEF ReferInv
<1>2. CASE [Next]_vars
  BY <1>1, <1>2, TickKeepsValid DEF ReferInv
<1>3. CASE ConfigStep \/ JobStep
  BY <1>1, <1>3, ClientKeepsValid DEF ReferInv
<1> QED
  BY <1>2, <1>3 DEF SystemNext, systemVars

\* Only commits launch executions, and those of older jobs are retries.
LEMMA RelaunchStep ==
  ASSUME SystemInv, ReferInv, [SystemNext]_systemVars,
         NEW t \in Ticks, NEW j \in live'[t] \ live[t], job[j] # Null
  PROVE  /\ job[j].cfg # Null /\ config[job[j].cfg] # Null
         /\ ValidTrigger(config[job[j].cfg])
<1>1. PICK u \in Ticks : Commit(u)
  <2>1. live \in [Ticks -> SUBSET Jobs] /\ live' # live
    BY DEF SystemInv, Core, TypeOK
  <2>2. CASE ConfigStep \/ JobStep
    BY <2>1, <2>2 DEF ConfigStep, JobStep, DeleteConfig, PostConfig, ReadForUpdate,
       WriteUpdate, DeleteJob, PostJob, ReadForEdit, WriteEdit, vars
  <2>3. ASSUME NEW u \in Ticks, ExecutionStep(u) PROVE FALSE
    BY <2>1, <2>3 DEF ExecutionStep, Finish, Lose
  <2>4. ASSUME NEW u \in Ticks, TickStep(u) PROVE Commit(u)
    BY <2>1, <2>4 DEF TickStep, SelectDue, CreateJobs, ResetRetry, SelectRetry,
       Unwind, Rollback
  <2> QED
    BY <2>1, <2>2, <2>3, <2>4 DEF SystemNext, systemVars, vars, Next, Advance, Begin,
       Rollback, Terminated
<1>2. t = u /\ j \in FreshJobs(t) \cup tick[t].retry /\ tick[t].pc = "commit"
  BY <1>1, CommitTicks DEF SystemInv
<1>3. FreshJobs(t) \subseteq Jobs /\ tick[t].retry \subseteq Jobs
  BY Tables DEF FreshJobs, Jobs, HeldJobs
<1>4. j \in tick[t].retry /\ j \in Jobs
  BY <1>1, <1>2, <1>3, CommitRows DEF SystemInv
<1> QED
  BY <1>2, <1>4 DEF ReferInv, Referential, Refers, Validated, Unreadable

\* A tick never launches a retry without the config it is to run with: between
\* its query and its commit no client can delete that config or its trigger.
THEOREM RetriesHaveConfigs == SystemSpec => RelaunchReadable
<1> DEFINE Ready ==
      \A t \in Ticks : \A j \in live'[t] \ live[t] : job[j] # Null =>
        /\ job[j].cfg # Null /\ config[job[j].cfg] # Null
        /\ ValidTrigger(config[job[j].cfg])
<1>1. SystemInit => LockInv /\ ReferInv
  BY LockInit DEF SystemInit, Init, Idle, ReferInv, Referential, Validated
<1>2. SystemInv /\ ReferInv /\ [SystemNext]_systemVars => [Ready]_systemVars
  BY RelaunchStep
<1> QED
  BY <1>1, <1>2, ReferStep, SystemLockStep, SystemInvariance, PTL
  DEF SystemSpec, RelaunchReadable
=============================================================================
