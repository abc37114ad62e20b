--------------------------- MODULE DispatchProofs ---------------------------
(* Proofs about Dispatch for any number of configs and runs, any clock, any  *)
(* limit and either kind of database.                                        *)
EXTENDS Dispatch, FiniteSetTheorems, TLAPS

\* What a tick holds at each stage, and that it holds nothing outside.
StageShape ==
  \A t \in Ticks :
    /\ tick[t].pc \in {"idle", "done", "select"} => tick[t].due = {}
    /\ tick[t].pc \in {"idle", "done", "select", "create", "reset"} =>
         tick[t].reset = {}
    /\ tick[t].pc \in {"idle", "done", "select", "create", "reset", "retry"} =>
         tick[t].retry = {}

\* A run that has not committed has no rows and executes nothing; an execution
\* is of a job whose run has committed.
RunShape ==
  /\ \A t \in Ticks : tick[t].pc # "done" =>
       /\ live[t] = {}
       /\ \A c \in Configs : job[<<t, c>>] = Null
  /\ \A t \in Ticks : \A j \in live[t] : tick[j[1]].pc = "done"

\* Row locks are exclusive.
Locks ==
  \A t, u \in Ticks : t # u =>
    /\ tick[t].due \cap tick[u].due = {}
    /\ HeldJobs(t) \cap HeldJobs(u) = {}

\* What a tick selected is still true of the rows it has locked.
Held ==
  \A t \in Ticks :
    /\ \A j \in HeldJobs(t) : Failed(j)
    /\ \A j \in tick[t].retry : AttemptsLeft(j) /\ j \notin tick[t].reset
    /\ \A c \in tick[t].due :
         /\ config[c] # Null
         /\ IsDue(config[c], tick[t].now)
         /\ tick[t].pc \in {"reset", "retry", "commit"} => ~Poison(config[c])

Core == TypeOK /\ StageShape /\ RunShape /\ Locks /\ Held /\ FreshOrRetry

\* OneExecution and AttemptsBounded but for the jobs in X: none here, and in
\* module SystemProofs those whose rows clients have written. What a tick does
\* about its other jobs does not depend on them.
OnceBut(X) ==
  /\ \A t, u \in Ticks : t # u => live[t] \cap live[u] \subseteq X
  /\ \A t \in Ticks : \A j \in live[t] \ X :
       job[j] # Null => job[j].status = "PENDING" /\ job[j].run = t
BoundedBut(X) ==
  \A j \in Jobs \ X : job[j] # Null =>
    /\ job[j].attempts <= RetryMax
    /\ (\E t \in Ticks : j \in live[t]) => job[j].attempts < RetryMax

InvBut(X) == Core /\ OnceBut(X) /\ BoundedBut(X)

Inv == Core /\ OneExecution /\ AttemptsBounded

-----------------------------------------------------------------------------

\* Nothing is held and nothing runs before the first tick.
LEMMA InvInit == Init => Inv
<1> SUFFICES ASSUME Init PROVE Inv
  OBVIOUS
<1> USE DEF Init, Idle
<1>1. TypeOK
  BY ConfigAssumption DEF TypeOK, TickRecord
<1>2. StageShape /\ RunShape
  BY DEF StageShape, RunShape, Jobs
<1>3. Locks /\ Held
  BY DEF Locks, Held, HeldJobs
<1>4. OneExecution /\ AttemptsBounded /\ FreshOrRetry
  BY DEF OneExecution, AttemptsBounded, FreshOrRetry
<1> QED
  BY <1>1, <1>2, <1>3, <1>4 DEF Inv, Core

\* A step that leaves the tables alone and moves one tick, giving up nothing
\* but everything, or adding rows no other tick holds.
LEMMA ReleaseInv ==
  ASSUME NEW X, InvBut(X), NEW t \in Ticks, NEW n \in Int, NEW pc \in {"idle", "select"},
         tick[t].pc # "done",
         tick' = [tick EXCEPT ![t] = [Idle EXCEPT !.pc = pc, !.now = n]],
         now' = now, config' = config, job' = job, live' = live
  PROVE  InvBut(X)'
<1> USE DEF InvBut, Core, Idle
<1>0. /\ tick[t] \in TickRecord
      /\ tick'[t] = [pc |-> pc, now |-> n, due |-> {}, reset |-> {}, retry |-> {}]
      /\ \A u \in Ticks : u # t => tick'[u] = tick[u]
  BY DEF TypeOK
<1>1. TypeOK'
  BY <1>0 DEF TypeOK, TickRecord, Stages
<1>2. StageShape' /\ RunShape'
  BY <1>0 DEF StageShape, RunShape, TypeOK, Jobs
<1>3. Locks'
  BY <1>0 DEF Locks, HeldJobs
<1>4. Held'
  BY <1>0 DEF Held, HeldJobs, Failed, AttemptsLeft
<1>5. OnceBut(X)' /\ BoundedBut(X)' /\ FreshOrRetry'
  BY <1>0 DEF OnceBut, BoundedBut, FreshOrRetry
<1> QED
  BY <1>1, <1>2, <1>3, <1>4, <1>5

LEMMA BeginInv ==
  ASSUME NEW X, InvBut(X), NEW t \in Ticks, Begin(t) PROVE InvBut(X)'
<1>1. now \in Int /\ "select" \in {"idle", "select"}
  BY DEF InvBut, Core, TypeOK
<1>2. tick[t].pc # "done"
  BY DEF Begin
<1>3. tick' = [tick EXCEPT ![t] = [Idle EXCEPT !.pc = "select", !.now = now]]
  BY DEF Begin
<1>4. now' = now /\ config' = config /\ job' = job /\ live' = live
  BY DEF Begin
<1> QED
  BY <1>1, <1>2, <1>3, <1>4, ReleaseInv

LEMMA RollbackInv ==
  ASSUME NEW X, InvBut(X), NEW t \in Ticks, Unwind(t) \/ Rollback(t) PROVE InvBut(X)'
<1>1. 0 \in Int /\ "idle" \in {"idle", "select"}
  OBVIOUS
<1>2. tick[t].pc # "done"
  BY DEF Unwind, Rollback, InTx, Stages
<1>3. tick' = [tick EXCEPT ![t] = [Idle EXCEPT !.pc = "idle", !.now = 0]]
  BY DEF Unwind, Rollback, Idle
<1>4. now' = now /\ config' = config /\ job' = job /\ live' = live
  BY DEF Unwind, Rollback
<1> QED
  BY <1>1, <1>2, <1>3, <1>4, ReleaseInv

\* The configs selected are due, and no other tick holds them.
LEMMA SelectDueInv ==
  ASSUME NEW X, InvBut(X), NEW t \in Ticks, SelectDue(t) PROVE InvBut(X)'
<1> USE DEF InvBut, Core
<1>1. PICK D \in Picks(DueConfigs(tick[t].now) \ LockedConfigs(t)) :
        tick' = [tick EXCEPT ![t] = [@ EXCEPT !.pc = "create", !.due = D]]
  BY DEF SelectDue
<1>2. /\ tick[t].pc = "select"
      /\ UNCHANGED <<now, config, job, live>>
  BY DEF SelectDue
<1>3. /\ tick[t] \in TickRecord
      /\ tick[t].due = {} /\ tick[t].reset = {} /\ tick[t].retry = {}
  BY <1>2 DEF TypeOK, StageShape
<1>4. /\ tick'[t] = [pc |-> "create", now |-> tick[t].now, due |-> D,
                     reset |-> {}, retry |-> {}]
      /\ \A u \in Ticks : u # t => tick'[u] = tick[u]
  BY <1>1, <1>3 DEF TypeOK, TickRecord
<1>5. /\ D \subseteq Configs
      /\ \A c \in D : config[c] # Null /\ IsDue(config[c], tick[t].now)
      /\ \A u \in Ticks : u # t => D \cap tick[u].due = {}
  BY DEF Picks, DueConfigs, LockedConfigs, HeldConfigs
<1>6. TypeOK'
  BY <1>1, <1>2, <1>3, <1>4, <1>5 DEF TypeOK, TickRecord, Stages
<1>7. StageShape' /\ RunShape'
  BY <1>2, <1>4 DEF StageShape, RunShape, TypeOK, Jobs
<1>8. Locks'
  BY <1>4, <1>5 DEF Locks, HeldJobs
<1>9. Held'
  BY <1>2, <1>4, <1>5 DEF Held, HeldJobs, Failed, AttemptsLeft
<1>10. OnceBut(X)' /\ BoundedBut(X)' /\ FreshOrRetry'
  BY <1>2, <1>4 DEF OnceBut, BoundedBut, FreshOrRetry
<1> QED
  BY <1>6, <1>7, <1>8, <1>9, <1>10

LEMMA CreateJobsInv ==
  ASSUME NEW X, InvBut(X), NEW t \in Ticks, CreateJobs(t) PROVE InvBut(X)'
<1> USE DEF InvBut, Core
<1>1. /\ tick[t].pc = "create"
      /\ UNCHANGED <<now, config, job, live>>
  BY DEF CreateJobs
<1>2. /\ tick[t] \in TickRecord
      /\ tick[t].reset = {} /\ tick[t].retry = {}
  BY <1>1 DEF TypeOK, StageShape
<1>3. PICK pc \in {"failed", "retry", "reset"} :
        /\ tick' = [tick EXCEPT ![t] = [@ EXCEPT !.pc = pc]]
        /\ pc # "failed" => \A c \in tick[t].due : ~Poison(config[c])
  BY DEF CreateJobs
<1>4. /\ tick'[t] = [pc |-> pc, now |-> tick[t].now, due |-> tick[t].due,
                     reset |-> {}, retry |-> {}]
      /\ \A u \in Ticks : u # t => tick'[u] = tick[u]
  BY <1>2, <1>3 DEF TypeOK, TickRecord
<1>5. TypeOK'
  BY <1>1, <1>2, <1>3, <1>4 DEF TypeOK, TickRecord, Stages
<1>6. StageShape' /\ RunShape'
  BY <1>1, <1>4 DEF StageShape, RunShape, TypeOK, Jobs
<1>7. Locks'
  BY <1>1, <1>2, <1>4 DEF Locks, HeldJobs
<1>8. Held'
  BY <1>1, <1>2, <1>3, <1>4 DEF Held, HeldJobs, Failed, AttemptsLeft
<1>9. OnceBut(X)' /\ BoundedBut(X)' /\ FreshOrRetry'
  BY <1>1, <1>2, <1>4 DEF OnceBut, BoundedBut, FreshOrRetry
<1> QED
  BY <1>5, <1>6, <1>7, <1>8, <1>9

\* The rows the UPDATE sets are failed, and it has waited for their locks.
LEMMA ResetRetryInv ==
  ASSUME NEW X, InvBut(X), NEW t \in Ticks, ResetRetry(t) PROVE InvBut(X)'
<1> USE DEF InvBut, Core
<1>1. /\ tick[t].pc = "reset"
      /\ tick' = [tick EXCEPT ![t] =
                    [@ EXCEPT !.pc = "retry", !.reset = Superseded(t)]]
      /\ UNCHANGED <<now, config, job, live>>
  BY DEF ResetRetry
<1>2. tick[t] \in TickRecord /\ tick[t].retry = {}
  BY <1>1 DEF TypeOK, StageShape
<1>3. /\ tick'[t] = [pc |-> "retry", now |-> tick[t].now, due |-> tick[t].due,
                     reset |-> Superseded(t), retry |-> {}]
      /\ \A u \in Ticks : u # t => tick'[u] = tick[u]
  BY <1>1, <1>2 DEF TypeOK, TickRecord
<1>4. /\ Superseded(t) \subseteq Jobs
      /\ \A j \in Superseded(t) : Failed(j)
      /\ \A u \in Ticks : u # t => Superseded(t) \cap HeldJobs(u) = {}
  BY DEF Superseded, LockedJobs, ResetRetry
<1>5. TypeOK'
  BY <1>1, <1>2, <1>3, <1>4 DEF TypeOK, TickRecord, Stages
<1>6. StageShape' /\ RunShape'
  BY <1>1, <1>3 DEF StageShape, RunShape, TypeOK, Jobs
<1>7. Locks'
  BY <1>1, <1>3, <1>4 DEF Locks, HeldJobs
<1>8. Held'
  <2> SUFFICES ASSUME NEW u \in Ticks
               PROVE  /\ \A j \in HeldJobs(u)' : Failed(j)'
                      /\ \A j \in tick'[u].retry :
                           AttemptsLeft(j)' /\ j \notin tick'[u].reset
                      /\ \A c \in tick'[u].due :
                           /\ config'[c] # Null
                           /\ IsDue(config'[c], tick'[u].now)
                           /\ tick'[u].pc \in {"reset", "retry", "commit"} =>
                                ~Poison(config'[c])
    BY DEF Held
  <2>1. CASE u = t
    <3>1. /\ tick'[u].due = tick[t].due /\ tick'[u].now = tick[t].now
          /\ tick'[u].retry = {} /\ HeldJobs(u)' = Superseded(t)
      BY <1>3, <2>1 DEF HeldJobs
    <3>2. \A c \in tick[t].due :
            config[c] # Null /\ IsDue(config[c], tick[t].now) /\ ~Poison(config[c])
      BY <1>1 DEF Held
    <3>3. \A j \in Superseded(t) : Failed(j)'
      BY <1>1, <1>4 DEF Failed
    <3> QED
      BY <1>1, <3>1, <3>2, <3>3
  <2>2. CASE u # t
    <3>1. tick'[u] = tick[u] /\ HeldJobs(u)' = HeldJobs(u)
      BY <1>3, <2>2 DEF HeldJobs
    <3> QED
      BY <1>1, <3>1 DEF Held, Failed, AttemptsLeft
  <2> QED
    BY <2>1, <2>2
<1>9. OnceBut(X)' /\ BoundedBut(X)' /\ FreshOrRetry'
  BY <1>1, <1>2, <1>3 DEF OnceBut, BoundedBut, FreshOrRetry
<1> QED
  BY <1>5, <1>6, <1>7, <1>8, <1>9

\* The retries are failed rows with attempts left, of configs that this tick
\* does not start, and no other tick holds them.
LEMMA SelectRetryInv ==
  ASSUME NEW X, InvBut(X), NEW t \in Ticks, SelectRetry(t) PROVE InvBut(X)'
<1> USE DEF InvBut, Core
<1>1. PICK R \in Picks(RetryCandidates(t)) :
        tick' = [tick EXCEPT ![t] =
          [@ EXCEPT !.pc = IF RetryFails(R) THEN "failed" ELSE "commit",
                    !.retry = R]]
  BY DEF SelectRetry
<1>2. tick[t].pc = "retry" /\ UNCHANGED <<now, config, job, live>>
  BY DEF SelectRetry
<1>3. tick[t] \in TickRecord
  BY DEF TypeOK
<1>4. /\ R \subseteq Jobs
      /\ \A j \in R : /\ Failed(j) /\ AttemptsLeft(j) /\ j \notin tick[t].reset
                      /\ job[j].cfg \notin tick[t].due
      /\ \A u \in Ticks : u # t => R \cap HeldJobs(u) = {}
  BY DEF Picks, RetryCandidates, NotCurrent, LockedJobs
<1>5. PICK pc \in {"failed", "commit"} :
        tick' = [tick EXCEPT ![t] = [@ EXCEPT !.pc = pc, !.retry = R]]
  BY <1>1
<1>6. /\ tick'[t] = [pc |-> pc, now |-> tick[t].now, due |-> tick[t].due,
                     reset |-> tick[t].reset, retry |-> R]
      /\ \A u \in Ticks : u # t => tick'[u] = tick[u]
  BY <1>3, <1>5 DEF TypeOK, TickRecord
<1>7. TypeOK'
  BY <1>2, <1>3, <1>4, <1>5, <1>6 DEF TypeOK, TickRecord, Stages
<1>8. StageShape' /\ RunShape'
  BY <1>2, <1>6 DEF StageShape, RunShape, TypeOK, Jobs
<1>9. Locks'
  BY <1>2, <1>4, <1>6 DEF Locks, HeldJobs
<1>10. Held'
  BY <1>2, <1>4, <1>6 DEF Held, HeldJobs, Failed, AttemptsLeft
<1>11. OnceBut(X)' /\ BoundedBut(X)' /\ FreshOrRetry'
  BY <1>2, <1>4, <1>6 DEF OnceBut, BoundedBut, FreshOrRetry
<1> QED
  BY <1>7, <1>8, <1>9, <1>10, <1>11

\* A sound config's next run can be computed.
LEMMA NextRunType ==
  ASSUME NEW row \in ConfigRow, ~Poison(row), NEW n \in Int
  PROVE  CalcNextRun(row, n) \in Int
<1>1. row.cron \in (Nat \ {0}) \cup {Null} /\ row.interval \in OptInt
  BY DEF ConfigRow
<1>2. CASE row.cron # Null
  <2>1. row.cron \in Nat /\ row.cron # 0
    BY <1>1, <1>2
  <2> QED
    BY <2>1, <1>2 DEF CalcNextRun
<1>3. CASE row.cron = Null
  <2>1. row.interval \in Int
    BY <1>1, <1>3 DEF Poison, CanCalc, Falsy, OptInt
  <2> QED
    BY <2>1, <1>3 DEF CalcNextRun
<1> QED
  BY <1>2, <1>3

\* What a commit writes: rows of the tick's own, its retries and the failed
\* rows it reset. Only what it held changes.
LEMMA CommitRows ==
  ASSUME Core, NEW t \in Ticks, Commit(t)
  PROVE  \A j \in Jobs :
           /\ j \in FreshJobs(t) =>
                /\ job[j] = Null /\ j \notin HeldJobs(t)
                /\ job'[j] = FreshRow(t, j[2])
           /\ j \in tick[t].retry => job'[j] = RetryRow(t, job[j])
           /\ j \in tick[t].reset \ tick[t].retry =>
                job'[j] = [job[j] EXCEPT !.retryNeed = FALSE]
           /\ j \notin FreshJobs(t) \cup HeldJobs(t) => job'[j] = job[j]
<1> USE DEF Core
<1> SUFFICES ASSUME NEW j \in Jobs
             PROVE  /\ j \in FreshJobs(t) =>
                         /\ job[j] = Null /\ j \notin HeldJobs(t)
                         /\ job'[j] = FreshRow(t, j[2])
                    /\ j \in tick[t].retry => job'[j] = RetryRow(t, job[j])
                    /\ j \in tick[t].reset \ tick[t].retry =>
                         job'[j] = [job[j] EXCEPT !.retryNeed = FALSE]
                    /\ j \notin FreshJobs(t) \cup HeldJobs(t) => job'[j] = job[j]
  OBVIOUS
<1>1. job'[j] = CASE j \in FreshJobs(t)  -> FreshRow(t, j[2])
                  [] j \in tick[t].retry -> RetryRow(t, job[j])
                  [] j \in tick[t].reset -> [job[j] EXCEPT !.retryNeed = FALSE]
                  [] OTHER               -> job[j]
  BY DEF Commit
<1>2. tick[t].pc = "commit"
  BY DEF Commit
<1>3. j \in FreshJobs(t) => job[j] = Null
  <2> SUFFICES ASSUME j \in FreshJobs(t) PROVE job[j] = Null
    OBVIOUS
  <2>1. PICK c \in tick[t].due : j = <<t, c>>
    BY DEF FreshJobs
  <2>2. c \in Configs
    BY DEF TypeOK, TickRecord
  <2> QED
    BY <1>2, <2>1, <2>2 DEF RunShape
<1>4. j \in HeldJobs(t) => job[j] # Null
  BY DEF Held, Failed
<1>5. tick[t].retry \subseteq HeldJobs(t) /\ tick[t].reset \subseteq HeldJobs(t)
      /\ HeldJobs(t) = tick[t].retry \cup tick[t].reset
  BY DEF HeldJobs
<1>6. CASE j \in FreshJobs(t)
  BY <1>1, <1>3, <1>4, <1>5, <1>6
<1>7. CASE j \notin FreshJobs(t) /\ j \in tick[t].retry
  BY <1>1, <1>5, <1>7 DEF Held
<1>8. CASE j \notin FreshJobs(t) /\ j \in tick[t].reset \ tick[t].retry
  BY <1>1, <1>5, <1>8 DEF Held
<1>9. CASE j \notin FreshJobs(t) \cup HeldJobs(t)
  BY <1>1, <1>5, <1>9
<1> QED
  BY <1>5, <1>6, <1>7, <1>8, <1>9

\* The tables keep their types: this is where a poison config would store a
\* next run that is no time at all.
LEMMA CommitType ==
  ASSUME Core, NEW t \in Ticks, Commit(t) PROVE TypeOK'
<1> USE DEF Core
<1>1. tick[t].pc = "commit" /\ tick[t] \in TickRecord /\ now' = now
  BY DEF Commit, TypeOK
<1>2. ASSUME NEW c \in Configs PROVE config'[c] \in ConfigRow \cup {Null}
  <2>1. CASE c \in tick[t].due
    <3>1. config[c] \in ConfigRow /\ ~Poison(config[c])
      BY <1>1, <2>1 DEF Held, TypeOK
    <3>2. CalcNextRun(config[c], tick[t].now) \in Int /\ tick[t].now \in Int
      BY <1>1, <3>1, NextRunType DEF TickRecord
    <3>3. config'[c] = AdvancedRow(config[c], tick[t].now)
      BY <2>1 DEF Commit
    <3> QED
      BY <3>1, <3>2, <3>3 DEF AdvancedRow, ConfigRow, OptInt
  <2>2. CASE c \notin tick[t].due
    BY <2>2 DEF Commit, TypeOK
  <2> QED
    BY <2>1, <2>2
<1>3. ASSUME NEW j \in Jobs PROVE job'[j] \in JobRow \cup {Null}
  <2>1. job[j] \in JobRow \cup {Null} /\ tick[t].now \in Int /\ j[2] \in Configs
    BY <1>1 DEF TypeOK, TickRecord, Jobs
  <2>2. j \in HeldJobs(t) => job[j] # Null
    BY DEF Held, Failed
  <2>3. CASE j \in FreshJobs(t)
    <3>1. job'[j] = FreshRow(t, j[2])
      BY <2>3, CommitRows
    <3> QED
      BY <2>1, <3>1 DEF FreshRow, JobRow, Status, OptInt
  <2>4. CASE j \in tick[t].retry
    <3>1. job'[j] = RetryRow(t, job[j]) /\ job[j] \in JobRow
      BY <2>1, <2>2, <2>4, CommitRows DEF HeldJobs
    <3> QED
      BY <2>1, <3>1 DEF RetryRow, JobRow, Status
  <2>5. CASE j \in tick[t].reset \ tick[t].retry
    <3>1. /\ job'[j] = [job[j] EXCEPT !.retryNeed = FALSE]
          /\ job[j] \in JobRow
      BY <2>1, <2>2, <2>5, CommitRows DEF HeldJobs
    <3> QED
      BY <3>1 DEF JobRow
  <2>6. CASE j \notin FreshJobs(t) \cup HeldJobs(t)
    BY <2>1, <2>6, CommitRows
  <2> QED
    BY <2>3, <2>4, <2>5, <2>6 DEF HeldJobs
<1>4. /\ config' = [c \in Configs |-> config'[c]]
      /\ job' = [j \in Jobs |-> job'[j]]
  BY DEF Commit
<1>5. FreshJobs(t) \cup tick[t].retry \subseteq Jobs
  BY <1>1 DEF FreshJobs, Jobs, TickRecord
<1>6. tick'[t] \in TickRecord /\ tick' \in [Ticks -> TickRecord]
  BY DEF Commit, TypeOK, TickRecord, Idle
<1>7. live' \in [Ticks -> SUBSET Jobs]
  BY <1>5 DEF Commit, TypeOK
<1> QED
  BY <1>1, <1>2, <1>3, <1>4, <1>6, <1>7 DEF TypeOK

\* What a commit does to the ticks and the executions.
LEMMA CommitTicks ==
  ASSUME Core, NEW t \in Ticks, Commit(t)
  PROVE  /\ tick[t].pc = "commit"
         /\ tick'[t].due = {} /\ tick'[t].reset = {} /\ tick'[t].retry = {}
         /\ tick'[t].pc = IF live'[t] = {} THEN "idle" ELSE "done"
         /\ live'[t] = FreshJobs(t) \cup tick[t].retry
         /\ \A u \in Ticks : u # t => tick'[u] = tick[u] /\ live'[u] = live[u]
  BY DEF Core, TypeOK, Commit, Idle

\* Job rows that exist belong to a run that committed, so they are not new.
LEMMA RowsOfRuns ==
  ASSUME Core, NEW j \in Jobs, job[j] # Null
  PROVE  j[1] \in Ticks /\ tick[j[1]].pc = "done"
<1>1. j[1] \in Ticks /\ j[2] \in Configs /\ j = <<j[1], j[2]>>
  BY DEF Jobs
<1> QED
  BY <1>1 DEF Core, RunShape

LEMMA CommitInv ==
  ASSUME NEW X, InvBut(X), NEW t \in Ticks, Commit(t) PROVE InvBut(X)'
<1> USE DEF InvBut, Core
<1>1. TypeOK'
  BY CommitType
<1>2. /\ tick[t].pc = "commit"
      /\ tick'[t].due = {} /\ tick'[t].reset = {} /\ tick'[t].retry = {}
      /\ tick'[t].pc = IF live'[t] = {} THEN "idle" ELSE "done"
      /\ live'[t] = FreshJobs(t) \cup tick[t].retry
      /\ \A u \in Ticks : u # t => tick'[u] = tick[u] /\ live'[u] = live[u]
  BY CommitTicks
<1>3. \A j \in FreshJobs(t) : j \in Jobs /\ j[1] = t /\ j[2] \in tick[t].due
  BY DEF FreshJobs, TypeOK, TickRecord, Jobs
<1>4. \A j \in HeldJobs(t) :
        /\ j \in Jobs /\ Failed(j) /\ job[j] # Null
        /\ job[j] \in JobRow
        /\ j[1] \in Ticks /\ tick[j[1]].pc = "done" /\ j[1] # t
  <2> SUFFICES ASSUME NEW j \in HeldJobs(t)
               PROVE  /\ j \in Jobs /\ Failed(j) /\ job[j] # Null
                      /\ job[j] \in JobRow
                      /\ j[1] \in Ticks /\ tick[j[1]].pc = "done" /\ j[1] # t
    OBVIOUS
  <2>1. j \in Jobs
    BY DEF HeldJobs, TypeOK, TickRecord
  <2>2. Failed(j) /\ job[j] # Null
    BY DEF Held, Failed
  <2>3. job[j] \in JobRow
    BY <2>1, <2>2 DEF TypeOK
  <2> QED
    BY <1>2, <2>1, <2>2, <2>3, RowsOfRuns
<1>5. \A u \in Ticks : \A j \in live[u] :
        /\ j \in Jobs /\ u # t
        /\ j[1] # t /\ tick[j[1]].pc = "done"
        /\ j \notin FreshJobs(t)
        /\ j \notin X => j \notin HeldJobs(t)
  <2> SUFFICES ASSUME NEW u \in Ticks, NEW j \in live[u]
               PROVE  /\ j \in Jobs /\ u # t
                      /\ j[1] # t /\ tick[j[1]].pc = "done"
                      /\ j \notin FreshJobs(t)
                      /\ j \notin X => j \notin HeldJobs(t)
    OBVIOUS
  <2>1. j \in Jobs /\ u # t
    BY <1>2 DEF TypeOK, RunShape
  <2>2. tick[j[1]].pc = "done" /\ j[1] # t
    BY <1>2 DEF RunShape
  <2>3. j \notin FreshJobs(t)
    BY <1>3, <2>2
  <2>4. j \notin X => j \notin HeldJobs(t)
    BY <1>4 DEF Failed, OnceBut
  <2> QED
    BY <2>1, <2>2, <2>3, <2>4
<1>6. tick[t].retry \subseteq HeldJobs(t) /\ tick[t].reset \subseteq HeldJobs(t)
  BY DEF HeldJobs
<1>7. StageShape'
  BY <1>2 DEF StageShape
<1>8. RunShape'
  <2>1. ASSUME NEW u \in Ticks, tick'[u].pc # "done", NEW c \in Configs
        PROVE  job'[<<u, c>>] = Null
    <3>1. tick[u].pc # "done" /\ <<u, c>> \in Jobs
      BY <1>2, <2>1 DEF Jobs
    <3>2. job[<<u, c>>] = Null
      BY <3>1 DEF RunShape
    <3>3. <<u, c>> \notin HeldJobs(t)
      BY <1>4, <3>2
    <3>4. <<u, c>> \notin FreshJobs(t)
      BY <1>2, <1>3, <2>1
    <3> QED
      BY <3>1, <3>2, <3>3, <3>4, CommitRows
  <2>2. ASSUME NEW u \in Ticks, tick'[u].pc # "done" PROVE live'[u] = {}
    BY <1>2, <2>2 DEF RunShape
  <2>3. ASSUME NEW u \in Ticks, NEW j \in live'[u]
        PROVE  tick'[j[1]].pc = "done"
    <3>1. CASE u # t
      <4>1. j \in live[u]
        BY <1>2, <2>3, <3>1
      <4>2. j[1] \in Ticks /\ j[1] # t /\ tick[j[1]].pc = "done"
        BY <1>5, <4>1 DEF Jobs
      <4> QED
        BY <1>2, <4>2
    <3>2. CASE u = t
      BY <1>2, <1>3, <1>4, <1>6, <2>3, <3>2
    <3> QED
      BY <3>1, <3>2
  <2> QED
    BY <2>1, <2>2, <2>3 DEF RunShape
<1>9. Locks'
  BY <1>2 DEF Locks, HeldJobs
<1>10. \A u \in Ticks \ {t} :
         /\ \A j \in HeldJobs(u) : job'[j] = job[j]
         /\ \A c \in tick[u].due : config'[c] = config[c]
  <2>1. ASSUME NEW u \in Ticks \ {t}, NEW j \in HeldJobs(u)
        PROVE  job'[j] = job[j]
    <3>1. j \in Jobs /\ job[j] # Null
      BY DEF HeldJobs, TypeOK, TickRecord, Held, Failed
    <3>2. j \notin HeldJobs(t)
      BY DEF Locks
    <3>3. j \notin FreshJobs(t)
      BY <3>1, CommitRows
    <3> QED
      BY <3>1, <3>2, <3>3, CommitRows
  <2>2. ASSUME NEW u \in Ticks \ {t}, NEW c \in tick[u].due
        PROVE  config'[c] = config[c]
    <3>1. c \in Configs /\ c \notin tick[t].due
      BY DEF Locks, TypeOK, TickRecord
    <3> QED
      BY <3>1 DEF Commit
  <2> QED
    BY <2>1, <2>2
<1>11. Held'
  <2> SUFFICES ASSUME NEW u \in Ticks
               PROVE  /\ \A j \in HeldJobs(u)' : Failed(j)'
                      /\ \A j \in tick'[u].retry :
                           AttemptsLeft(j)' /\ j \notin tick'[u].reset
                      /\ \A c \in tick'[u].due :
                           /\ config'[c] # Null
                           /\ IsDue(config'[c], tick'[u].now)
                           /\ tick'[u].pc \in {"reset", "retry", "commit"} =>
                                ~Poison(config'[c])
    BY DEF Held
  <2>1. CASE u = t
    BY <1>2, <2>1 DEF HeldJobs
  <2>2. CASE u # t
    <3>1. tick'[u] = tick[u] /\ HeldJobs(u)' = HeldJobs(u)
      BY <1>2, <2>2 DEF HeldJobs
    <3>2. \A j \in HeldJobs(u) : Failed(j)'
      BY <1>10, <2>2 DEF Held, Failed
    <3>3. \A j \in tick[u].retry : AttemptsLeft(j)' /\ j \notin tick[u].reset
      BY <1>10, <2>2 DEF Held, AttemptsLeft, HeldJobs
    <3>4. \A c \in tick[u].due : config'[c] = config[c]
      BY <1>10, <2>2
    <3> QED
      BY <3>1, <3>2, <3>3, <3>4 DEF Held
  <2> QED
    BY <2>1, <2>2
<1>12. \A j \in live'[t] :
         /\ job'[j].status = "PENDING" /\ job'[j].run = t
         /\ job'[j].attempts < RetryMax
  <2> SUFFICES ASSUME NEW j \in live'[t]
               PROVE  /\ job'[j].status = "PENDING" /\ job'[j].run = t
                      /\ job'[j].attempts < RetryMax
    OBVIOUS
  <2>1. CASE j \in FreshJobs(t)
    <3>1. job'[j] = FreshRow(t, j[2])
      BY <1>3, <2>1, CommitRows
    <3> QED
      BY <3>1, BoundAssumption DEF FreshRow
  <2>2. CASE j \in tick[t].retry
    <3>1. job'[j] = RetryRow(t, job[j]) /\ job[j] \in JobRow
      BY <1>4, <1>6, <2>2, CommitRows
    <3>2. job[j].attempts < RetryMax
      BY <2>2 DEF Held, AttemptsLeft
    <3> QED
      BY <3>1, <3>2 DEF RetryRow, JobRow
  <2> QED
    BY <1>2, <2>1, <2>2
<1>13. \A u \in Ticks \ {t} : \A j \in live'[u] \ X :
         j \in live[u] /\ j \notin live'[t] /\ job'[j] = job[j]
  <2> SUFFICES ASSUME NEW u \in Ticks \ {t}, NEW j \in live'[u] \ X
               PROVE  j \in live[u] /\ j \notin live'[t] /\ job'[j] = job[j]
    OBVIOUS
  <2>1. j \in live[u]
    BY <1>2
  <2> QED
    BY <1>2, <1>5, <1>6, <2>1, CommitRows
<1>14. OnceBut(X)'
  <2>1. \A u, v \in Ticks : u # v => live'[u] \cap live'[v] \subseteq X
    BY <1>2, <1>13 DEF OnceBut
  <2>2. \A u \in Ticks : \A j \in live'[u] \ X :
          job'[j] # Null => job'[j].status = "PENDING" /\ job'[j].run = u
    BY <1>12, <1>13 DEF OnceBut
  <2> QED
    BY <2>1, <2>2 DEF OnceBut
<1>15. BoundedBut(X)'
  <2> SUFFICES ASSUME NEW j \in Jobs \ X, job'[j] # Null
               PROVE  /\ job'[j].attempts <= RetryMax
                      /\ (\E u \in Ticks : j \in live'[u]) =>
                           job'[j].attempts < RetryMax
    BY DEF BoundedBut
  <2>1. (\E u \in Ticks : j \in live'[u]) => job'[j].attempts < RetryMax
    BY <1>12, <1>13 DEF BoundedBut
  <2>2. job'[j].attempts \in Nat
    BY <1>1 DEF TypeOK, JobRow
  <2>3. CASE j \in live'[t]
    BY <1>12, <2>1, <2>2, <2>3, BoundAssumption
  <2>4. CASE j \in tick[t].reset \ tick[t].retry
    <3>1. /\ job'[j] = [job[j] EXCEPT !.retryNeed = FALSE]
          /\ job[j] \in JobRow /\ job[j] # Null
      BY <1>4, <1>6, <2>4, CommitRows
    <3>2. job'[j].attempts = job[j].attempts
      BY <3>1 DEF JobRow
    <3> QED
      BY <2>1, <3>1, <3>2 DEF BoundedBut
  <2>5. CASE j \notin FreshJobs(t) \cup HeldJobs(t)
    <3>1. job'[j] = job[j]
      BY <2>5, CommitRows
    <3> QED
      BY <2>1, <3>1 DEF BoundedBut
  <2> QED
    BY <1>2, <2>3, <2>4, <2>5 DEF HeldJobs
<1>16. FreshOrRetry'
  <2>1. ASSUME NEW u \in Ticks, NEW j \in tick'[u].retry
        PROVE  job'[j].cfg \notin tick'[u].due
    <3>1. u # t /\ tick'[u] = tick[u] /\ j \in HeldJobs(u)
      BY <1>2, <2>1 DEF HeldJobs
    <3>2. job'[j] = job[j]
      BY <1>10, <3>1
    <3> QED
      BY <2>1, <3>1, <3>2 DEF FreshOrRetry
  <2> QED
    BY <2>1 DEF FreshOrRetry
<1> QED
  BY <1>1, <1>7, <1>8, <1>9, <1>11, <1>14, <1>15, <1>16

\* An execution that ends leaves alone every row a tick has in hand.
LEMMA EndInv ==
  ASSUME NEW X, InvBut(X), NEW t \in Ticks, NEW j \in live[t],
         now' = now, config' = config, tick' = tick,
         live' = [live EXCEPT ![t] = @ \ {j}],
         \/ job' = job
         \/ /\ j \notin LockedJobs(t) /\ job[j] # Null
            /\ \E o \in Outcomes : job' = [job EXCEPT ![j] = RecordedRow(@, o)]
  PROVE  InvBut(X)'
<1> USE DEF InvBut, Core
<1>1. /\ j \in Jobs /\ tick[t].pc = "done"
      /\ tick[t].due = {} /\ tick[t].reset = {} /\ tick[t].retry = {}
  BY DEF TypeOK, RunShape, StageShape
<1>2. /\ live'[t] = live[t] \ {j}
      /\ \A u \in Ticks : u # t => live'[u] = live[u]
      /\ \A u \in Ticks : live'[u] \subseteq live[u]
      /\ j \notin X => \A u \in Ticks : j \notin live'[u]
  BY DEF TypeOK, OnceBut
<1>3. /\ job' = [i \in Jobs |-> job'[i]]
      /\ \A i \in Jobs : i # j => job'[i] = job[i]
  BY DEF TypeOK
<1>4. \/ job'[j] = job[j]
      \/ /\ job[j] \in JobRow
         /\ j \notin X => job[j].attempts < RetryMax
         /\ job'[j] \in JobRow
         /\ job'[j].attempts = job[j].attempts + 1
  <2>1. CASE job' = job
    BY <2>1
  <2>2. ASSUME job[j] # Null, NEW o \in Outcomes,
               job' = [job EXCEPT ![j] = RecordedRow(@, o)]
        PROVE  /\ job[j] \in JobRow
               /\ j \notin X => job[j].attempts < RetryMax
               /\ job'[j] \in JobRow
               /\ job'[j].attempts = job[j].attempts + 1
    <3> DEFINE st == IF o = "success" THEN "SUCCESS" ELSE "FAILURE"
    <3> DEFINE rn == o = "retry"
    <3>1. job[j] \in JobRow /\ job'[j] = RecordedRow(job[j], o) /\ now \in Int
      BY <1>1, <2>2 DEF TypeOK
    <3>2. j \notin X => job[j].attempts < RetryMax
      BY <1>1, <2>2 DEF BoundedBut
    <3>3. job'[j] = [job[j] EXCEPT !.status = st, !.finished = now,
                                   !.retryNeed = rn, !.attempts = @ + 1]
      BY <3>1 DEF RecordedRow
    <3>4. st \in Status /\ now \in OptInt /\ rn \in BOOLEAN
      BY <3>1 DEF Status, OptInt
    <3>5. job[j].attempts + 1 \in Nat
      BY <3>1 DEF JobRow
    <3> HIDE DEF st, rn
    <3>6. job'[j] \in JobRow /\ job'[j].attempts = job[j].attempts + 1
      BY <3>1, <3>3, <3>4, <3>5 DEF JobRow
    <3> QED
      BY <3>1, <3>2, <3>6
  <2> QED
    BY <2>1, <2>2
<1>5. TypeOK'
  <2>1. \A i \in Jobs : job'[i] \in JobRow \cup {Null}
    BY <1>1, <1>3, <1>4 DEF TypeOK
  <2>2. live' \in [Ticks -> SUBSET Jobs]
    BY DEF TypeOK
  <2> QED
    BY <1>3, <2>1, <2>2 DEF TypeOK
<1>6. StageShape'
  BY DEF StageShape
<1>7. RunShape'
  <2>1. ASSUME NEW u \in Ticks, tick[u].pc # "done", NEW c \in Configs
        PROVE  job'[<<u, c>>] = Null
    <3>1. <<u, c>> \in Jobs /\ job[<<u, c>>] = Null
      BY <2>1 DEF RunShape, Jobs
    <3>2. <<u, c>> # j
      BY <2>1 DEF RunShape
    <3> QED
      BY <1>3, <3>1, <3>2
  <2> QED
    BY <1>2, <2>1 DEF RunShape
<1>8. Locks'
  BY DEF Locks, HeldJobs
<1>9. \A u \in Ticks : \A i \in HeldJobs(u) : i \in Jobs /\ job'[i] = job[i]
  <2> SUFFICES ASSUME NEW u \in Ticks, NEW i \in HeldJobs(u)
               PROVE  i \in Jobs /\ job'[i] = job[i]
    OBVIOUS
  <2>1. i \in Jobs
    BY DEF HeldJobs, TypeOK, TickRecord
  <2>2. u # t
    BY <1>1 DEF HeldJobs
  <2>3. i = j => j \in LockedJobs(t)
    BY <2>2 DEF LockedJobs
  <2> QED
    BY <1>3, <2>1, <2>3
<1>10. Held'
  BY <1>9 DEF Held, HeldJobs, Failed, AttemptsLeft
<1>11. OnceBut(X)'
  <2>1. \A u \in Ticks : \A i \in live'[u] \ X :
          i \in live[u] /\ job'[i] = job[i]
    BY <1>2, <1>3 DEF TypeOK
  <2> QED
    BY <1>2, <2>1 DEF OnceBut
<1>12. BoundedBut(X)'
  <2> SUFFICES ASSUME NEW i \in Jobs \ X, job'[i] # Null
               PROVE  /\ job'[i].attempts <= RetryMax
                      /\ (\E u \in Ticks : i \in live'[u]) =>
                           job'[i].attempts < RetryMax
    BY DEF BoundedBut
  <2>1. CASE i = j
    <3>1. \A u \in Ticks : i \notin live'[u]
      BY <1>2, <2>1
    <3>2. CASE job'[j] = job[j]
      BY <2>1, <3>1, <3>2 DEF BoundedBut
    <3>3. CASE /\ job[j] \in JobRow /\ job[j].attempts < RetryMax
               /\ job'[j].attempts = job[j].attempts + 1
      <4>1. job[j].attempts \in Nat
        BY <3>3 DEF JobRow
      <4> QED
        BY <2>1, <3>1, <3>3, <4>1, BoundAssumption
    <3> QED
      BY <1>4, <2>1, <3>2, <3>3
  <2>2. CASE i # j
    BY <1>2, <1>3, <2>2 DEF BoundedBut
  <2> QED
    BY <2>1, <2>2
<1>13. FreshOrRetry'
  BY <1>9 DEF FreshOrRetry, HeldJobs
<1> QED
  BY <1>5, <1>6, <1>7, <1>8, <1>10, <1>11, <1>12, <1>13

\* Every step of the specification keeps the invariant.
LEMMA InvButStep ==
  ASSUME NEW X, InvBut(X), [Next]_vars PROVE InvBut(X)'
<1>1. CASE Advance
  <2>1. /\ now \in Nat /\ now' = now + 1
        /\ config' = config /\ job' = job /\ tick' = tick /\ live' = live
    BY <1>1 DEF Advance, InvBut, Core, TypeOK
  <2>2. TypeOK' /\ StageShape' /\ RunShape' /\ Locks'
    BY <2>1 DEF InvBut, Core, TypeOK, StageShape, RunShape, Locks, HeldJobs
  <2>3. Held'
    BY <2>1 DEF InvBut, Core, Held, HeldJobs, Failed, AttemptsLeft
  <2>4. OnceBut(X)' /\ BoundedBut(X)' /\ FreshOrRetry'
    BY <2>1 DEF InvBut, Core, OnceBut, BoundedBut, FreshOrRetry
  <2> QED
    BY <2>2, <2>3, <2>4 DEF InvBut, Core
<1>2. ASSUME NEW t \in Ticks, Begin(t) PROVE InvBut(X)'
  BY <1>2, BeginInv
<1>3. ASSUME NEW t \in Ticks, TickStep(t) PROVE InvBut(X)'
  BY <1>3, SelectDueInv, CreateJobsInv, ResetRetryInv, SelectRetryInv,
     CommitInv, RollbackInv DEF TickStep
<1>4. ASSUME NEW t \in Ticks, Rollback(t) PROVE InvBut(X)'
  BY <1>4, RollbackInv
<1>5. ASSUME NEW t \in Ticks, ExecutionStep(t) PROVE InvBut(X)'
  <2>1. ASSUME NEW j \in Jobs, Lose(t, j) PROVE InvBut(X)'
    BY <2>1, EndInv DEF Lose
  <2>2. ASSUME NEW j \in Jobs, NEW o \in Outcomes, Finish(t, j, o) PROVE InvBut(X)'
    <3>1. /\ j \in live[t] /\ j \notin LockedJobs(t)
          /\ now' = now /\ config' = config /\ tick' = tick
          /\ live' = [live EXCEPT ![t] = @ \ {j}]
      BY <2>2 DEF Finish
    <3>2. CASE job[j] = Null
      <4>1. job' = job
        BY <2>2, <3>2 DEF Finish, InvBut, Core, TypeOK
      <4> QED
        BY <3>1, <4>1, EndInv
    <3>3. CASE job[j] # Null
      <4>1. job' = [job EXCEPT ![j] = RecordedRow(@, o)]
        BY <2>2, <3>3 DEF Finish
      <4> QED
        BY <3>1, <3>3, <4>1, EndInv
    <3> QED
      BY <3>2, <3>3
  <2> QED
    BY <1>5, <2>1, <2>2 DEF ExecutionStep
<1>6. CASE UNCHANGED vars
  <2>1. /\ now' = now /\ config' = config /\ job' = job
        /\ tick' = tick /\ live' = live
    BY <1>6 DEF vars
  <2>2. TypeOK' /\ StageShape' /\ RunShape' /\ Locks'
    BY <2>1 DEF InvBut, Core, TypeOK, StageShape, RunShape, Locks, HeldJobs
  <2>3. Held'
    BY <2>1 DEF InvBut, Core, Held, HeldJobs, Failed, AttemptsLeft
  <2>4. OnceBut(X)' /\ BoundedBut(X)' /\ FreshOrRetry'
    BY <2>1 DEF InvBut, Core, OnceBut, BoundedBut, FreshOrRetry
  <2> QED
    BY <2>2, <2>3, <2>4 DEF InvBut, Core
<1> QED
  BY <1>1, <1>2, <1>3, <1>4, <1>5, <1>6 DEF Next, Terminated

\* Inv leaves no job out.
LEMMA InvIsInvBut == Inv <=> InvBut({})
BY DEF Inv, InvBut, Core, TypeOK, OnceBut, BoundedBut, OneExecution, AttemptsBounded

LEMMA InvStep == Inv /\ [Next]_vars => Inv'
<1> SUFFICES ASSUME Inv, [Next]_vars PROVE Inv'
  OBVIOUS
<1>1. InvBut({})'
  BY InvIsInvBut, InvButStep
<1> QED
  BY <1>1 DEF Inv, InvBut, Core, TypeOK, OnceBut, BoundedBut, OneExecution, AttemptsBounded

-----------------------------------------------------------------------------

\* The inductive invariant holds throughout.
THEOREM Invariance == Spec => []Inv
BY InvInit, InvStep, PTL DEF Spec

\* Every row and every tick keeps its type, for any number of configs, runs and
\* retries and any clock.
THEOREM TypeCorrect == Spec => []TypeOK
<1>1. Inv => TypeOK
  BY DEF Inv, Core
<1> QED
  BY <1>1, Invariance, PTL

\* However many ticks overlap, and wherever they fail, no job is executed for
\* two runs at once, and a job under execution is PENDING for the run it names.
THEOREM SingleExecution == Spec => []OneExecution
<1>1. Inv => OneExecution
  BY DEF Inv
<1> QED
  BY <1>1, Invariance, PTL

\* No interleaving of ticks and row writes gives a job more than RetryMax
\* executions.
THEOREM BoundedAttempts == Spec => []AttemptsBounded
<1>1. Inv => AttemptsBounded
  BY DEF Inv
<1> QED
  BY <1>1, Invariance, PTL

\* A tick never starts a config and retries an older job of it.
THEOREM NeverBoth == Spec => []FreshOrRetry
<1>1. Inv => FreshOrRetry
  BY DEF Inv, Core
<1> QED
  BY <1>1, Invariance, PTL

-----------------------------------------------------------------------------

\* Only a commit creates job rows, and only for configs it holds.
LEMMA CreationStep ==
  ASSUME Core, [Next]_vars, NEW j \in Jobs, job[j] = Null, job'[j] # Null
  PROVE  /\ IsDue(config[job'[j].cfg], job'[j].started)
         /\ job'[j].cfg \in Configs /\ config[job'[j].cfg] # Null
         /\ ~Poison(config[job'[j].cfg])
<1>1. CASE \E t \in Ticks : Commit(t)
  <2>1. PICK t \in Ticks : Commit(t)
    BY <1>1
  <2>2. j \notin HeldJobs(t)
    BY DEF Core, Held, Failed
  <2>3. j \in FreshJobs(t) /\ job'[j] = FreshRow(t, j[2])
    BY <2>1, <2>2, CommitRows
  <2>4. j[2] \in tick[t].due
    BY <2>3 DEF FreshJobs
  <2>5. /\ IsDue(config[j[2]], tick[t].now) /\ j[2] \in Configs
        /\ config[j[2]] # Null /\ ~Poison(config[j[2]])
    BY <2>1, <2>4 DEF Core, Held, Commit, TypeOK, TickRecord
  <2> QED
    BY <2>3, <2>5 DEF FreshRow
<1>2. CASE \E t \in Ticks, i \in Jobs, o \in Outcomes : Finish(t, i, o)
  BY <1>2 DEF Finish, Core, TypeOK
<1>3. CASE job' = job
  BY <1>3
<1> QED
  BY <1>1, <1>2, <1>3 DEF Next, Advance, Begin, TickStep, SelectDue, CreateJobs,
     ResetRetry, SelectRetry, Unwind, Rollback, ExecutionStep, Lose, Terminated,
     vars

\* Two ticks that both saw a config due never both dispatch it: a job is only
\* created for a config that is due by its row at that moment.
THEOREM CreatedWhenDue == Spec => DispatchedWhenDue
<1>1. Inv /\ [Next]_vars =>
        \A j \in Jobs : job[j] = Null /\ job'[j] # Null =>
          IsDue(config[job'[j].cfg], job'[j].started)
  BY CreationStep DEF Inv
<1>2. Inv /\ [Next]_vars =>
        [\A j \in Jobs : job[j] = Null /\ job'[j] # Null =>
          IsDue(config[job'[j].cfg], job'[j].started)]_vars
  BY <1>1
<1> QED
  BY <1>2, Invariance, PTL DEF Spec, DispatchedWhenDue

-----------------------------------------------------------------------------
(* Nobody waits for a lock *)

\* No tick has a config in hand that another tick holds, be it for a retry, and
\* the rows a tick resets are those of its own configs.
Apart ==
  \A t, u \in Ticks : t # u => tick[t].due \cap HeldConfigs(u) = {}
ResetOwn == \A t \in Ticks : \A j \in tick[t].reset : job[j].cfg \in tick[t].due

LockInv == Apart /\ ResetOwn

\* A tick goes on with the rows it has locked, or gives them up.
Keeps(t) ==
  /\ tick'[t].due = tick[t].due /\ tick'[t].reset = tick[t].reset
  /\ tick'[t].retry = tick[t].retry
  /\ \A j \in HeldJobs(t) : job'[j] = job[j]
Releases(t) == tick'[t].due = {} /\ tick'[t].reset = {} /\ tick'[t].retry = {}

LEMMA LockKept ==
  ASSUME LockInv, \A t \in Ticks : Keeps(t) \/ Releases(t) PROVE LockInv'
<1>1. \A t \in Ticks : tick'[t].due \subseteq tick[t].due
                       /\ HeldConfigs(t)' \subseteq HeldConfigs(t)
  BY DEF Keeps, Releases, HeldConfigs, HeldJobs
<1>2. Apart'
  BY <1>1 DEF LockInv, Apart
<1>3. ResetOwn'
  BY DEF LockInv, ResetOwn, Keeps, Releases, HeldJobs
<1> QED
  BY <1>2, <1>3 DEF LockInv

LEMMA LockInit == Init => LockInv
BY DEF Init, Idle, LockInv, Apart, ResetOwn

LEMMA LockSelectDue ==
  ASSUME Core, LockInv, NEW t \in Ticks, SelectDue(t) PROVE LockInv'
<1>1. PICK D \in Picks(DueConfigs(tick[t].now) \ LockedConfigs(t)) :
        tick' = [tick EXCEPT ![t] = [@ EXCEPT !.pc = "create", !.due = D]]
  BY DEF SelectDue
<1>2. /\ tick[t] \in TickRecord /\ job' = job
      /\ tick[t].reset = {} /\ tick[t].retry = {}
  BY DEF SelectDue, Core, TypeOK, StageShape
<1>3. /\ tick'[t].due = D /\ tick'[t].reset = {} /\ tick'[t].retry = {}
      /\ \A u \in Ticks \ {t} : tick'[u] = tick[u]
  BY <1>1, <1>2 DEF Core, TypeOK, TickRecord
<1>4. \A u \in Ticks \ {t} : D \cap HeldConfigs(u) = {}
  BY DEF Picks, LockedConfigs
<1>5. \A u \in Ticks : tick[u].due \subseteq HeldConfigs(u)
  BY DEF HeldConfigs
<1>6. /\ HeldConfigs(t)' = D
      /\ \A u \in Ticks \ {t} : HeldConfigs(u)' = HeldConfigs(u)
  BY <1>2, <1>3 DEF HeldConfigs
<1>7. Apart'
  BY <1>3, <1>4, <1>5, <1>6 DEF LockInv, Apart
<1>8. ResetOwn'
  BY <1>2, <1>3 DEF LockInv, ResetOwn
<1> QED
  BY <1>7, <1>8 DEF LockInv

LEMMA LockReset ==
  ASSUME Core, LockInv, NEW t \in Ticks, ResetRetry(t) PROVE LockInv'
<1>1. /\ tick' = [tick EXCEPT ![t] = [@ EXCEPT !.pc = "retry", !.reset = Superseded(t)]]
      /\ tick[t] \in TickRecord /\ job' = job
  BY DEF ResetRetry, Core, TypeOK
<1>2. /\ tick'[t].due = tick[t].due /\ tick'[t].retry = tick[t].retry
      /\ tick'[t].reset = Superseded(t)
      /\ \A u \in Ticks \ {t} : tick'[u] = tick[u]
  BY <1>1 DEF Core, TypeOK, TickRecord
<1>3. \A u \in Ticks : tick'[u].due = tick[u].due /\ HeldConfigs(u)' = HeldConfigs(u)
  BY <1>1, <1>2 DEF HeldConfigs
<1>4. Apart'
  BY <1>3 DEF LockInv, Apart
<1>5. ResetOwn'
  BY <1>1, <1>2 DEF LockInv, ResetOwn, Superseded
<1> QED
  BY <1>4, <1>5 DEF LockInv

LEMMA LockSelectRetry ==
  ASSUME Core, LockInv, NEW t \in Ticks, SelectRetry(t) PROVE LockInv'
<1>1. PICK R \in Picks(RetryCandidates(t)), pc \in {"failed", "commit"} :
        tick' = [tick EXCEPT ![t] = [@ EXCEPT !.pc = pc, !.retry = R]]
  BY DEF SelectRetry
<1>2. tick[t] \in TickRecord /\ job' = job
  BY DEF SelectRetry, Core, TypeOK
<1>3. /\ tick'[t].due = tick[t].due /\ tick'[t].reset = tick[t].reset
      /\ tick'[t].retry = R
      /\ \A u \in Ticks \ {t} : tick'[u] = tick[u]
  BY <1>1, <1>2 DEF Core, TypeOK, TickRecord
<1>4. \A u \in Ticks \ {t} : \A j \in R : job[j].cfg \notin tick[u].due
  BY DEF Picks, RetryCandidates, LockedConfigs, HeldConfigs
<1>5. /\ HeldConfigs(t)' = tick[t].due \cup ({job[j].cfg : j \in R} \ {Null})
      /\ \A u \in Ticks \ {t} : HeldConfigs(u)' = HeldConfigs(u)
  BY <1>2, <1>3 DEF HeldConfigs
<1>6. \A u, v \in Ticks : u # v => tick[u].due \cap tick[v].due = {}
  BY DEF Core, Locks
<1>7. Apart'
  BY <1>3, <1>4, <1>5, <1>6 DEF LockInv, Apart
<1>8. ResetOwn'
  BY <1>2, <1>3 DEF LockInv, ResetOwn
<1> QED
  BY <1>7, <1>8 DEF LockInv

LEMMA LockCommit ==
  ASSUME Core, LockInv, NEW t \in Ticks, Commit(t) PROVE LockInv'
<1>1. Releases(t) /\ \A u \in Ticks \ {t} : tick'[u] = tick[u]
  BY CommitTicks DEF Releases
<1>2. ASSUME NEW u \in Ticks \ {t}, NEW j \in HeldJobs(u) PROVE job'[j] = job[j]
  <2>1. j \in Jobs /\ job[j] # Null /\ j \notin HeldJobs(t)
    BY <1>2 DEF Core, TypeOK, TickRecord, HeldJobs, Held, Failed, Locks
  <2> QED
    BY <2>1, CommitRows
<1> QED
  BY <1>1, <1>2, LockKept DEF Keeps

\* The end of an execution writes no locked row.
LEMMA LockEnd ==
  ASSUME Core, LockInv, NEW t \in Ticks, ExecutionStep(t) PROVE LockInv'
<1>1. PICK j \in live[t] : /\ tick' = tick
                           /\ job' = job \/ j \notin LockedJobs(t)
                           /\ \A i \in Jobs \ {j} : job'[i] = job[i]
  BY DEF ExecutionStep, Lose, Finish, Core, TypeOK
<1>2. tick[t].pc = "done"
  BY DEF Core, RunShape
<1>3. HeldJobs(t) = {} /\ \A u \in Ticks : HeldJobs(u) \subseteq Jobs
  BY <1>2 DEF Core, StageShape, HeldJobs, TypeOK, TickRecord
<1>4. ASSUME NEW u \in Ticks, NEW i \in HeldJobs(u) PROVE job'[i] = job[i]
  BY <1>1, <1>3, <1>4 DEF LockedJobs
<1> QED
  BY <1>1, <1>4, LockKept DEF Keeps

LEMMA LockStep == Core /\ LockInv /\ [Next]_vars => LockInv'
<1> SUFFICES ASSUME Core, LockInv, [Next]_vars PROVE LockInv'
  OBVIOUS
<1>1. CASE Advance \/ Terminated \/ UNCHANGED vars
  BY <1>1, LockKept DEF Advance, Terminated, vars, Keeps
<1>2. ASSUME NEW t \in Ticks, Begin(t) \/ CreateJobs(t) \/ Unwind(t) \/ Rollback(t)
      PROVE  LockInv'
  <2>1. job' = job /\ \A u \in Ticks \ {t} : tick'[u] = tick[u]
    BY <1>2 DEF Begin, CreateJobs, Unwind, Rollback, Core, TypeOK
  <2>2. CASE Begin(t) \/ Unwind(t) \/ Rollback(t)
    <3>1. Releases(t)
      <4>1. tick \in [Ticks -> TickRecord]
        BY DEF Core, TypeOK
      <4>2. CASE Begin(t)
        BY <4>1, <4>2 DEF Begin, Idle, Releases
      <4>3. CASE Unwind(t) \/ Rollback(t)
        BY <4>1, <4>3 DEF Unwind, Rollback, Idle, Releases
      <4> QED
        BY <2>2, <4>2, <4>3
    <3>2. \A u \in Ticks \ {t} : Keeps(u)
      BY <2>1 DEF Keeps
    <3> QED
      BY <3>1, <3>2, LockKept
  <2>3. CASE CreateJobs(t)
    <3>1. PICK pc : tick' = [tick EXCEPT ![t] = [@ EXCEPT !.pc = pc]]
      BY <2>3 DEF CreateJobs
    <3> QED
      BY <2>1, <3>1, LockKept DEF Core, TypeOK, TickRecord, Keeps
  <2> QED
    BY <1>2, <2>2, <2>3
<1> QED
  BY <1>1, <1>2, LockSelectDue, LockReset, LockSelectRetry, LockCommit, LockEnd
  DEF Next, TickStep

\* What both invariants say of waiting: the rows of a tick's UPDATE are of its
\* own configs, which no other tick holds; a job that is executed is PENDING,
\* and locked jobs are not.
LEMMA UpdateIsFree ==
  ASSUME Core, LockInv, NEW t \in Ticks PROVE Superseded(t) \cap LockedJobs(t) = {}
<1> SUFFICES ASSUME NEW u \in Ticks \ {t}, NEW j \in Superseded(t), j \in HeldJobs(u)
             PROVE  FALSE
  BY DEF LockedJobs
<1>1. job[j].cfg \in tick[t].due /\ job[j].cfg \in Configs
  BY DEF Superseded, Core, TypeOK, TickRecord
<1>2. job[j].cfg \notin HeldConfigs(u)
  BY <1>1 DEF LockInv, Apart
<1>3. CASE j \in tick[u].reset
  BY <1>2, <1>3 DEF LockInv, ResetOwn, HeldConfigs
<1>4. CASE j \in tick[u].retry
  BY <1>1, <1>2, <1>4, RowAssumption DEF HeldConfigs
<1> QED
  BY <1>3, <1>4 DEF HeldJobs

\* In every reachable state each tick can do its UPDATE and each execution its
\* row write: transactions of ticks never wait for each other, in any number.
THEOREM NobodyWaits == Spec => []NoLockWaits
<1>1. Inv /\ LockInv => NoLockWaits
  <2> SUFFICES ASSUME Inv, LockInv, NEW t \in Ticks, NEW j \in live[t], j \in LockedJobs(t)
               PROVE  FALSE
    BY UpdateIsFree DEF NoLockWaits, Inv
  <2>1. PICK u \in Ticks : j \in HeldJobs(u)
    BY DEF LockedJobs
  <2> QED
    BY <2>1 DEF Inv, Core, Held, Failed, OneExecution
<1>2. Inv /\ [Next]_vars => Core
  BY DEF Inv
<1> QED
  BY <1>1, <1>2, LockInit, LockStep, Invariance, PTL DEF Spec

\* LIMIT leaves something to select from any finite number of rows.
LEMMA PicksSomething == ASSUME NEW S, IsFiniteSet(S) PROVE Picks(S) # {}
<1>1. /\ Cardinality(S) \in Nat
      /\ MaxDispatchLimit \in Nat
      /\ ExistsBijection(1 .. Cardinality(S), S)
  BY FS_CardinalityType, BoundAssumption
<1>2. CASE Cardinality(S) <= MaxDispatchLimit
  BY <1>2 DEF Picks
<1>3. CASE Cardinality(S) > MaxDispatchLimit
  <2>1. PICK f \in Bijection(1 .. Cardinality(S), S) : TRUE
    BY <1>1 DEF ExistsBijection
  <2> DEFINE D == {f[i] : i \in 1 .. MaxDispatchLimit}
  <2>2. 1 .. MaxDispatchLimit \subseteq 1 .. Cardinality(S)
    BY <1>1, <1>3
  <2>3. D \subseteq S
    BY <2>1, <2>2 DEF Bijection, Injection
  <2>4. [i \in 1 .. MaxDispatchLimit |-> f[i]] \in Bijection(1 .. MaxDispatchLimit, D)
    <3> DEFINE g == [i \in 1 .. MaxDispatchLimit |-> f[i]]
    <3>1. \A i, k \in 1 .. MaxDispatchLimit : g[i] = g[k] => i = k
      BY <2>1, <2>2 DEF Bijection, Injection, IsInjective
    <3>2. g \in [1 .. MaxDispatchLimit -> D] /\ \A d \in D : \E i \in 1 .. MaxDispatchLimit : g[i] = d
      OBVIOUS
    <3> QED
      <4>1. g \in Injection(1 .. MaxDispatchLimit, D)
        BY <3>1, <3>2 DEF Injection, IsInjective
      <4>2. g \in Surjection(1 .. MaxDispatchLimit, D)
        BY <3>2 DEF Surjection
      <4> QED
        BY <4>1, <4>2 DEF Bijection
  <2>5. ExistsBijection(1 .. MaxDispatchLimit, D)
    BY <2>4 DEF ExistsBijection
  <2> HIDE DEF D
  <2>6. Cardinality(D) = MaxDispatchLimit
    BY <1>1, <2>5, FS_CountingElements
  <2> QED
    BY <1>1, <2>3, <2>6 DEF Picks
<1> QED
  BY <1>1, <1>2, <1>3

\* The next statement of a tick's transaction always has an answer.
GoesOn ==
  \A t \in Ticks :
    /\ tick[t].pc = "select" =>
         Picks(DueConfigs(tick[t].now) \ LockedConfigs(t)) # {}
    /\ tick[t].pc = "reset" => Superseded(t) \cap LockedJobs(t) = {}
    /\ tick[t].pc = "retry" => Picks(RetryCandidates(t)) # {}

\* No tick is ever stuck inside its transaction, whatever the others hold and
\* whatever the limit: the guard of its next step is true.
THEOREM TicksGoOn ==
  ASSUME IsFiniteSet(Configs), IsFiniteSet(Ticks) PROVE Spec => []GoesOn
<1>1. IsFiniteSet(Jobs)
  BY FS_Product DEF Jobs
<1>2. ASSUME NEW t \in Ticks
      PROVE  /\ Picks(DueConfigs(tick[t].now) \ LockedConfigs(t)) # {}
             /\ Picks(RetryCandidates(t)) # {}
  <2>1. /\ DueConfigs(tick[t].now) \ LockedConfigs(t) \in SUBSET Configs
        /\ RetryCandidates(t) \in SUBSET Jobs
    BY DEF DueConfigs, RetryCandidates
  <2>2. /\ IsFiniteSet(DueConfigs(tick[t].now) \ LockedConfigs(t))
        /\ IsFiniteSet(RetryCandidates(t))
    BY <1>1, <2>1, FS_Subset
  <2> QED
    BY <2>2, PicksSomething
<1>3. NoLockWaits => GoesOn
  BY <1>2 DEF NoLockWaits, GoesOn
<1> QED
  BY <1>3, NobodyWaits, PTL

-----------------------------------------------------------------------------
(* A database without FOR UPDATE over an outer join *)

\* No tick gets as far as its commit, so the configs are as they were stored.
Stalled ==
  /\ config \in [Configs -> InitRows]
  /\ job = [j \in Jobs |-> Null]
  /\ live = [t \in Ticks |-> {}]
  /\ \A t \in Ticks : tick[t].pc \notin {"commit", "done"}

\* services.py:141-150 on PostgreSQL: whatever is due and however often ticks
\* come, no job row is ever stored, nothing is executed, no config moves on.
THEOREM NothingRunsOnPostgres == ASSUME ~LocksOuterJoin PROVE Spec => []Stalled
<1>1. Init => Stalled
  BY DEF Init, Idle, Stalled
<1>2. ASSUME Inv, Stalled, [Next]_vars PROVE Stalled'
  <2>1. tick \in [Ticks -> TickRecord]
    BY <1>2 DEF Inv, Core, TypeOK
  <2>2. ASSUME NEW t \in Ticks, NEW r,
               tick' = [tick EXCEPT ![t] = r], r.pc \notin {"commit", "done"},
               UNCHANGED <<config, job, live>>
        PROVE  Stalled'
    BY <1>2, <2>1, <2>2 DEF Stalled
  <2>3. ASSUME NEW t \in Ticks, Begin(t) \/ Unwind(t) \/ Rollback(t) PROVE Stalled'
    BY <2>2, <2>3 DEF Begin, Unwind, Rollback, Idle
  <2>4. ASSUME NEW t \in Ticks, SelectDue(t) PROVE Stalled'
    BY <2>1, <2>2, <2>4 DEF SelectDue, TickRecord
  <2>5. ASSUME NEW t \in Ticks, CreateJobs(t) PROVE Stalled'
    <3>1. PICK pc \in {"failed", "retry", "reset"} :
            tick' = [tick EXCEPT ![t] = [tick[t] EXCEPT !.pc = pc]]
      BY <2>5 DEF CreateJobs
    <3>2. [tick[t] EXCEPT !.pc = pc].pc = pc
      BY <2>1 DEF TickRecord
    <3> QED
      BY <2>2, <2>5, <3>1, <3>2 DEF CreateJobs
  <2>6. ASSUME NEW t \in Ticks, ResetRetry(t) PROVE Stalled'
    BY <2>1, <2>2, <2>6 DEF ResetRetry, TickRecord
  <2>7. ASSUME NEW t \in Ticks, SelectRetry(t) PROVE Stalled'
    <3>1. PICK R : tick' = [tick EXCEPT ![t] = [tick[t] EXCEPT !.pc = "failed", !.retry = R]]
      BY <2>7 DEF SelectRetry, RetryFails
    <3>2. [tick[t] EXCEPT !.pc = "failed", !.retry = R].pc = "failed"
      BY <2>1 DEF TickRecord
    <3> QED
      BY <2>2, <2>7, <3>1, <3>2 DEF SelectRetry
  <2>8. ASSUME NEW t \in Ticks, Commit(t) \/ ExecutionStep(t) PROVE FALSE
    BY <1>2, <2>8 DEF Commit, ExecutionStep, Lose, Finish, Stalled
  <2>9. CASE Advance \/ Terminated \/ UNCHANGED vars
    BY <1>2, <2>9 DEF Advance, Terminated, vars, Stalled
  <2> QED
    BY <1>2, <2>3, <2>4, <2>5, <2>6, <2>7, <2>8, <2>9 DEF Next, TickStep
<1> QED
  BY <1>1, <1>2, Invariance, PTL DEF Spec

-----------------------------------------------------------------------------

\* Configs as the API stores them, with intervals that do not run backwards:
\* ScheduleConfigBase accepts those too (schedule_configs/schemas.py:17).
ForwardRows ==
  \A row \in InitRows :
    row.last = Null /\ (row.interval # Null => row.interval >= 0)

\* The next run is the one calc_next_run plans from the last.
Planned ==
  \A c \in Configs : config[c] # Null =>
    /\ config[c].interval # Null => config[c].interval >= 0
    /\ config[c].last # Null =>
         /\ config[c].next # Null
         /\ config[c].next = CalcNextRun(config[c], config[c].last)

\* The next match of a cron expression is strictly later.
LEMMA NextMultiple ==
  ASSUME NEW n \in Int, NEW p \in Nat, p > 0
  PROVE  /\ ((n \div p) + 1) * p \in Int
         /\ ((n \div p) + 1) * p > n
OBVIOUS

\* A multiple of p that comes after m and not after n tells their quotients
\* apart.
LEMMA MultipleBetween ==
  ASSUME NEW m \in Int, NEW n \in Int, NEW p \in Nat, p > 0,
         ((m \div p) + 1) * p <= n
  PROVE  m \div p < n \div p
<1> DEFINE k == (m \div p) + 1
           q == n \div p
<1>1. k \in Int /\ q \in Int /\ k * p \in Int /\ (q + 1) * p \in Int
      /\ (q + 1) * p > n /\ k * p <= n
  OBVIOUS
<1>2. ASSUME k > q PROVE FALSE
  <2> HIDE DEF k, q
  <2>1. k = q + 1 + (k - (q + 1)) /\ k - (q + 1) \in Nat
    BY <1>1, <1>2
  <2>2. (k - (q + 1)) * p >= 0
    BY <2>1
  <2>3. k * p = (q + 1) * p + (k - (q + 1)) * p
    BY <1>1, <2>1
  <2> QED
    BY <1>1, <2>2, <2>3
<1> QED
  BY <1>1, <1>2

\* calc_next_run looks forward.
LEMMA NextRunLater ==
  ASSUME NEW row \in ConfigRow, ~Poison(row), NEW n \in Int,
         row.interval # Null => row.interval >= 0
  PROVE  CalcNextRun(row, n) \in Int /\ CalcNextRun(row, n) > n
<1>1. row.cron \in (Nat \ {0}) \cup {Null} /\ row.interval \in OptInt
  BY DEF ConfigRow
<1>2. CASE row.cron # Null
  <2>1. row.cron \in Nat /\ row.cron > 0
    BY <1>1, <1>2
  <2> QED
    BY <1>2, <2>1, NextMultiple DEF CalcNextRun
<1>3. CASE row.cron = Null
  <2>1. row.interval \in Int /\ row.interval > 0
    BY <1>1, <1>3 DEF Poison, CanCalc, Falsy, OptInt
  <2> QED
    BY <2>1, <1>3 DEF CalcNextRun
<1> QED
  BY <1>2, <1>3

\* A run that comes when the one planned from the last was due keeps its
\* distance from it.
LEMMA SpacedWhenDue ==
  ASSUME NEW row \in ConfigRow, ~Poison(row), NEW n \in Int, IsDue(row, n),
         row.last # Null, row.next # Null, row.next = CalcNextRun(row, row.last)
  PROVE  Spaced(row, n)
<1>1. /\ row.cron \in (Nat \ {0}) \cup {Null} /\ row.interval \in OptInt
      /\ row.last \in Int
      /\ CalcNextRun(row, row.last) <= n
  BY DEF ConfigRow, OptInt, IsDue
<1>2. CASE row.cron # Null
  <2>1. row.cron \in Nat /\ row.cron > 0
    BY <1>1, <1>2
  <2>2. ((row.last \div row.cron) + 1) * row.cron <= n
    BY <1>1, <1>2 DEF CalcNextRun
  <2>3. row.last \div row.cron < n \div row.cron
    BY <1>1, <2>1, <2>2, MultipleBetween
  <2> QED
    BY <1>2, <2>3 DEF Spaced
<1>3. CASE row.cron = Null
  <2>1. row.interval \in Int
    BY <1>1, <1>3 DEF Poison, CanCalc, Falsy, OptInt
  <2> QED
    BY <1>1, <1>3, <2>1 DEF CalcNextRun, Spaced
<1> QED
  BY <1>2, <1>3

LEMMA PlannedInit == ForwardRows /\ Init => Planned
BY DEF ForwardRows, Init, Planned

\* A config whose last run changes was due, so its plan had come; the commit
\* plans the next one after the tick's `now`.
LEMMA PlannedStep ==
  ASSUME Inv, Planned, [Next]_vars
  PROVE  /\ Planned'
         /\ \A c \in Configs :
              config[c] # Null /\ config'[c] # Null
                /\ config'[c].last # config[c].last =>
              /\ config[c].last = Null \/ Spaced(config[c], config'[c].last)
              /\ config'[c].next > config'[c].last
<1>1. CASE config' = config
  BY <1>1 DEF Planned
<1>2. ASSUME NEW t \in Ticks, Commit(t), NEW c \in Configs, config'[c] # Null
      PROVE  /\ config'[c].interval # Null => config'[c].interval >= 0
             /\ config'[c].last # Null =>
                  /\ config'[c].next # Null
                  /\ config'[c].next = CalcNextRun(config'[c], config'[c].last)
             /\ config[c] # Null /\ config'[c].last # config[c].last =>
                  /\ config[c].last = Null \/ Spaced(config[c], config'[c].last)
                  /\ config'[c].next > config'[c].last
  <2>1. CASE c \notin tick[t].due
    <3>1. config'[c] = config[c]
      BY <1>2, <2>1 DEF Commit
    <3> QED
      BY <1>2, <3>1 DEF Planned
  <2>2. CASE c \in tick[t].due
    <3>1. /\ config[c] \in ConfigRow /\ config[c] # Null
          /\ ~Poison(config[c]) /\ IsDue(config[c], tick[t].now)
          /\ tick[t].now \in Int
      BY <1>2, <2>2 DEF Inv, Core, Held, TypeOK, TickRecord, Commit
    <3>2. config[c].interval # Null => config[c].interval >= 0
      BY <3>1 DEF Planned
    <3>3. /\ CalcNextRun(config[c], tick[t].now) \in Int
          /\ CalcNextRun(config[c], tick[t].now) > tick[t].now
      BY <3>1, <3>2, NextRunLater
    <3>4. config'[c] = AdvancedRow(config[c], tick[t].now)
      BY <1>2, <2>2 DEF Commit
    <3>5. /\ config'[c].last = tick[t].now
          /\ config'[c].next = CalcNextRun(config[c], tick[t].now)
          /\ config'[c].interval = config[c].interval
          /\ config'[c].cron = config[c].cron
      BY <3>1, <3>4 DEF AdvancedRow, ConfigRow
    <3>6. config'[c].next = CalcNextRun(config'[c], config'[c].last)
      BY <3>5 DEF CalcNextRun
    <3>7. config[c].last = Null \/ Spaced(config[c], tick[t].now)
      BY <3>1, SpacedWhenDue DEF Planned
    <3> QED
      BY <3>1, <3>2, <3>3, <3>5, <3>6, <3>7, NullAssumption
  <2> QED
    BY <2>1, <2>2
<1>3. CASE \E t \in Ticks : Commit(t)
  BY <1>2, <1>3 DEF Planned
<1> QED
  BY <1>1, <1>3 DEF Next, Advance, Begin, TickStep, SelectDue, CreateJobs,
     ResetRetry, SelectRetry, Unwind, Rollback, ExecutionStep, Lose, Finish,
     Terminated, vars

\* Unless an interval runs backwards, successive runs of a config are a full
\* interval, or a match of its cron expression, apart, however old a tick's
\* `now` is when it commits.
THEOREM RunsInOrder == ASSUME ForwardRows PROVE Spec => RunsAdvance
<1> DEFINE Step == \A c \in Configs :
       config[c] # Null /\ config'[c] # Null /\ config'[c].last # config[c].last =>
       /\ config[c].last = Null \/ Spaced(config[c], config'[c].last)
       /\ config'[c].next > config'[c].last
<1>1. Init => Planned
  BY PlannedInit
<1>2. Inv /\ Planned /\ [Next]_vars => Planned' /\ Step
  BY PlannedStep
<1>3. Inv /\ Planned /\ [Next]_vars => Planned' /\ [Step]_vars
  BY <1>2
<1> QED
  BY <1>1, <1>3, Invariance, PTL DEF Spec, RunsAdvance
=============================================================================
