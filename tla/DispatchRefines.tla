-------------------------- MODULE DispatchRefines ---------------------------
(* Dispatch implements JobLife: however ticks interleave, a job lives the    *)
(* life it was promised.                                                     *)
EXTENDS DispatchProofs

\* What JobLife allows one job to do in a step, over the refinement mapping.
Lives(j) ==
  \/ Phase(j)' = Phase(j) /\ Count(j)' = Count(j)
  \/ Phase(j) = "none" /\ Phase(j)' = "running" /\ Count(j)' = 0
  \/ /\ Phase(j) = "running" /\ Phase(j)' \in {"done", "retryable"}
     /\ Count(j)' = Count(j) + 1
  \/ Phase(j) = "running" /\ Phase(j)' = "lost" /\ Count(j)' = Count(j)
  \/ Phase(j) = "retryable" /\ Phase(j)' = "done" /\ Count(j)' = Count(j)
  \/ /\ Phase(j) = "retryable" /\ Phase(j)' = "running"
     /\ Count(j) < RetryMax /\ Count(j)' = Count(j)
  \/ Phase(j) # "gone" /\ Phase(j)' = "gone" /\ Count(j)' = 0

\* A job whose row, executions and creating run stay as they are stays put.
LEMMA SameLives ==
  ASSUME NEW j \in Jobs, job'[j] = job[j],
         \A u \in Ticks : j \in live'[u] <=> j \in live[u],
         job[j] = Null => (tick'[j[1]].pc = "done" <=> tick[j[1]].pc = "done")
  PROVE  Lives(j)
BY DEF Lives, Phase, Count, Failed

\* The rows the code writes are rows.
LEMMA RowTypes ==
  ASSUME NEW t \in Ticks, NEW n \in Int, tick[t].now = n, now \in Int
  PROVE  /\ \A c \in Configs : FreshRow(t, c) \in JobRow
         /\ \A row \in JobRow :
              /\ RetryRow(t, row) \in JobRow
              /\ [row EXCEPT !.retryNeed = FALSE] \in JobRow
              /\ \A o \in Outcomes : RecordedRow(row, o) \in JobRow
<1>1. \A c \in Configs : FreshRow(t, c) \in JobRow
  BY DEF FreshRow, JobRow, Status, OptInt
<1>2. ASSUME NEW row \in JobRow
      PROVE  /\ RetryRow(t, row) \in JobRow
             /\ [row EXCEPT !.retryNeed = FALSE] \in JobRow
  BY DEF RetryRow, JobRow, Status
<1>3. ASSUME NEW row \in JobRow, NEW o \in Outcomes
      PROVE  RecordedRow(row, o) \in JobRow
  <2> DEFINE st == IF o = "success" THEN "SUCCESS" ELSE "FAILURE"
             rn == o = "retry"
  <2>1. RecordedRow(row, o) =
          [row EXCEPT !.status = st, !.finished = now, !.retryNeed = rn,
                      !.attempts = @ + 1]
    BY DEF RecordedRow
  <2>2. st \in Status /\ now \in OptInt /\ rn \in BOOLEAN
    BY DEF Status, OptInt
  <2>3. row.attempts + 1 \in Nat
    BY DEF JobRow
  <2> HIDE DEF st, rn
  <2> QED
    BY <2>1, <2>2, <2>3 DEF JobRow
<1> QED
  BY <1>1, <1>2, <1>3

LEMMA CommitLives ==
  ASSUME NEW X, InvBut(X), NEW t \in Ticks, Commit(t), NEW j \in Jobs \ X
  PROVE  Lives(j)
<1> USE DEF InvBut, Core
<1>1. /\ tick[t].pc = "commit"
      /\ tick'[t].pc = IF live'[t] = {} THEN "idle" ELSE "done"
      /\ live'[t] = FreshJobs(t) \cup tick[t].retry
      /\ \A u \in Ticks : u # t => tick'[u] = tick[u] /\ live'[u] = live[u]
  BY CommitTicks
<1>2. live[t] = {} /\ j[1] \in Ticks /\ j[2] \in Configs
  BY <1>1 DEF RunShape, Jobs
<1>3. tick[t].now \in Int /\ now \in Int
  BY DEF TypeOK, TickRecord
<1>4. j \in HeldJobs(t) =>
        /\ Failed(j) /\ job[j] \in JobRow
        /\ \A u \in Ticks : j \notin live[u]
  BY RowAssumption DEF Held, Failed, OnceBut, TypeOK
<1>5. CASE j \in FreshJobs(t)
  <2>1. job[j] = Null /\ job'[j] = FreshRow(t, j[2]) /\ j[1] = t
    BY <1>5, CommitRows DEF FreshJobs
  <2>2. Phase(j) = "none"
    BY <1>1, <2>1 DEF Phase
  <2>3. job'[j] # Null
    BY <1>2, <1>3, <2>1, RowTypes, RowAssumption
  <2>4. Phase(j)' = "running" /\ Count(j)' = 0
    BY <1>1, <1>5, <2>1, <2>3 DEF Phase, Count, FreshRow
  <2> QED
    BY <2>2, <2>4 DEF Lives
<1>6. CASE j \in tick[t].retry
  <2>1. j \in HeldJobs(t) /\ job'[j] = RetryRow(t, job[j])
    BY <1>6, CommitRows DEF HeldJobs
  <2>2. job'[j] # Null
    BY <1>3, <1>4, <2>1, RowTypes, RowAssumption
  <2>3. job'[j].attempts = job[j].attempts
    BY <1>4, <2>1 DEF RetryRow, JobRow
  <2>4. job[j].attempts < RetryMax
    BY <1>6 DEF Held, AttemptsLeft
  <2>5. Phase(j) = "retryable" /\ Phase(j)' = "running"
    BY <1>1, <1>4, <1>6, <2>1, <2>2 DEF Phase, Failed
  <2>6. Count(j) = job[j].attempts /\ Count(j)' = job[j].attempts
    BY <1>4, <2>1, <2>2, <2>3 DEF Count, Failed
  <2> QED
    BY <2>4, <2>5, <2>6 DEF Lives
<1>7. CASE j \in tick[t].reset \ tick[t].retry
  <2>1. /\ j \in HeldJobs(t)
        /\ job'[j] = [job[j] EXCEPT !.retryNeed = FALSE]
    BY <1>7, CommitRows DEF HeldJobs
  <2>2. job'[j] # Null
    BY <1>3, <1>4, <2>1, RowTypes, RowAssumption
  <2>3. /\ job'[j].attempts = job[j].attempts
        /\ job'[j].status = job[j].status /\ job'[j].retryNeed = FALSE
    BY <1>4, <2>1 DEF JobRow
  <2>4. \A u \in Ticks : j \notin live'[u]
    BY <1>1, <1>4, <1>7, <2>1, CommitRows DEF Failed
  <2>5. Phase(j) = "retryable" /\ Phase(j)' = "done"
    BY <1>4, <2>1, <2>2, <2>3, <2>4 DEF Phase, Failed
  <2>6. Count(j)' = Count(j)
    BY <1>4, <2>1, <2>2, <2>3 DEF Count, Failed
  <2> QED
    BY <2>5, <2>6 DEF Lives
<1>8. CASE j \notin FreshJobs(t) \cup HeldJobs(t)
  <2>1. job'[j] = job[j]
    BY <1>8, CommitRows
  <2>2. \A u \in Ticks : j \in live'[u] <=> j \in live[u]
    BY <1>1, <1>2, <1>8 DEF HeldJobs
  <2>3. CASE j[1] # t \/ job[j] # Null \/ tick'[t].pc = "idle"
    BY <1>1, <1>2, <2>1, <2>2, <2>3, SameLives
  <2>4. CASE j[1] = t /\ job[j] = Null /\ tick'[t].pc = "done"
    BY <1>1, <2>1, <2>4 DEF Phase, Count, Lives
  <2> QED
    BY <1>1, <2>3, <2>4
<1> QED
  BY <1>5, <1>6, <1>7, <1>8 DEF HeldJobs

LEMMA EndLives ==
  ASSUME NEW X, InvBut(X), NEW t \in Ticks, NEW i \in live[t],
         now' = now, tick' = tick, live' = [live EXCEPT ![t] = @ \ {i}],
         \/ job' = job
         \/ /\ job[i] # Null
            /\ \E o \in Outcomes : job' = [job EXCEPT ![i] = RecordedRow(@, o)],
         NEW j \in Jobs \ X
  PROVE  Lives(j)
<1> USE DEF InvBut, Core
<1>1. i \in Jobs
  BY DEF TypeOK
<1>2. i = j => \A u \in Ticks : i \notin live'[u]
  BY DEF OnceBut, TypeOK
<1>3. CASE j # i
  <2>1. job'[j] = job[j]
    BY <1>3 DEF TypeOK
  <2>2. \A u \in Ticks : j \in live'[u] <=> j \in live[u]
    BY <1>3 DEF TypeOK
  <2> QED
    BY <2>1, <2>2, SameLives
<1>4. CASE j = i /\ job[i] = Null
  <2>1. job' = job
    BY <1>4
  <2>2. tick[j[1]].pc = "done"
    BY <1>4 DEF RunShape
  <2> QED
    BY <1>4, <2>1, <2>2 DEF Lives, Phase, Count
<1>5. CASE j = i /\ job[i] # Null
  <2>1. job[j] \in JobRow /\ job[j].status = "PENDING"
    BY <1>1, <1>5 DEF TypeOK, OnceBut
  <2>2. Phase(j) = "running" /\ Count(j) = job[j].attempts
    BY <1>5 DEF Phase, Count
  <2>3. CASE job' = job
    BY <1>2, <1>5, <2>1, <2>2, <2>3 DEF Lives, Phase, Count
  <2>4. ASSUME NEW o \in Outcomes, job' = [job EXCEPT ![i] = RecordedRow(@, o)]
        PROVE  Lives(j)
    <3>1. job'[j] = RecordedRow(job[j], o)
      BY <1>1, <1>5, <2>4 DEF TypeOK
    <3>2. job'[j] # Null
      <4>1. tick[t].now \in Int /\ now \in Int
        BY DEF TypeOK, TickRecord
      <4> QED
        BY <2>1, <3>1, <4>1, RowTypes, RowAssumption
    <3>3. /\ job'[j].attempts = job[j].attempts + 1
          /\ job'[j].status \in {"SUCCESS", "FAILURE"}
      BY <2>1, <3>1 DEF RecordedRow, JobRow
    <3>4. Phase(j)' \in {"done", "retryable"}
      BY <1>2, <1>5, <3>2, <3>3 DEF Phase
    <3>5. Count(j)' = Count(j) + 1
      BY <2>2, <3>2, <3>3 DEF Count
    <3> QED
      BY <2>2, <3>4, <3>5 DEF Lives
  <2> QED
    BY <1>5, <2>3, <2>4
<1> QED
  BY <1>3, <1>4, <1>5

\* Before its commit a tick shows nothing.
LEMMA QuietLives ==
  ASSUME job' = job, live' = live,
         \A u \in Ticks : tick'[u].pc = "done" <=> tick[u].pc = "done",
         NEW j \in Jobs
  PROVE  Lives(j)
<1>1. j[1] \in Ticks
  BY DEF Jobs
<1> QED
  BY <1>1, SameLives

\* The steps of a tick's transaction other than its commit.
Inside(t) ==
  \/ Begin(t) \/ SelectDue(t) \/ CreateJobs(t) \/ ResetRetry(t)
  \/ SelectRetry(t) \/ Unwind(t) \/ Rollback(t)

LEMMA InsideLives ==
  ASSUME Core, NEW t \in Ticks, Inside(t), NEW j \in Jobs PROVE Lives(j)
<1>1. tick \in [Ticks -> TickRecord] /\ tick[t] \in TickRecord
  BY DEF Core, TypeOK
<1>2. job' = job /\ live' = live /\ tick[t].pc # "done"
  BY DEF Inside, Begin, SelectDue, CreateJobs, ResetRetry, SelectRetry, Unwind,
     Rollback, InTx, Stages
<1>3. \A u \in Ticks : u # t => tick'[u] = tick[u]
  BY <1>1 DEF Inside, Begin, SelectDue, CreateJobs, ResetRetry, SelectRetry, Unwind,
     Rollback
<1>4. tick'[t].pc # "done"
  <2>1. CASE Begin(t) \/ Unwind(t) \/ Rollback(t)
    <3>1. PICK r \in {Idle, [Idle EXCEPT !.pc = "select", !.now = now]} :
            tick' = [tick EXCEPT ![t] = r]
      BY <2>1 DEF Begin, Unwind, Rollback
    <3>2. Idle.pc = "idle" /\ [Idle EXCEPT !.pc = "select", !.now = now].pc = "select"
      BY DEF Idle
    <3>3. r.pc # "done"
      BY <3>2
    <3> QED
      BY <1>1, <3>1, <3>3
  <2>2. CASE SelectDue(t)
    BY <1>1, <2>2 DEF SelectDue, TickRecord
  <2>3. CASE CreateJobs(t)
    <3>1. PICK pc \in {"failed", "retry", "reset"} :
            tick' = [tick EXCEPT ![t] = [@ EXCEPT !.pc = pc]]
      BY <2>3 DEF CreateJobs
    <3> QED
      BY <1>1, <3>1 DEF TickRecord
  <2>4. CASE ResetRetry(t)
    BY <1>1, <2>4 DEF ResetRetry, TickRecord
  <2>5. CASE SelectRetry(t)
    BY <1>1, <2>5 DEF SelectRetry, TickRecord
  <2> QED
    BY <2>1, <2>2, <2>3, <2>4, <2>5 DEF Inside
<1>5. \A u \in Ticks : tick'[u].pc = "done" <=> tick[u].pc = "done"
  BY <1>2, <1>3, <1>4
<1> QED
  BY <1>2, <1>5, QuietLives

LEMMA StepLives ==
  ASSUME NEW X, InvBut(X), [Next]_vars, NEW j \in Jobs \ X PROVE Lives(j)
<1>1. ASSUME NEW t \in Ticks, Commit(t) PROVE Lives(j)
  BY <1>1, CommitLives
<1>2. ASSUME NEW t \in Ticks, Inside(t) PROVE Lives(j)
  BY <1>2, InsideLives DEF InvBut
<1>3. ASSUME NEW t \in Ticks, ExecutionStep(t) PROVE Lives(j)
  <2>1. ASSUME NEW i \in Jobs, Lose(t, i) PROVE Lives(j)
    BY <2>1, EndLives DEF Lose
  <2>2. ASSUME NEW i \in Jobs, NEW o \in Outcomes, Finish(t, i, o) PROVE Lives(j)
    <3>1. /\ i \in live[t] /\ now' = now /\ tick' = tick
          /\ live' = [live EXCEPT ![t] = @ \ {i}]
      BY <2>2 DEF Finish
    <3>2. CASE job[i] = Null
      <4>1. job' = job
        BY <2>2, <3>2 DEF Finish, InvBut, Core, TypeOK
      <4> QED
        BY <3>1, <4>1, EndLives
    <3>3. CASE job[i] # Null
      <4>1. job' = [job EXCEPT ![i] = RecordedRow(@, o)]
        BY <2>2, <3>3 DEF Finish
      <4> QED
        BY <3>1, <3>3, <4>1, EndLives
    <3> QED
      BY <3>2, <3>3
  <2> QED
    BY <1>3, <2>1, <2>2 DEF ExecutionStep
<1>4. CASE Advance \/ UNCHANGED vars
  <2>1. job' = job /\ live' = live /\ tick' = tick
    BY <1>4 DEF Advance, vars
  <2> QED
    BY <2>1, QuietLives
<1> QED
  BY <1>1, <1>2, <1>3, <1>4 DEF Next, TickStep, Inside, Terminated

\* Every step of the dispatcher is one JobLife allows, for every job at once.
LEMMA LifeStep == Inv /\ [Next]_vars => [Life!Next]_(Life!lifeVars)
<1> SUFFICES ASSUME Inv, [Next]_vars PROVE Life!Next
  OBVIOUS
<1>1. \A j \in Jobs : Lives(j)
  BY StepLives, InvIsInvBut
<1>2. \A j \in Jobs : Phase(j)' \in Life!Phases /\ Count(j)' \in Nat
  <2>1. Inv'
    BY InvStep
  <2>2. \A j \in Jobs : job'[j] # Null => job'[j].attempts \in Nat
    BY <2>1 DEF Inv, Core, TypeOK, JobRow
  <2> QED
    BY <2>2 DEF Phase, Count, Life!Phases
<1> DEFINE p == [j \in Jobs |-> Phase(j)]
           f == [j \in Jobs |-> Count(j)]
<1>3. \A j \in Jobs : Life!Keep(j) \/ Life!Launch(j) \/ Life!Record(j)
                        \/ Life!Vanish(j) \/ Life!Drop(j) \/ Life!Relaunch(j)
                        \/ Life!Remove(j)
  BY <1>1 DEF Lives, Life!Keep, Life!Launch, Life!Record, Life!Vanish, Life!Drop,
     Life!Relaunch, Life!Remove, Life!Move
<1>4. /\ p' \in [Jobs -> Life!Phases]
      /\ f' \in [Jobs -> Nat]
  BY <1>2
<1> QED
  BY <1>3, <1>4 DEF Life!Next

\* The dispatcher keeps its promise about jobs: whatever the interleaving, a
\* job is executed by one run at a time, at most RetryMax times, again only
\* after an execution that asked for it, and comes back from no other end.
THEOREM ImplementsJobLife == Spec => JobLifeSpec
<1>1. Init => Life!Init
  BY DEF Init, Idle, Jobs, Life!Init, Phase, Count
<1> QED
  BY <1>1, LifeStep, Invariance, PTL DEF Spec, JobLifeSpec, Life!Spec
=============================================================================
