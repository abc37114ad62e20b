---------------------------- MODULE SystemRefines ---------------------------
(* With clients at work the service still implements JobLife, for every job  *)
(* whose row no client has written.                                          *)
EXTENDS SystemProofs, DispatchRefines

EditedPhase(j) == IF j \in edited THEN "gone" ELSE Phase(j)
EditedCount(j) == IF j \in edited THEN 0 ELSE Count(j)

\* What JobLife allows one job to do in a step, over the mapping of EditedLife.
EditedLives(j) ==
  \/ EditedPhase(j)' = EditedPhase(j) /\ EditedCount(j)' = EditedCount(j)
  \/ EditedPhase(j) # "gone" /\ EditedPhase(j)' = "gone" /\ EditedCount(j)' = 0
  \/ j \notin edited /\ j \notin edited' /\ Lives(j)

\* A client deletes the row of a job, takes its config away, or leaves its
\* status, its wish for a retry and its count as they are.
LEMMA ClientLives ==
  ASSUME SystemInv, NEW j \in Jobs, UNCHANGED <<tick, live>>, j \notin edited,
         j \notin edited',
         \/ job[j] # Null /\ job'[j] = Null
         \/ /\ job[j] = Null <=> job'[j] = Null
            /\ job'[j] # Null =>
                 /\ job'[j].status = job[j].status
                 /\ job'[j].retryNeed = job[j].retryNeed
                 /\ job'[j].attempts = job[j].attempts
  PROVE  EditedLives(j)
<1>1. CASE job[j] # Null /\ job'[j] = Null
  <2>1. tick[j[1]].pc = "done"
    BY <1>1, RowsOfRuns DEF SystemInv
  <2>2. Phase(j)' = "gone" /\ Phase(j) # "gone" /\ Count(j)' = 0
    BY <1>1, <2>1 DEF Phase, Count
  <2> QED
    BY <2>2 DEF EditedLives, EditedPhase, EditedCount
<1>2. CASE /\ job[j] = Null <=> job'[j] = Null
           /\ job'[j] # Null => /\ job'[j].status = job[j].status
                                /\ job'[j].retryNeed = job[j].retryNeed
                                /\ job'[j].attempts = job[j].attempts
  <2>1. Phase(j)' = Phase(j) /\ Count(j)' = Count(j)
    BY <1>2 DEF Phase, Count, Failed
  <2> QED
    BY <2>1 DEF EditedLives, EditedPhase, EditedCount
<1> QED
  BY <1>1, <1>2

\* A job a client has just written is given up, if it was not gone already.
LEMMA WrittenLives ==
  ASSUME NEW j \in Jobs, j \in edited'
  PROVE  EditedLives(j)
BY DEF EditedLives, EditedPhase, EditedCount, Phase, Count

LEMMA ConfigStepLives ==
  ASSUME SystemInv, ConfigStep, NEW j \in Jobs, j \notin edited'
  PROVE  EditedLives(j)
<1>1. UNCHANGED <<tick, live, edited>>
  BY DEF ConfigStep, PostConfig, ReadForUpdate, WriteUpdate, DeleteConfig, vars, history
<1>2. CASE job' = job
  BY <1>1, <1>2, ClientLives
<1>3. ASSUME NEW c \in Configs, DeleteConfig(c) PROVE EditedLives(j)
  <2>1. CASE job'[j] = job[j]
    BY <1>1, <2>1, ClientLives
  <2>2. CASE job[j] # Null /\ job'[j] = [job[j] EXCEPT !.cfg = Null]
    <3>1. job[j] \in JobRow
      BY <2>2, Tables
    <3>2. /\ job'[j] \in JobRow
          /\ job'[j].status = job[j].status /\ job'[j].retryNeed = job[j].retryNeed
          /\ job'[j].attempts = job[j].attempts
      BY <2>2, <3>1 DEF JobRow
    <3>3. job'[j] # Null
      BY <3>2, RowAssumption
    <3> QED
      BY <1>1, <2>2, <3>2, <3>3, ClientLives
  <2> QED
    BY <1>3, <2>1, <2>2 DEF DeleteConfig
<1> QED
  BY <1>2, <1>3 DEF ConfigStep, PostConfig, ReadForUpdate, WriteUpdate, vars

LEMMA JobStepLives ==
  ASSUME SystemInv, JobStep, NEW j \in Jobs, j \notin edited'
  PROVE  EditedLives(j)
<1>1. UNCHANGED <<tick, live>> /\ edited \subseteq edited'
  BY DEF JobStep, DeleteJob, PostJob, ReadForEdit, WriteEdit, vars, history
<1>2. CASE job'[j] = job[j]
  BY <1>1, <1>2, ClientLives
<1>3. ASSUME NEW i \in Jobs, DeleteJob(i) PROVE EditedLives(j)
  BY <1>1, <1>2, <1>3, ClientLives, Tables DEF DeleteJob
<1>4. ASSUME NEW i \in Jobs, NEW b \in JobBodies, PostJob(i, b) PROVE job'[j] = job[j]
  BY <1>4, Tables DEF PostJob
<1>5. ASSUME WriteEdit PROVE job'[j] = job[j]
  BY <1>5, Tables DEF WriteEdit
<1>6. ASSUME NEW i \in Jobs, NEW b \in JobBodies, ReadForEdit(i, b) PROVE job'[j] = job[j]
  BY <1>6 DEF ReadForEdit, vars
<1> QED
  BY <1>2, <1>3, <1>4, <1>5, <1>6 DEF JobStep

LEMMA SystemStepLives ==
  ASSUME SystemInv, [SystemNext]_systemVars, NEW j \in Jobs PROVE EditedLives(j)
<1>1. CASE j \in edited'
  BY <1>1, WrittenLives
<1>2. CASE j \notin edited' /\ [Next]_vars /\ edited' = edited
  <2>1. PICK X : X = edited
    OBVIOUS
  <2>2. InvBut(X)
    BY <2>1, ButEdited DEF SystemInv
  <2>3. Lives(j)
    BY <1>2, <2>1, <2>2, StepLives
  <2> QED
    BY <1>2, <2>3 DEF EditedLives
<1>3. CASE j \notin edited' /\ (ConfigStep \/ JobStep)
  BY <1>3, ConfigStepLives, JobStepLives
<1> QED
  BY <1>1, <1>2, <1>3 DEF SystemNext, systemVars, apiVars, history

\* Every step of the service is one JobLife allows, for every job at once.
LEMMA EditedLifeStep ==
  SystemInv /\ [SystemNext]_systemVars => [EditedLife!Next]_(EditedLife!lifeVars)
<1> SUFFICES ASSUME SystemInv, [SystemNext]_systemVars PROVE EditedLife!Next
  OBVIOUS
<1> DEFINE p == [j \in Jobs |-> EditedPhase(j)]
           f == [j \in Jobs |-> EditedCount(j)]
<1>1. \A j \in Jobs : EditedLives(j)
  BY SystemStepLives
<1>2. \A j \in Jobs : EditedPhase(j)' \in EditedLife!Phases /\ EditedCount(j)' \in Nat
  <2>1. SystemInv'
    BY SystemInvStep
  <2>2. \A j \in Jobs : job'[j] # Null => job'[j].attempts \in Nat
    BY <2>1 DEF SystemInv, Core, TypeOK, JobRow
  <2> QED
    BY <2>2 DEF EditedPhase, EditedCount, Phase, Count, EditedLife!Phases
<1>3. \A j \in Jobs :
        \/ EditedLife!Keep(j) \/ EditedLife!Launch(j) \/ EditedLife!Record(j)
        \/ EditedLife!Vanish(j) \/ EditedLife!Drop(j) \/ EditedLife!Relaunch(j)
        \/ EditedLife!Remove(j)
  BY <1>1 DEF EditedLives, EditedPhase, EditedCount, Lives, EditedLife!Keep,
     EditedLife!Launch, EditedLife!Record, EditedLife!Vanish, EditedLife!Drop,
     EditedLife!Relaunch, EditedLife!Remove, EditedLife!Move
<1>4. p' \in [Jobs -> EditedLife!Phases] /\ f' \in [Jobs -> Nat]
  BY <1>2
<1> QED
  BY <1>3, <1>4 DEF EditedLife!Next, EditedPhase, EditedCount

\* Whatever clients do, the jobs they have not written live the life JobLife
\* promises: one run at a time, at most RetryMax executions, no coming back.
THEOREM ServiceImplementsJobLife == SystemSpec => JobLifeUnlessEdited
<1>1. SystemInit => EditedLife!Init
  BY DEF SystemInit, Init, Idle, Jobs, EditedLife!Init, Phase, Count
<1> QED
  BY <1>1, EditedLifeStep, SystemInvariance, PTL DEF SystemSpec, JobLifeUnlessEdited,
     EditedLife!Spec

\* A job that has ended for good, was lost with its process, or is a client's.
Over(j) == EditedPhase(j) \in {"lost", "done", "gone"}

\* services.py:141-146 and 170-178: nothing brings a job back. A finished one is
\* never retried, and a job whose process died between its commit and its row
\* write stays PENDING for ever, unless a client writes it.
THEOREM OverForGood == ASSUME NEW j \in Jobs PROVE SystemSpec => [](Over(j) => []Over(j))
<1>1. SystemInv /\ Over(j) /\ [SystemNext]_systemVars => Over(j)'
  <2> SUFFICES ASSUME SystemInv, Over(j), [SystemNext]_systemVars PROVE Over(j)'
    OBVIOUS
  <2>1. EditedLives(j)
    BY SystemStepLives
  <2> QED
    BY <2>1 DEF EditedLives, Over, EditedPhase, Lives
<1> QED
  BY <1>1, SystemInvariance, PTL DEF SystemSpec
=============================================================================
