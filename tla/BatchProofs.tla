----------------------------- MODULE BatchProofs ----------------------------
(* Proofs about Batch for any number of requests, jobs and permits and any   *)
(* set of faults.                                                            *)
EXTENDS Batch, FiniteSetTheorems, TLAPS

\* An open gather has seen no child fail; one that is "ok" has seen all of its
\* children end "ok"; a request is only completed by such a gather.
Gathers ==
  \A r \in Requests :
    /\ gather[r] = "open" => \A j \in JobsOf(r) : child[j] \in Ended => child[j] = "ok"
    /\ gather[r] = "ok" => \A j \in JobsOf(r) : child[j] = "ok"
    /\ request[r] = "completed" => gather[r] = "ok"

\* A row is written by the step that ends its child, and by no other.
Rows ==
  \A j \in Jobs :
    /\ child[j] = "ok" => row[j] # "PENDING"
    /\ child[j] \notin Ended => row[j] \in {"PENDING", "deleted"}

Inv == TypeOK /\ Gathers /\ Rows

LEMMA InitInv == Init => Inv
<1> SUFFICES ASSUME Init PROVE Inv
  OBVIOUS
<1> QED
  BY BatchAssumption DEF Init, Inv, TypeOK, Gathers, Rows, Outcomes, Open, Ended, JobsOf

\* A child that has not ended moves on and does not end.
LEMMA MoveInv ==
  ASSUME Inv, NEW j \in Jobs, NEW s \in Holding, child[j] \notin Ended,
         child' = [child EXCEPT ![j] = s], UNCHANGED <<gather, request, row, faults>>,
         result' \in [Jobs -> Outcomes], reraise' \in [Jobs -> BOOLEAN],
         cancel' \in [Jobs -> BOOLEAN]
  PROVE  Inv'
<1>1. TypeOK'
  BY DEF Inv, TypeOK
<1>2. Gathers'
  BY DEF Inv, TypeOK, Gathers, JobsOf, Holding, Writing, Ended
<1>3. Rows'
  BY DEF Inv, TypeOK, Rows, Holding, Writing, Ended
<1> QED
  BY <1>1, <1>2, <1>3 DEF Inv

\* A child ends, alone, and its row is written if it ends well.
LEMMA EndInv ==
  ASSUME Inv, NEW j \in Jobs, NEW how \in Ended, child[j] \notin Ended, End(j, how),
         NEW w \in {"PENDING", "deleted"} \cup Outcomes,
         row' = [row EXCEPT ![j] = w], how = "ok" => w # "PENDING",
         UNCHANGED <<result, reraise, request, faults>>
  PROVE  Inv'
<1>1. /\ child' = [child EXCEPT ![j] = how]
      /\ cancel' = [cancel EXCEPT ![j] = FALSE]
      /\ gather' = [gather EXCEPT ![Owner[j]] = Resolved(Owner[j], j, how)]
  BY DEF End
<1>2. Owner[j] \in Requests /\ j \in JobsOf(Owner[j])
  BY BatchAssumption DEF JobsOf
<1>3. Resolved(Owner[j], j, how) \in {"open"} \cup Ended
  BY <1>2 DEF Resolved, Inv, TypeOK, Ended
<1>4. TypeOK'
  BY <1>1, <1>3 DEF Inv, TypeOK
<1>5. Rows'
  BY <1>1 DEF Inv, TypeOK, Rows
<1>6. gather[Owner[j]] # "ok"
  BY <1>2 DEF Inv, Gathers, Ended
<1>7. Gathers'
  <2> SUFFICES ASSUME NEW r \in Requests
               PROVE  /\ gather'[r] = "open" =>
                           \A i \in JobsOf(r) : child'[i] \in Ended => child'[i] = "ok"
                      /\ gather'[r] = "ok" => \A i \in JobsOf(r) : child'[i] = "ok"
                      /\ request'[r] = "completed" => gather'[r] = "ok"
    BY DEF Gathers, JobsOf
  <2>1. CASE r # Owner[j]
    <3>1. gather'[r] = gather[r] /\ \A i \in JobsOf(r) : child'[i] = child[i]
      BY <2>1, <1>1 DEF JobsOf, Inv, TypeOK
    <3> QED
      BY <3>1 DEF Inv, Gathers
  <2>2. CASE r = Owner[j]
    <3>1. gather'[r] = Resolved(r, j, how) /\ request[r] # "completed"
      BY <2>2, <1>1, <1>6 DEF Inv, TypeOK, Gathers
    <3>2. ASSUME gather'[r] \in {"open", "ok"}
          PROVE  gather[r] = "open" /\ how = "ok"
      BY <3>1, <3>2, <1>6, <2>2 DEF Resolved, Ended
    <3>3. ASSUME gather'[r] = "ok" PROVE Unfinished(r) = {j}
      BY <3>1, <3>2, <3>3 DEF Resolved
    <3>4. ASSUME gather'[r] \in {"open", "ok"}, NEW i \in JobsOf(r), child'[i] \in Ended
          PROVE  child'[i] = "ok"
      BY <1>1, <3>2, <3>4 DEF Inv, TypeOK, Gathers, JobsOf
    <3>5. ASSUME gather'[r] = "ok", NEW i \in JobsOf(r) PROVE child'[i] \in Ended
      BY <1>1, <3>3, <3>5 DEF Unfinished, Inv, TypeOK, JobsOf
    <3> QED
      BY <3>1, <3>4, <3>5
  <2> QED
    BY <2>1, <2>2
<1> QED
  BY <1>4, <1>5, <1>7 DEF Inv

\* A step that leaves children, rows and gathers alone.
LEMMA RequestInv ==
  ASSUME Inv, UNCHANGED <<child, result, reraise, gather, row, faults>>,
         cancel' \in [Jobs -> BOOLEAN],
         request' \in [Requests -> Open \cup {"completed", "timedout", "failed", "aborted"}],
         \A r \in Requests : request'[r] = "completed" =>
           request[r] = "completed" \/ gather[r] = "ok"
  PROVE  Inv'
<1>1. TypeOK'
  BY DEF Inv, TypeOK
<1>2. Gathers'
  BY DEF Inv, Gathers, JobsOf
<1>3. Rows'
  BY DEF Inv, Rows
<1> QED
  BY <1>1, <1>2, <1>3 DEF Inv

LEMMA InterruptInv ==
  ASSUME Inv, NEW r \in Requests,
         NEW pending \in {"expired", "aborting"}, NEW over \in {"timedout", "aborted"},
         Interrupt(r, pending, over)
  PROVE  Inv'
<1>1. cancel' \in [Jobs -> BOOLEAN]
  BY DEF Interrupt, Inv, TypeOK
<1>2. /\ request' \in [Requests -> Open \cup {"completed", "timedout", "failed", "aborted"}]
      /\ \A u \in Requests : request'[u] = "completed" => request[u] = "completed"
  BY DEF Interrupt, Inv, TypeOK, Open
<1> QED
  BY <1>1, <1>2, RequestInv DEF Interrupt

LEMMA AnswerInv ==
  ASSUME Inv, NEW r \in Requests, Answer(r) PROVE Inv'
<1>1. PICK a \in {"completed", "failed", "timedout", "aborted"} :
        request' = [request EXCEPT ![r] = a] /\ (a = "completed" => gather[r] = "ok")
  BY DEF Answer
<1>2. /\ request' \in [Requests -> Open \cup {"completed", "timedout", "failed", "aborted"}]
      /\ \A u \in Requests : request'[u] = "completed" =>
           request[u] = "completed" \/ gather[u] = "ok"
  BY <1>1 DEF Inv, TypeOK
<1>3. cancel' \in [Jobs -> BOOLEAN] /\ UNCHANGED <<child, result, reraise, gather, row, faults>>
  BY DEF Answer, Inv, TypeOK
<1> QED
  BY <1>2, <1>3, RequestInv

LEMMA ChildInv ==
  ASSUME Inv, NEW j \in Jobs, ChildStep(j) \/ Return(j) \/ CancelItself(j) PROVE Inv'
<1> USE DEF Ended, Holding, Writing
<1>1. CASE Acquire(j)
  <2>1. child' = [child EXCEPT ![j] = "running"] /\ child[j] \notin Ended
    BY <1>1 DEF Acquire
  <2>2. result' \in [Jobs -> Outcomes] /\ reraise' \in [Jobs -> BOOLEAN]
        /\ cancel' \in [Jobs -> BOOLEAN] /\ UNCHANGED <<gather, request, row, faults>>
    BY <1>1 DEF Acquire, Inv, TypeOK
  <2> QED
    BY <2>1, <2>2, MoveInv
<1>2. CASE Reject(j) \/ RejectForRetry(j) \/ Find(j)
  <2>1. /\ child' = [child EXCEPT ![j] = "writing"] \/ child' = [child EXCEPT ![j] = "flushing"]
        /\ child[j] \notin Ended
    BY <1>2 DEF Reject, RejectForRetry, AtOnce, Find
  <2>2. result' \in [Jobs -> Outcomes] /\ reraise' \in [Jobs -> BOOLEAN]
        /\ cancel' \in [Jobs -> BOOLEAN] /\ UNCHANGED <<gather, request, row, faults>>
    BY <1>2 DEF Reject, RejectForRetry, AtOnce, Find, Inv, TypeOK, Outcomes
  <2> QED
    BY <2>1, <2>2, MoveInv
<1>3. CASE CancelRunning(j) \/ Return(j) \/ CancelItself(j)
  <2>1. PICK o \in Outcomes, b \in BOOLEAN : Conclude(j, o, b)
    BY <1>3 DEF CancelRunning, Return, CancelItself, Outcomes
  <2>2. child' = [child EXCEPT ![j] = "writing"] /\ child[j] \notin Ended
    BY <2>1 DEF Conclude
  <2>3. result' \in [Jobs -> Outcomes] /\ reraise' \in [Jobs -> BOOLEAN]
    BY <2>1 DEF Conclude, Inv, TypeOK
  <2>4. cancel' \in [Jobs -> BOOLEAN] /\ UNCHANGED <<gather, request, row, faults>>
    BY <1>3 DEF CancelRunning, Return, CancelItself, Inv, TypeOK
  <2> QED
    BY <2>2, <2>3, <2>4, MoveInv
<1>4. CASE Swallow(j)
  BY <1>4, RequestInv DEF Swallow, Inv, TypeOK
<1>5. CASE Write(j)
  <2>1. PICK how \in {"ok", "cancelled"} : End(j, how)
    BY <1>5 DEF Write, HowDone
  <2>2. result[j] \in Outcomes /\ result[j] # "PENDING"
    BY DEF Inv, TypeOK, Outcomes
  <2> QED
    BY <1>5, <2>1, <2>2, EndInv DEF Write
<1>6. CASE Miss(j) \/ WriteFails(j) \/ CancelWaiting(j)
  <2>1. PICK how \in Ended : End(j, how) /\ (how = "ok" => row[j] = "deleted")
    BY <1>6 DEF Miss, HowDone, WriteFails, CancelWaiting
  <2>2. row' = [row EXCEPT ![j] = row[j]] /\ row[j] \in {"PENDING", "deleted"} \cup Outcomes
    BY <1>6 DEF Miss, WriteFails, CancelWaiting, Inv, TypeOK
  <2>3. child[j] \notin Ended /\ UNCHANGED <<result, reraise, request, faults>>
    BY <1>6 DEF Miss, WriteFails, CannotWrite, CancelWaiting
  <2> QED
    BY <2>1, <2>2, <2>3, EndInv
<1>7. CASE CancelWriting(j)
  <2>1. PICK w \in {row[j], result[j]} : row' = [row EXCEPT ![j] = w]
    BY <1>7 DEF CancelWriting, Inv, TypeOK
  <2>2. w \in {"PENDING", "deleted"} \cup Outcomes
    BY <2>1 DEF Inv, TypeOK
  <2>3. End(j, "cancelled") /\ child[j] \notin Ended
        /\ UNCHANGED <<result, reraise, request, faults>>
    BY <1>7 DEF CancelWriting
  <2> QED
    BY <2>1, <2>2, <2>3, EndInv
<1> QED
  BY <1>1, <1>2, <1>3, <1>4, <1>5, <1>6, <1>7 DEF ChildStep

LEMMA InvStep == Inv /\ [Next]_vars => Inv'
<1> SUFFICES ASSUME Inv, [Next]_vars PROVE Inv'
  OBVIOUS
<1>1. ASSUME NEW j \in Jobs, ChildStep(j) \/ Return(j) \/ CancelItself(j) PROVE Inv'
  BY <1>1, ChildInv
<1>2. ASSUME NEW j \in Jobs, Delete(j) PROVE Inv'
  BY <1>2 DEF Delete, Inv, TypeOK, Gathers, Rows, JobsOf
<1>3. ASSUME NEW r \in Requests, Expire(r) \/ Abort(r) PROVE Inv'
  BY <1>3, InterruptInv DEF Expire, Abort
<1>4. ASSUME NEW r \in Requests, Answer(r) PROVE Inv'
  BY <1>4, AnswerInv
<1>5. CASE UNCHANGED vars
  BY <1>5 DEF vars, Inv, TypeOK, Gathers, Rows, JobsOf
<1> QED
  BY <1>1, <1>2, <1>3, <1>4, <1>5 DEF Next, Finished

LEMMA Invariance == Spec => []Inv
BY InitInv, InvStep, PTL DEF Spec

\* Type correctness, for any number of requests and any faults.
THEOREM BatchTyped == Spec => []TypeOK
BY Invariance, PTL DEF Inv

\* A batch whose dispatch_jobs returns without its timer has recorded all of
\* its jobs, however cancellations, failed writes and other requests fall.
THEOREM CompletedBatches == Spec => []CompletedMeansRecorded
<1>1. Inv => CompletedMeansRecorded
  BY DEF Inv, Gathers, Rows, CompletedMeansRecorded, JobsOf
<1> QED
  BY <1>1, Invariance, PTL

-----------------------------------------------------------------------------
(* Batch refines Executions *)

alive == {j \in Jobs : child[j] \notin Ended}

\* A child ends: it leaves the executions, which otherwise stay as they were.
LEMMA EndLeaves ==
  ASSUME Inv, NEW j \in Jobs, NEW how \in Ended, child[j] \notin Ended, End(j, how)
  PROVE  j \in alive /\ alive' = alive \ {j}
<1>1. child' = [child EXCEPT ![j] = how] /\ child \in [Jobs -> {"waiting"} \cup Holding \cup Ended]
  BY DEF End, Inv, TypeOK
<1> QED
  BY <1>1 DEF alive

LEMMA ChildRefines ==
  ASSUME Inv, NEW j \in Jobs, ChildStep(j) \/ Return(j) \/ CancelItself(j)
  PROVE  (alive' = alive /\ row' = row) \/ Execs!Lose(j) \/ Execs!Finish(j)
<1> USE DEF Holding, Writing
<1>1. CASE Acquire(j) \/ Reject(j) \/ RejectForRetry(j) \/ CancelRunning(j) \/ Return(j)
             \/ CancelItself(j) \/ Find(j)
  <2> USE DEF Acquire, Reject, RejectForRetry, AtOnce, CancelRunning, Return, CancelItself,
        Conclude, Find
  <2>1. PICK s \in Holding : child' = [child EXCEPT ![j] = s]
    BY <1>1
  <2>2. child[j] \notin Ended /\ row' = row
    BY <1>1 DEF Ended
  <2>3. child \in [Jobs -> {"waiting"} \cup Holding \cup Ended]
    BY DEF Inv, TypeOK
  <2>4. alive' = alive
    BY <2>1, <2>2, <2>3 DEF alive, Ended
  <2> QED
    BY <2>2, <2>4
<1>2. CASE Swallow(j)
  BY <1>2 DEF Swallow, alive
<1>3. CASE Miss(j) \/ Write(j) \/ WriteFails(j) \/ CancelWaiting(j) \/ CancelWriting(j)
  <2> USE DEF Miss, Write, WriteFails, CannotWrite, CancelWaiting, CancelWriting, HowDone
  <2>1. /\ child[j] \notin Ended
        /\ row' = row \/ (row[j] # "deleted" /\ row' = [row EXCEPT ![j] = result[j]])
    BY <1>3 DEF Ended
  <2>2. PICK how \in Ended : End(j, how)
    BY <1>3 DEF Ended
  <2>3. j \in alive /\ alive' = alive \ {j}
    BY <2>1, <2>2, EndLeaves
  <2>4. row' = row \/ (row[j] = "PENDING" /\ \E o \in Outcomes : row' = [row EXCEPT ![j] = o])
    BY <2>1 DEF Inv, TypeOK, Rows
  <2> QED
    BY <2>3, <2>4 DEF Execs!Lose, Execs!Finish, Execs!End, alive
<1> QED
  BY <1>1, <1>2, <1>3 DEF ChildStep

LEMMA StepRefines == Inv /\ [Next]_vars => [Execs!Next]_<<alive, row>>
<1> SUFFICES ASSUME Inv, [Next]_vars
             PROVE  Execs!Next \/ (alive' = alive /\ row' = row)
  OBVIOUS
<1>1. ASSUME NEW j \in Jobs, ChildStep(j) \/ Return(j) \/ CancelItself(j)
      PROVE  Execs!Next \/ (alive' = alive /\ row' = row)
  BY <1>1, ChildRefines DEF Execs!Next
<1>2. ASSUME NEW j \in Jobs, Delete(j) PROVE Execs!Delete(j)
  BY <1>2 DEF Delete, Execs!Delete
<1>3. ASSUME NEW r \in Requests, Expire(r) \/ Abort(r) \/ Answer(r)
      PROVE  alive' = alive /\ row' = row
  BY <1>3 DEF Expire, Abort, Answer, Interrupt, alive
<1>4. CASE UNCHANGED vars
  BY <1>4 DEF vars, alive
<1> QED
  BY <1>1, <1>2, <1>3, <1>4 DEF Next, Finished, Execs!Next

\* What Dispatch assumes of a batch, the batch delivers: every execution ends
\* at most once, and only that step, or a client's DELETE, changes its row.
THEOREM BatchImplementsExecutions == Spec => ExecutionsSpec
<1>1. Init => Execs!Init
  BY DEF Init, Execs!Init, Ended
<1>2. Inv /\ [Next]_vars => [Execs!Next]_<<alive, row>>
  BY StepRefines
<1> QED
  BY <1>1, <1>2, Invariance, PTL DEF Spec, ExecutionsSpec, Execs!Spec, alive

-----------------------------------------------------------------------------
(* Nothing starts once the timer has fired *)

\* No child fails by itself.
Calm == faults \cap {"writeError", "delete", "selfCancel"} = {}

\* Before a request is interrupted none of its children is cancelled or fails.
Untouched(r) ==
  /\ gather[r] \in {"open", "ok"}
  /\ \A j \in JobsOf(r) : ~cancel[j] /\ ~reraise[j] /\ child[j] \notin {"error", "cancelled"}

\* All children that still wait for a permit have a CancelledError on its way.
Stopped(r) == \A j \in JobsOf(r) : child[j] = "waiting" => cancel[j]

\* An interrupt that found the gather open has stopped the children; in a calm
\* world every interrupt does, or comes when they have ended.
Timely ==
  /\ \A r \in Requests : request[r] \in {"expired", "aborting"} => Stopped(r)
  /\ Calm => /\ \A j \in Jobs : row[j] # "deleted"
             /\ \A r \in Requests :
                  /\ request[r] = "gathering" => Untouched(r)
                  /\ request[r] # "gathering" => Stopped(r)

LEMMA TimelyInit == Init => Timely
BY BatchAssumption DEF Init, Timely, Untouched, JobsOf

\* What the steps of one child have in common.
LEMMA OneChild ==
  ASSUME Inv, NEW j \in Jobs, ChildStep(j) \/ Return(j) \/ CancelItself(j)
  PROVE  /\ request' = request /\ faults' = faults
         /\ \A i \in Jobs \ {j} :
              child'[i] = child[i] /\ cancel'[i] = cancel[i] /\ reraise'[i] = reraise[i]
         /\ \A r \in Requests \ {Owner[j]} : gather'[r] = gather[r]
         /\ child'[j] # "waiting"
         /\ row' = row \/ \E o \in Outcomes : row' = [row EXCEPT ![j] = o]
<1> USE DEF Inv, TypeOK
<1>1. CASE Acquire(j) \/ Reject(j) \/ RejectForRetry(j) \/ Find(j)
  BY <1>1 DEF Acquire, Reject, RejectForRetry, AtOnce, Find
<1>2. CASE CancelRunning(j) \/ Return(j) \/ CancelItself(j) \/ Swallow(j)
  BY <1>2 DEF CancelRunning, Return, CancelItself, Conclude, Swallow
<1>3. ASSUME NEW how, how # "waiting", End(j, how), UNCHANGED <<reraise, request, faults>>
      PROVE  /\ request' = request /\ faults' = faults
             /\ \A i \in Jobs \ {j} :
                  child'[i] = child[i] /\ cancel'[i] = cancel[i] /\ reraise'[i] = reraise[i]
             /\ \A r \in Requests \ {Owner[j]} : gather'[r] = gather[r]
             /\ child'[j] # "waiting"
  BY <1>3 DEF End
<1>4. CASE Miss(j) \/ Write(j) \/ WriteFails(j) \/ CancelWaiting(j) \/ CancelWriting(j)
  <2>1. row' = row \/ \E o \in Outcomes : row' = [row EXCEPT ![j] = o]
    BY <1>4 DEF Miss, Write, WriteFails, CancelWaiting, CancelWriting
  <2>2. PICK how \in Ended : End(j, how)
    BY <1>4 DEF Miss, Write, WriteFails, CancelWaiting, CancelWriting, HowDone, Ended
  <2>3. UNCHANGED <<reraise, request, faults>>
    BY <1>4 DEF Miss, Write, WriteFails, CancelWaiting, CancelWriting
  <2> QED
    BY <1>3, <2>1, <2>2, <2>3 DEF Ended
<1> QED
  BY <1>1, <1>2, <1>4 DEF ChildStep

\* In a calm world a child whose request has not been interrupted ends well.
LEMMA CalmChild ==
  ASSUME Inv, Calm, NEW j \in Jobs, row[j] # "deleted", Untouched(Owner[j]),
         request[Owner[j]] = "gathering", ChildStep(j) \/ Return(j) \/ CancelItself(j)
  PROVE  Untouched(Owner[j])'
<1>1. Owner[j] \in Requests /\ j \in JobsOf(Owner[j])
  BY BatchAssumption DEF JobsOf
<1>2. Acquire(j) \/ Reject(j) \/ RejectForRetry(j) \/ Find(j) \/ Write(j) \/ Return(j)
  BY <1>1 DEF Untouched, Calm, ChildStep, Miss, WriteFails, CannotWrite, CancelWaiting,
     CancelRunning, Swallow, CancelWriting, CancelItself
<1>3. CASE Acquire(j) \/ Reject(j) \/ RejectForRetry(j) \/ Find(j) \/ Return(j)
  BY <1>1, <1>3 DEF Untouched, Calm, Acquire, Reject, RejectForRetry, AtOnce, Find, Return,
     Conclude, JobsOf, Inv, TypeOK
<1>4. CASE Write(j)
  <2>1. End(j, "ok") /\ reraise' = reraise
    BY <1>1, <1>4 DEF Write, HowDone, Untouched
  <2>2. gather'[Owner[j]] \in {"open", "ok"}
    BY <1>1, <2>1 DEF End, Resolved, Untouched, Inv, TypeOK
  <2> QED
    BY <1>1, <2>1, <2>2 DEF End, Untouched, JobsOf, Inv, TypeOK
<1> QED
  BY <1>2, <1>3, <1>4

LEMMA TimelyChild ==
  ASSUME Inv, Timely, NEW j \in Jobs, ChildStep(j) \/ Return(j) \/ CancelItself(j)
  PROVE  Timely'
<1>1. /\ request' = request /\ faults' = faults
      /\ \A i \in Jobs \ {j} :
           child'[i] = child[i] /\ cancel'[i] = cancel[i] /\ reraise'[i] = reraise[i]
      /\ \A r \in Requests \ {Owner[j]} : gather'[r] = gather[r]
      /\ child'[j] # "waiting"
      /\ row' = row \/ \E o \in Outcomes : row' = [row EXCEPT ![j] = o]
  BY OneChild
<1>2. \A r \in Requests : Stopped(r) => Stopped(r)'
  BY <1>1 DEF Stopped, JobsOf
<1>3. Owner[j] \in Requests
  BY BatchAssumption
<1>4. ASSUME Calm, NEW r \in Requests, request[r] = "gathering" PROVE Untouched(r)'
  <2>1. Untouched(r) /\ row[j] # "deleted"
    BY <1>4 DEF Timely
  <2>2. CASE r = Owner[j]
    BY <1>4, <2>1, <2>2, CalmChild
  <2>3. CASE r # Owner[j]
    BY <1>1, <2>1, <2>3 DEF Untouched, JobsOf
  <2> QED
    BY <2>2, <2>3
<1>5. ASSUME Calm, NEW i \in Jobs PROVE row'[i] # "deleted"
  BY <1>1, <1>5 DEF Timely, Outcomes, Inv, TypeOK
<1> QED
  BY <1>1, <1>2, <1>4, <1>5 DEF Timely, Calm

LEMMA TimelyRequest ==
  ASSUME Inv, Timely, NEW r \in Requests, Expire(r) \/ Abort(r) \/ Answer(r)
  PROVE  Timely'
<1>1. UNCHANGED <<child, reraise, gather, row, faults>>
  BY DEF Expire, Abort, Answer, Interrupt
<1>2. \A u \in Requests \ {r} : request'[u] = request[u]
  BY DEF Expire, Abort, Answer, Interrupt, Inv, TypeOK
<1>3. request'[r] # "gathering"
  BY DEF Expire, Abort, Answer, Interrupt, Inv, TypeOK
<1>4. \A j \in Jobs : (cancel[j] => cancel'[j]) /\ (Owner[j] # r => cancel'[j] = cancel[j])
  BY DEF Expire, Abort, Answer, Interrupt, Unfinished, JobsOf, Inv, TypeOK
<1>5. \A u \in Requests : Stopped(u) => Stopped(u)'
  BY <1>1, <1>4 DEF Stopped, JobsOf
<1>6. request'[r] \in {"expired", "aborting"} => Stopped(r)'
  BY DEF Expire, Abort, Answer, Interrupt, Unfinished, JobsOf, Ended, Stopped, Inv, TypeOK
<1>7. ASSUME Calm PROVE Stopped(r)'
  <2>1. CASE request[r] # "gathering"
    BY <1>5, <1>7, <2>1 DEF Timely
  <2>2. CASE request[r] = "gathering" /\ gather[r] = "ok"
    BY <1>1, <2>2 DEF Inv, Gathers, Stopped, JobsOf
  <2>3. CASE request[r] = "gathering" /\ gather[r] = "open"
    BY <2>3 DEF Expire, Abort, Answer, Interrupt, Unfinished, JobsOf, Ended, Stopped
  <2> QED
    BY <1>7, <2>1, <2>2, <2>3 DEF Timely, Untouched
<1>8. \A u \in Requests \ {r} : Untouched(u) => Untouched(u)'
  BY <1>1, <1>4 DEF Untouched, JobsOf
<1> QED
  BY <1>1, <1>2, <1>3, <1>5, <1>6, <1>7, <1>8 DEF Timely, Calm

LEMMA TimelyStep == Inv /\ Timely /\ [Next]_vars => Timely'
<1> SUFFICES ASSUME Inv, Timely, [Next]_vars PROVE Timely'
  OBVIOUS
<1>1. ASSUME NEW j \in Jobs, Delete(j) PROVE Timely'
  BY <1>1 DEF Delete, Timely, Untouched, Stopped, Calm, JobsOf
<1>2. CASE UNCHANGED vars
  BY <1>2 DEF vars, Timely, Untouched, Stopped, Calm, JobsOf
<1> QED
  BY <1>1, <1>2, TimelyChild, TimelyRequest DEF Next, Finished

\* While a request waits for the children it has cancelled none of them gets a
\* permit, in any world of faults; nor after it has timed out, where no child
\* fails by itself.
THEOREM NothingStartsLate == Spec => NoStartAfterTimeout
<1> DEFINE Late == \A j \in Jobs : child[j] = "waiting" /\ child'[j] \in Holding =>
             /\ request[Owner[j]] \notin {"expired", "aborting"}
             /\ faults \cap {"writeError", "delete", "selfCancel"} = {} =>
                  request[Owner[j]] # "timedout"
<1>1. Inv /\ Timely /\ [Next]_vars => [Late]_vars
  <2> SUFFICES ASSUME Inv, Timely, [Next]_vars, NEW j \in Jobs,
                      child[j] = "waiting", child'[j] \in Holding
               PROVE  /\ request[Owner[j]] \notin {"expired", "aborting"}
                      /\ Calm => request[Owner[j]] # "timedout"
    BY DEF Calm
  <2>1. Owner[j] \in Requests /\ j \in JobsOf(Owner[j])
    BY BatchAssumption DEF JobsOf
  <2>2. child' # child
    BY DEF Holding, Writing
  <2>3. PICK i \in Jobs : ChildStep(i) \/ Return(i) \/ CancelItself(i)
    BY <2>2 DEF Next, Delete, Expire, Abort, Interrupt, Answer, Finished, vars
  <2>4. i = j
    BY <2>3, OneChild DEF Holding, Writing
  <2>5. ~cancel[j]
    <3>1. CASE CancelWaiting(j)
      BY <3>1 DEF CancelWaiting, End, Holding, Writing, Inv, TypeOK
    <3> QED
      BY <2>3, <2>4, <3>1 DEF ChildStep, Acquire, Reject, RejectForRetry, AtOnce, Find,
         Miss, Write, WriteFails, CannotWrite, CancelRunning, Swallow, CancelWriting,
         Return, CancelItself, Conclude, Writing
  <2>6. ~Stopped(Owner[j])
    BY <2>1, <2>5 DEF Stopped
  <2> QED
    BY <2>1, <2>6 DEF Timely
<1> QED
  BY <1>1, TimelyInit, TimelyStep, Invariance, PTL DEF Spec, NoStartAfterTimeout

-----------------------------------------------------------------------------
(* What a request waits for *)

\* A gather is resolved by its last child at the latest.
Wakeful == \A r \in Requests : gather[r] = "open" => Unfinished(r) # {}

LEMMA WakefulInit == Init => Wakeful
BY BatchAssumption DEF Init, Wakeful, Unfinished, JobsOf, Ended

LEMMA WakefulEnd ==
  ASSUME Inv, Wakeful, NEW j \in Jobs, NEW how \in Ended, child[j] \notin Ended,
         End(j, how)
  PROVE  Wakeful'
<1> SUFFICES ASSUME NEW r \in Requests, gather'[r] = "open"
             PROVE  \E i \in JobsOf(r) : child'[i] \notin Ended
  BY DEF Wakeful, Unfinished, JobsOf
<1>1. /\ \A i \in Jobs \ {j} : child'[i] = child[i]
      /\ gather' = [gather EXCEPT ![Owner[j]] = Resolved(Owner[j], j, how)]
  BY DEF End, Inv, TypeOK
<1>2. CASE r # Owner[j]
  BY <1>1, <1>2 DEF Wakeful, Unfinished, JobsOf, Inv, TypeOK
<1>3. CASE r = Owner[j]
  <2>1. gather[r] = "open" /\ Unfinished(r) # {j}
    BY <1>1, <1>3 DEF Resolved, Inv, TypeOK, Ended
  <2>2. j \in Unfinished(r)
    BY <1>3 DEF Unfinished, JobsOf
  <2>3. PICK i \in Unfinished(r) : i # j
    BY <2>1, <2>2
  <2> QED
    BY <1>1, <2>3 DEF Unfinished, JobsOf
<1> QED
  BY <1>2, <1>3

LEMMA WakefulStep == Inv /\ Wakeful /\ [Next]_vars => Wakeful'
<1> SUFFICES ASSUME Inv, Wakeful, [Next]_vars PROVE Wakeful'
  OBVIOUS
<1>1. ASSUME NEW j \in Jobs,
             Miss(j) \/ Write(j) \/ WriteFails(j) \/ CancelWaiting(j) \/ CancelWriting(j)
      PROVE  Wakeful'
  <2> USE DEF Miss, Write, WriteFails, CannotWrite, CancelWaiting, CancelWriting, HowDone,
        Writing, Ended
  <2>1. PICK how \in Ended : End(j, how)
    BY <1>1
  <2>2. child[j] \notin Ended
    BY <1>1
  <2> QED
    BY <2>1, <2>2, WakefulEnd
<1>2. ASSUME NEW j \in Jobs, NEW s \in Holding, child' = [child EXCEPT ![j] = s],
             gather' = gather
      PROVE  Wakeful'
  BY <1>2 DEF Wakeful, Unfinished, JobsOf, Holding, Writing, Ended, Inv, TypeOK
<1>3. ASSUME NEW j \in Jobs,
             Acquire(j) \/ Reject(j) \/ RejectForRetry(j) \/ Find(j) \/ CancelRunning(j)
               \/ Return(j) \/ CancelItself(j)
      PROVE  Wakeful'
  BY <1>2, <1>3 DEF Acquire, Reject, RejectForRetry, AtOnce, Find, CancelRunning, Return,
     CancelItself, Conclude, Holding, Writing
<1>4. CASE UNCHANGED <<child, gather>>
  BY <1>4 DEF Wakeful, Unfinished, JobsOf
<1> QED
  BY <1>1, <1>3, <1>4 DEF Next, ChildStep, Swallow, Delete, Expire, Abort, Interrupt,
     Answer, Finished, vars

\* While no child of a request holds a permit, they are all there.
LEMMA PermitsLeft ==
  ASSUME NEW r \in Requests, \A j \in JobsOf(r) : child[j] \notin Holding
  PROVE  Permits(r) > 0
<1>1. {j \in JobsOf(r) : child[j] \in Holding} = {}
  OBVIOUS
<1>2. Cardinality({j \in JobsOf(r) : child[j] \in Holding}) = 0
  BY <1>1, FS_EmptySet
<1> QED
  BY <1>2, BatchAssumption DEF Permits

\* However many requests share the process and whatever fails, a request waits
\* for the tasks and row writes of its own children or for nothing.
THEOREM RequestsWaitForTheirOwn == Spec => []NobodyStranded
<1>1. Wakeful => NobodyStranded
  <2> SUFFICES ASSUME Wakeful, NEW r \in Requests, gather[r] = "open"
               PROVE  \E j \in Unfinished(r) :
                        child[j] \in Holding \/ cancel[j] \/ Permits(r) > 0
    BY DEF NobodyStranded
  <2>1. CASE \E j \in JobsOf(r) : child[j] \in Holding
    BY <2>1 DEF Unfinished, Holding, Writing, Ended
  <2>2. CASE \A j \in JobsOf(r) : child[j] \notin Holding
    BY <2>2, PermitsLeft DEF Wakeful
  <2> QED
    BY <2>1, <2>2
<1> QED
  BY <1>1, WakefulInit, WakefulStep, Invariance, PTL DEF Spec
=============================================================================
