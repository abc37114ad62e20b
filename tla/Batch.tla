-------------------------------- MODULE Batch -------------------------------
(* How a tick runs the jobs it dispatched: DispatcherService.dispatch_jobs,  *)
(* _dispatch and _run_dispatch on asyncio. Every request gathers one child   *)
(* task per job under a wait_for timer; a child holds a permit of the        *)
(* request's semaphore while it calls the task function and then, in a       *)
(* transaction of its own, reads the job's row and writes it.                *)
(*                                                                           *)
(* asyncio, as the code uses it: gather without return_exceptions resolves   *)
(* with its first child that raises or is cancelled and leaves the others    *)
(* running; cancelling it cancels every child once; a cancelled child gets   *)
(* CancelledError where it is suspended, before anything else it would do.   *)
EXTENDS Naturals, FiniteSets

CONSTANTS
  Requests,       \* ticks answered by the same process
  Jobs,           \* the jobs they dispatched
  Owner,          \* the request each job belongs to
  MaxConcurrent,  \* MAX_CONCURRENT_TASKS
  FaultSets       \* the worlds considered: each a subset of AllFaults

\* The timer may fire; the request may be cancelled from outside (client gone,
\* timeout_middleware, shutdown); a row write may fail; a task function may
\* never return, may swallow CancelledError, may raise it by itself; a job may
\* be deleted while it runs.
AllFaults ==
  {"timeout", "abort", "writeError", "hang", "swallow", "selfCancel", "delete"}

ASSUME BatchAssumption ==
  /\ Owner \in [Jobs -> Requests]
  /\ \A r \in Requests : \E j \in Jobs : Owner[j] = r
  /\ MaxConcurrent \in Nat \ {0}
  /\ FaultSets \subseteq SUBSET AllFaults

VARIABLES
  child,    \* where each child task is
  result,   \* the outcome a child has in hand
  reraise,  \* is_cancelled: the child ends as cancelled after its write
  cancel,   \* a CancelledError is on its way to the child
  gather,   \* how each request's gather future was resolved, if it was
  request,  \* where each request is
  row,      \* status and retry_need of each job's row in one word
  faults    \* what may happen in this behaviour; it never changes

vars == <<child, result, reraise, cancel, gather, request, row, faults>>

Outcomes == {"success", "failure", "retry"}
Ended == {"ok", "error", "cancelled"}
Writing == {"writing", "flushing"}
Holding == {"running"} \cup Writing
Open == {"gathering", "expired", "aborting"}

JobsOf(r) == {j \in Jobs : Owner[j] = r}
Unfinished(r) == {j \in JobsOf(r) : child[j] \notin Ended}

\* Seeded fault: one semaphore for the process.
PermitsShared(r) == MaxConcurrent - Cardinality({j \in Jobs : child[j] \in Holding})

\* A semaphore per DispatcherService, and a DispatcherService per request.
Permits(r) == MaxConcurrent - Cardinality({j \in JobsOf(r) : child[j] \in Holding})

Init ==
  /\ child = [j \in Jobs |-> "waiting"]
  /\ result = [j \in Jobs |-> "success"]
  /\ reraise = [j \in Jobs |-> FALSE]
  /\ cancel = [j \in Jobs |-> FALSE]
  /\ gather = [r \in Requests |-> "open"]
  /\ request = [r \in Requests |-> "gathering"]
  /\ row = [j \in Jobs |-> "PENDING"]
  /\ faults \in FaultSets

-----------------------------------------------------------------------------
(* A child task *)

\* Seeded fault: return_exceptions=True.
ResolvedWithErrors(r, j, how) ==
  IF gather[r] # "open"            THEN gather[r]
  ELSE IF Unfinished(r) # {j}      THEN "open"
  ELSE IF request[r] = "gathering" THEN "ok"
                                   ELSE "cancelled"

\* gather's done callback: the first child that fails resolves it for good.
Resolved(r, j, how) ==
  IF gather[r] # "open"            THEN gather[r]
  ELSE IF how # "ok"               THEN how
  ELSE IF Unfinished(r) # {j}      THEN "open"
  ELSE IF request[r] = "gathering" THEN "ok"
                                   ELSE "cancelled"

End(j, how) ==
  /\ child' = [child EXCEPT ![j] = how]
  /\ cancel' = [cancel EXCEPT ![j] = FALSE]
  /\ gather' = [gather EXCEPT ![Owner[j]] = Resolved(Owner[j], j, how)]

Acquire(j) ==
  /\ child[j] = "waiting" /\ ~cancel[j]
  /\ Permits(Owner[j]) > 0
  /\ child' = [child EXCEPT ![j] = "running"]
  /\ UNCHANGED <<result, reraise, cancel, gather, request, row, faults>>

\* The except clauses of _run_dispatch: the outcome is in hand, its write next.
Conclude(j, outcome, isCancelled) ==
  /\ child[j] = "running"
  /\ child' = [child EXCEPT ![j] = "writing"]
  /\ result' = [result EXCEPT ![j] = outcome]
  /\ reraise' = [reraise EXCEPT ![j] = isCancelled]

\* Nothing is awaited before the task has failed: no CancelledError can come
\* in between.
AtOnce(j, outcome, isCancelled) ==
  /\ child[j] = "waiting" /\ ~cancel[j]
  /\ Permits(Owner[j]) > 0
  /\ child' = [child EXCEPT ![j] = "writing"]
  /\ result' = [result EXCEPT ![j] = outcome]
  /\ reraise' = [reraise EXCEPT ![j] = isCancelled]
  /\ UNCHANGED <<cancel, gather, request, row, faults>>

\* Seeded fault: the exception passes no except clause that sets the status.
RejectAsSuccess(j) == AtOnce(j, "success", FALSE)

\* The lookup raised, the payload did not validate, what the function returned
\* could not be awaited (module Tasks).
Reject(j) == AtOnce(j, "failure", FALSE)

\* The body of a synchronous function is called inside the try block as well:
\* it may raise TimeoutError, or CancelledError.
RejectForRetry(j) ==
  \/ AtOnce(j, "retry", FALSE)
  \/ "selfCancel" \in faults /\ AtOnce(j, "retry", TRUE)

\* The function returned, raised, or raised TimeoutError.
Return(j) ==
  /\ ~cancel[j]
  /\ \E o \in Outcomes : Conclude(j, o, FALSE)
  /\ UNCHANGED <<cancel, gather, request, row, faults>>

CancelItself(j) ==
  /\ "selfCancel" \in faults
  /\ ~cancel[j]
  /\ Conclude(j, "retry", TRUE)
  /\ UNCHANGED <<cancel, gather, request, row, faults>>

HowDone(j) == IF reraise[j] THEN "cancelled" ELSE "ok"

\* get_by_pk finds the row, or does not: that is only logged.
Find(j) ==
  /\ child[j] = "writing" /\ ~cancel[j] /\ row[j] # "deleted"
  /\ child' = [child EXCEPT ![j] = "flushing"]
  /\ UNCHANGED <<result, reraise, cancel, gather, request, row, faults>>

Miss(j) ==
  /\ child[j] = "writing" /\ ~cancel[j] /\ row[j] = "deleted"
  /\ End(j, HowDone(j))
  /\ UNCHANGED <<result, reraise, request, row, faults>>

\* Seeded fault: session.merge, which inserts a row that is gone.
WriteBlindly(j) ==
  /\ child[j] = "flushing" /\ ~cancel[j]
  /\ row' = [row EXCEPT ![j] = result[j]]
  /\ End(j, HowDone(j))
  /\ UNCHANGED <<result, reraise, request, faults>>

\* The UPDATE and the COMMIT.
Write(j) ==
  /\ child[j] = "flushing" /\ ~cancel[j] /\ row[j] # "deleted"
  /\ row' = [row EXCEPT ![j] = result[j]]
  /\ End(j, HowDone(j))
  /\ UNCHANGED <<result, reraise, request, faults>>

\* The database fails; or the row was deleted between get_by_pk and the UPDATE,
\* which then matches nothing (StaleDataError).
CannotWrite(j) ==
  /\ ~cancel[j]
  /\ \/ "writeError" \in faults /\ child[j] \in Writing
     \/ child[j] = "flushing" /\ row[j] = "deleted"

\* Seeded fault: a TaskGroup, which cancels the siblings of a child that fails.
WriteFailsInGroup(j) ==
  /\ CannotWrite(j)
  /\ child' = [child EXCEPT ![j] = "error"]
  /\ gather' = [gather EXCEPT ![Owner[j]] = IF @ = "open" THEN "error" ELSE @]
  /\ cancel' = [i \in Jobs |-> cancel[i] \/ i \in Unfinished(Owner[j]) \ {j}]
  /\ UNCHANGED <<result, reraise, request, row, faults>>

WriteFails(j) ==
  /\ CannotWrite(j)
  /\ End(j, "error")
  /\ UNCHANGED <<result, reraise, request, row, faults>>

\* Cancelled in semaphore.acquire: _run_dispatch is never called.
CancelWaiting(j) ==
  /\ child[j] = "waiting" /\ cancel[j]
  /\ End(j, "cancelled")
  /\ UNCHANGED <<result, reraise, request, row, faults>>

\* Seeded fault: a status that ScheduleJobStatus does not have.
CancelRunningOwnStatus(j) ==
  /\ cancel[j]
  /\ Conclude(j, "cancelled", TRUE)
  /\ cancel' = [cancel EXCEPT ![j] = FALSE]
  /\ UNCHANGED <<gather, request, row, faults>>

CancelRunning(j) ==
  /\ cancel[j]
  /\ Conclude(j, "retry", TRUE)
  /\ cancel' = [cancel EXCEPT ![j] = FALSE]
  /\ UNCHANGED <<gather, request, row, faults>>

Swallow(j) ==
  /\ "swallow" \in faults
  /\ child[j] = "running" /\ cancel[j]
  /\ cancel' = [cancel EXCEPT ![j] = FALSE]
  /\ UNCHANGED <<child, result, reraise, gather, request, row, faults>>

\* Cancelled inside the transaction: rolled back, unless the COMMIT was
\* already on its way.
CancelWriting(j) ==
  /\ child[j] \in Writing /\ cancel[j]
  /\ \/ UNCHANGED row
     \/ /\ child[j] = "flushing" /\ row[j] # "deleted"
        /\ row' = [row EXCEPT ![j] = result[j]]
  /\ End(j, "cancelled")
  /\ UNCHANGED <<result, reraise, request, faults>>

-----------------------------------------------------------------------------
(* The request *)

\* Seeded faults: the children are shielded; only started ones are cancelled.
InterruptAlone(r, pending, over) ==
  /\ request' = [request EXCEPT ![r] = pending]
  /\ UNCHANGED <<child, result, reraise, cancel, gather, row, faults>>

InterruptStarted(r, pending, over) ==
  /\ cancel' = [j \in Jobs |->
       cancel[j] \/ (j \in JobsOf(r) /\ child[j] \in Holding)]
  /\ request' = [request EXCEPT ![r] =
                   IF gather[r] = "open" THEN pending ELSE over]
  /\ UNCHANGED <<child, result, reraise, gather, row, faults>>

\* The request task is cancelled while it awaits gather: an unresolved gather
\* passes it on to its children; otherwise the CancelledError is raised here.
Interrupt(r, pending, over) ==
  /\ cancel' = [j \in Jobs |->
       cancel[j] \/ (gather[r] = "open" /\ j \in Unfinished(r))]
  /\ request' = [request EXCEPT ![r] =
                   IF gather[r] = "open" THEN pending ELSE over]
  /\ UNCHANGED <<child, result, reraise, gather, row, faults>>

\* wait_for's timer.
Expire(r) ==
  /\ "timeout" \in faults
  /\ request[r] = "gathering"
  /\ Interrupt(r, "expired", "timedout")

Abort(r) ==
  /\ "abort" \in faults
  /\ request[r] \in {"gathering", "expired"}
  /\ Interrupt(r, "aborting", "aborted")

\* await returns or raises what gather was resolved with; wait_for turns the
\* CancelledError of its own timer into the TimeoutError dispatch_jobs logs.
Answer(r) ==
  /\ request[r] \in Open
  /\ gather[r] # "open"
  /\ request' = [request EXCEPT ![r] =
       CASE gather[r] = "ok"                                -> "completed"
         [] gather[r] = "error"                             -> "failed"
         [] gather[r] = "cancelled" /\ request[r] = "expired" -> "timedout"
         [] OTHER                                           -> "aborted"]
  /\ UNCHANGED <<child, result, reraise, cancel, gather, row, faults>>

Delete(j) ==
  /\ "delete" \in faults
  /\ row[j] # "deleted"
  /\ row' = [row EXCEPT ![j] = "deleted"]
  /\ UNCHANGED <<child, result, reraise, cancel, gather, request, faults>>

\* Everything has ended.
Finished ==
  /\ \A j \in Jobs : child[j] \in Ended
  /\ \A r \in Requests : request[r] \notin Open
  /\ UNCHANGED vars

\* What a child does next without help from its task function.
ChildStep(j) ==
  \/ Acquire(j) \/ Reject(j) \/ RejectForRetry(j)
  \/ Find(j) \/ Miss(j) \/ Write(j) \/ WriteFails(j)
  \/ CancelWaiting(j) \/ CancelRunning(j) \/ Swallow(j) \/ CancelWriting(j)

Next ==
  \/ \E j \in Jobs : ChildStep(j) \/ Return(j) \/ CancelItself(j) \/ Delete(j)
  \/ \E r \in Requests : Expire(r) \/ Abort(r) \/ Answer(r)
  \/ Finished

Spec == Init /\ [][Next]_vars

\* The event loop runs every callback it scheduled, the timer included, and
\* the database answers; a task function returns unless it may hang.
FairSpec ==
  /\ Spec
  /\ \A j \in Jobs : WF_vars(ChildStep(j))
  /\ \A r \in Requests : WF_vars(Answer(r)) /\ WF_vars(Expire(r))
  /\ \A j \in Jobs : WF_vars("hang" \notin faults /\ Return(j))

-----------------------------------------------------------------------------
(* Properties *)

TypeOK ==
  /\ child \in [Jobs -> {"waiting"} \cup Holding \cup Ended]
  /\ result \in [Jobs -> Outcomes]
  /\ reraise \in [Jobs -> BOOLEAN]
  /\ cancel \in [Jobs -> BOOLEAN]
  /\ faults \in FaultSets
  /\ gather \in [Requests -> {"open"} \cup Ended]
  /\ request \in [Requests ->
                    Open \cup {"completed", "timedout", "failed", "aborted"}]
  /\ row \in [Jobs -> {"PENDING", "deleted"} \cup Outcomes]

\* dispatch.py:74-77: when dispatch_jobs returns without its timer, every job
\* of the batch has run and its row says how it ended. A child whose write
\* failed, or one still running, must not be passed over.
CompletedMeansRecorded ==
  \A r \in Requests : request[r] = "completed" =>
    \A j \in JobsOf(r) : child[j] = "ok" /\ row[j] # "PENDING"

\* What keeps a request waiting is its own: a task function or a row write of one
\* of its children, or a child that may go on. It never waits for permits
\* another tick holds (services.py:48), nor for a gather whose children have all
\* ended, cancelled and failed ones included.
NobodyStranded ==
  \A r \in Requests : request[r] \in Open /\ gather[r] = "open" =>
    \E j \in Unfinished(r) : child[j] \in Holding \/ cancel[j] \/ Permits(r) > 0

\* services.py:160-164, "remaining tasks are cancelled": while a request waits
\* for the tasks its timer, or an abort, has cancelled, none of its children
\* gets a permit, also not one that a cancelled task gives back; nor does one
\* after it has answered that it timed out. (Where a child may fail by itself,
\* the timer can find the gather resolved: it then cancels nothing.)
NoStartAfterTimeout ==
  [][\A j \in Jobs : child[j] = "waiting" /\ child'[j] \in Holding =>
       /\ request[Owner[j]] \notin {"expired", "aborting"}
       /\ faults \cap {"writeError", "delete", "selfCancel"} = {} =>
            request[Owner[j]] # "timedout"]_vars

\* Children and rows refine the executions module Dispatch assumes.
Execs == INSTANCE Executions WITH
  live <- {j \in Jobs : child[j] \notin Ended}

ExecutionsSpec == Execs!Spec

\* services.py:28-29: the global timeout bounds the tick; it answers even if
\* task functions hang, as long as they let CancelledError through.
RequestAnswers ==
  ({"timeout", "hang"} \cap faults # {"hang"} /\ "swallow" \notin faults) =>
    \A r \in Requests : request[r] \in Open ~> request[r] \notin Open

\* dispatch_jobs gathers without return_exceptions, and not in a TaskGroup: a
\* row write that fails resolves the gather and fails the request, yet the
\* siblings run on and record themselves, after the response if need be. Only
\* a job whose own write failed is left unrecorded.
RecordedUnlessOwnWriteFails ==
  faults \subseteq {"writeError"} =>
    \A j \in Jobs : <>(row[j] \in Outcomes \/ child[j] = "error")

\* services.py:48: permits are counted per request, so task functions that hang
\* for one tick do not keep the jobs of another from starting: all of them
\* start if there are permits for all. (The other side of it: the bound of
\* MAX_CONCURRENT_TASKS, config.py:13, is one of each tick, not of the process.)
OthersDoNotStarve ==
  faults \subseteq {"hang"} =>
    \A r \in Requests : Cardinality(JobsOf(r)) <= MaxConcurrent =>
      \A j \in JobsOf(r) : <>(child[j] # "waiting")

-----------------------------------------------------------------------------
(* What documents and comments say and the code does not do *)

\* README.md:23: every dispatch attempt is recorded, so no row stays PENDING.
EveryAttemptRecorded == \A j \in Jobs : <>(row[j] # "PENDING")

=============================================================================
